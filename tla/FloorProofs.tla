----------------------------- MODULE FloorProofs -----------------------------
(***************************************************************************)
(* The floor, for any number of guests, tables, requests and members of    *)
(* staff.                                                                  *)
(*                                                                         *)
(* ScanOrders: only the call that claimed a request goes on with it, and a *)
(* token is shared by calls that drew it before the first of them wrote it *)
(* (TokensShared).  TableService: what waits to be taken was not taken,    *)
(* and a guest is put back on the list by a message still under way.       *)
(* Reservations: a call holds the tables it looked at until it has written *)
(* (TablesHeld), so that nothing overlaps it meanwhile (StillFree); tables *)
(* are locked in id order.                                                 *)
(*                                                                         *)
(* Money: the checks of a split add up to the bill on the till, and share  *)
(* out its discount.                                                       *)
(*                                                                         *)
(* The last part composes these and CounterProofs as MCCounter does.       *)
(***************************************************************************)
EXTENDS MCCounter, CounterProofs

(* Scan and order. *)

ScanRequest == [status : ScanStatuses, token : 0 .. Cardinality(Diners)]
ScanCalls == {NoAccept} \cup [at : {"ingest", "revert", "number", "reject"}, req : Diners]
                        \cup [at : {"record"}, req : Diners, token : 1 .. Cardinality(Diners)]

\* An accept beyond its claim; the request it is about.
Accepting(s) == scanCall[s].at \in {"ingest", "revert", "number", "record"}

\* Only the call that claimed a request goes on with it: the row waits for it or was
\* rejected meanwhile, has no token yet, and was punched once its order committed.
AcceptHolds(s) ==
    LET r == scanCall[s].req IN
    /\ scanRow[r].status \in {"PROCESSING", "REJECTED"} /\ scanRow[r].token = NoToken
    /\ scanCall[s].at \in {"ingest", "revert"} => punched[r] = 0
    /\ scanCall[s].at \in {"number", "record"} => punched[r] = 1
OneAccept ==
    /\ \A s \in Staff : Accepting(s) => AcceptHolds(s)
    /\ \A s, u \in Staff : Accepting(s) /\ Accepting(u) /\ scanCall[s].req = scanCall[u].req => s = u
    /\ \A s \in Staff : scanCall[s].at = "reject" => scanRow[scanCall[s].req].status # "NONE"

TokensLate == \A r \in Diners : scanRow[r].status \in {"NONE", "PENDING", "PROCESSING"}
                                => scanRow[r].token = NoToken

\* The tokens given out are 1 to n, and the next is at most n + 1.
TokensInSeries ==
    /\ \A t \in Tokens : 1 .. t \subseteq Tokens
    /\ \A s \in Staff : scanCall[s].at = "record" => 1 .. (scanCall[s].token - 1) \subseteq Tokens

\* The requests that have a token and the calls about to give it.
WithToken(t) == {r \in Diners : scanRow[r].token = t}
GivingToken(t) == {s \in Staff : scanCall[s].at = "record" /\ scanCall[s].token = t}
TokensShared ==
    \A t \in 1 .. Cardinality(Diners) :
        Cardinality(WithToken(t)) + Cardinality(GivingToken(t)) <= Cardinality(Staff)

ScanRows == /\ scanRow \in [Diners -> ScanRequest] /\ punched \in [Diners -> Nat]
            /\ scanCall \in [Staff -> ScanCalls]
ScanPart == ScanRows /\ OneAccept /\ TokensLate /\ RequestsPunchedOnce
ScanInv == ScanPart /\ TokensInSeries /\ TokensShared

\* The fields of a call.
LEMMA CallFields ==
    ASSUME NEW c \in ScanCalls
    PROVE  /\ c.at \in {"idle", "ingest", "revert", "number", "reject", "record"}
           /\ c.at = "idle" => c = NoAccept
           /\ c # NoAccept => c.req \in Diners /\ c.at # "idle"
           /\ c.at = "record" => c.token \in 1 .. Cardinality(Diners)
BY DEF ScanCalls, NoAccept

\* The first half survives a step that changes one call and at most its request's row.
LEMMA ScanStep ==
    ASSUME ScanPart, ScanNext, \A s \in Staff : AcceptNumber(s) => NextToken \in 1 .. Cardinality(Diners)
    PROVE  ScanPart'
<1> USE ScanAssumption DEF ScanPart, ScanRows
<1>1. Cardinality(Diners) \in Nat
  BY FS_CardinalityType
<1>2. ASSUME NEW r \in Diners, SubmitRequest(r) PROVE ScanPart'
  <2>1. scanRow' = [scanRow EXCEPT ![r].status = "PENDING"] /\ UNCHANGED <<punched, scanCall>> /\ scanRow[r].status = "NONE"
    BY <1>2 DEF SubmitRequest, SetStatus
  <2>2. ScanRows'
    BY <2>1 DEF ScanRequest, ScanStatuses
  <2>3. \A s \in Staff : Accepting(s) => scanCall[s].req # r
    BY <2>1 DEF OneAccept, AcceptHolds
  <2>4. OneAccept'
    BY <2>1, <2>3, CallFields DEF OneAccept, AcceptHolds, Accepting, ScanRequest
  <2>5. TokensLate' /\ RequestsPunchedOnce'
    BY <2>1 DEF TokensLate, RequestsPunchedOnce, ScanRequest
  <2>6. QED
    BY <2>2, <2>4, <2>5
<1>3. ASSUME NEW s \in Staff, NEW r \in Diners, AcceptClaim(s, r) PROVE ScanPart'
  <2>1. /\ scanRow' = [scanRow EXCEPT ![r].status = "PROCESSING"] /\ scanRow[r].status = "PENDING" /\ punched' = punched
        /\ scanCall' = [scanCall EXCEPT ![s] = [at |-> "ingest", req |-> r]]
    BY <1>3 DEF AcceptClaim, SetStatus, RequestPending
  <2>2. ScanRows'
    BY <2>1 DEF ScanRequest, ScanStatuses, ScanCalls
  <2>3. \A u \in Staff : Accepting(u) => scanCall[u].req # r
    BY <2>1 DEF OneAccept, AcceptHolds
  <2>4. scanRow[r].token = NoToken /\ punched[r] = 0
    BY <2>1 DEF TokensLate, RequestsPunchedOnce
  <2>5. OneAccept'
    BY <2>1, <2>3, <2>4, CallFields DEF OneAccept, AcceptHolds, Accepting, ScanRequest
  <2>6. TokensLate' /\ RequestsPunchedOnce'
    BY <2>1, <2>4 DEF TokensLate, RequestsPunchedOnce, ScanRequest
  <2>7. QED
    BY <2>2, <2>5, <2>6
<1>4. ASSUME NEW s \in Staff, NEW r \in Diners, RejectRead(s, r) PROVE ScanPart'
  <2>1. /\ UNCHANGED <<scanRow, punched>> /\ scanRow[r].status = "PENDING"
        /\ scanCall' = [scanCall EXCEPT ![s] = [at |-> "reject", req |-> r]]
    BY <1>4 DEF RejectRead
  <2>2. ScanRows'
    BY <2>1 DEF ScanCalls
  <2>3. OneAccept'
    BY <2>1, CallFields DEF OneAccept, AcceptHolds, Accepting
  <2>4. QED
    BY <2>1, <2>2, <2>3 DEF TokensLate, RequestsPunchedOnce
<1>5. ASSUME NEW s \in Staff, AcceptIngest(s) PROVE ScanPart'
  <2>1. PICK r : r = scanCall[s].req
    OBVIOUS
  <2>2. r \in Diners /\ scanCall[s].at = "ingest" /\ Accepting(s)
    BY <1>5, <2>1, CallFields DEF AcceptIngest, Accepting, NoAccept
  <2>3. /\ punched' = [punched EXCEPT ![r] = punched[r] + 1] /\ scanRow' = scanRow
        /\ scanCall' = [scanCall EXCEPT ![s] = [at |-> "number", req |-> r]]
    BY <1>5, <2>1 DEF AcceptIngest, Proceed
  <2>4. punched[r] = 0 /\ scanRow[r].status \in {"PROCESSING", "REJECTED"}
    BY <2>1, <2>2 DEF OneAccept, AcceptHolds
  <2>5. ScanRows'
    BY <2>2, <2>3, <2>4 DEF ScanCalls
  <2>6. OneAccept'
    BY <2>1, <2>2, <2>3, <2>4, CallFields DEF OneAccept, AcceptHolds, Accepting
  <2>7. TokensLate' /\ RequestsPunchedOnce'
    BY <2>2, <2>3, <2>4 DEF TokensLate, RequestsPunchedOnce
  <2>8. QED
    BY <2>5, <2>6, <2>7
<1>6. ASSUME NEW s \in Staff, AcceptIngestFails(s) PROVE ScanPart'
  <2>1. PICK r : r = scanCall[s].req
    OBVIOUS
  <2>2. r \in Diners /\ scanCall[s].at = "ingest" /\ Accepting(s)
    BY <1>6, <2>1, CallFields DEF AcceptIngestFails, Accepting, NoAccept
  <2>3. /\ UNCHANGED <<scanRow, punched>>
        /\ scanCall' = [scanCall EXCEPT ![s] = [at |-> "revert", req |-> r]]
    BY <1>6, <2>1 DEF AcceptIngestFails, Proceed
  <2>4. ScanRows'
    BY <2>2, <2>3 DEF ScanCalls
  <2>5. OneAccept'
    BY <2>1, <2>2, <2>3, CallFields DEF OneAccept, AcceptHolds, Accepting
  <2>6. QED
    BY <2>3, <2>4, <2>5 DEF TokensLate, RequestsPunchedOnce
<1>7. ASSUME NEW s \in Staff, AcceptRevert(s) PROVE ScanPart'
  <2>1. PICK r : r = scanCall[s].req
    OBVIOUS
  <2>2. r \in Diners /\ scanCall[s].at = "revert" /\ Accepting(s)
    BY <1>7, <2>1, CallFields DEF AcceptRevert, Accepting, NoAccept
  <2>3. /\ scanRow' = IF scanRow[r].status = "PROCESSING" THEN [scanRow EXCEPT ![r].status = "PENDING"] ELSE scanRow
        /\ punched' = punched /\ scanCall' = [scanCall EXCEPT ![s] = NoAccept]
    BY <1>7, <2>1 DEF AcceptRevert, SetStatus, EndCall
  <2>4. punched[r] = 0 /\ scanRow[r].token = NoToken
    BY <2>1, <2>2 DEF OneAccept, AcceptHolds
  <2>5. ScanRows'
    BY <2>2, <2>3 DEF ScanCalls, ScanRequest, ScanStatuses
  <2>6. \A u \in Staff \ {s} : Accepting(u) => scanCall[u].req # r
    BY <2>1, <2>2 DEF OneAccept
  <2>7. OneAccept'
    BY <2>1, <2>2, <2>3, <2>4, <2>6, CallFields DEF OneAccept, AcceptHolds, Accepting, ScanRequest, NoAccept
  <2>8. TokensLate' /\ RequestsPunchedOnce'
    BY <2>2, <2>3, <2>4 DEF TokensLate, RequestsPunchedOnce, ScanRequest
  <2>9. QED
    BY <2>5, <2>7, <2>8
<1>8. ASSUME NEW s \in Staff, AcceptNumber(s) PROVE ScanPart'
  <2>1. PICK r : r = scanCall[s].req
    OBVIOUS
  <2>2. r \in Diners /\ scanCall[s].at = "number" /\ Accepting(s)
    BY <1>8, <2>1, CallFields DEF AcceptNumber, Accepting, NoAccept
  <2>3. PICK t : t = NextToken
    OBVIOUS
  <2>4. /\ UNCHANGED <<scanRow, punched>>
        /\ scanCall' = [scanCall EXCEPT ![s] = [at |-> "record", req |-> r, token |-> t]]
    BY <1>8, <2>1, <2>3 DEF AcceptNumber
  <2>5. ScanRows'
    BY <1>8, <2>2, <2>3, <2>4 DEF ScanCalls
  <2>6. OneAccept'
    BY <2>1, <2>2, <2>4, CallFields DEF OneAccept, AcceptHolds, Accepting
  <2>7. QED
    BY <2>4, <2>5, <2>6 DEF TokensLate, RequestsPunchedOnce
<1>9. ASSUME NEW s \in Staff, AcceptRecord(s) PROVE ScanPart'
  <2>1. PICK r, t : r = scanCall[s].req /\ t = scanCall[s].token
    OBVIOUS
  <2>2. r \in Diners /\ scanCall[s].at = "record" /\ Accepting(s) /\ t \in 1 .. Cardinality(Diners)
    BY <1>9, <2>1, CallFields DEF AcceptRecord, Accepting, NoAccept
  <2>3. /\ scanRow' = [scanRow EXCEPT ![r] = [status |-> "ACCEPTED", token |-> t]]
        /\ punched' = punched /\ scanCall' = [scanCall EXCEPT ![s] = NoAccept]
    BY <1>9, <2>1 DEF AcceptRecord, EndCall
  <2>4. punched[r] = 1
    BY <2>1, <2>2 DEF OneAccept, AcceptHolds
  <2>5. ScanRows'
    BY <1>1, <2>2, <2>3 DEF ScanCalls, ScanRequest, ScanStatuses
  <2>6. \A u \in Staff \ {s} : Accepting(u) => scanCall[u].req # r
    BY <2>1, <2>2 DEF OneAccept
  <2>7. OneAccept'
    BY <2>1, <2>2, <2>3, <2>4, <2>6, CallFields DEF OneAccept, AcceptHolds, Accepting, NoAccept
  <2>8. TokensLate' /\ RequestsPunchedOnce'
    BY <2>2, <2>3, <2>4 DEF TokensLate, RequestsPunchedOnce
  <2>9. QED
    BY <2>5, <2>7, <2>8
<1>10. ASSUME NEW s \in Staff, RejectRecord(s) PROVE ScanPart'
  <2>1. PICK r : r = scanCall[s].req
    OBVIOUS
  <2>2. r \in Diners /\ scanCall[s].at = "reject" /\ scanRow[r].status # "NONE"
    BY <1>10, <2>1, CallFields DEF RejectRecord, NoAccept, OneAccept
  <2>3. /\ scanRow' = [scanRow EXCEPT ![r].status = "REJECTED"]
        /\ punched' = punched /\ scanCall' = [scanCall EXCEPT ![s] = NoAccept]
    BY <1>10, <2>1 DEF RejectRecord, SetStatus, EndCall
  <2>4. ScanRows'
    BY <2>2, <2>3 DEF ScanCalls, ScanRequest, ScanStatuses
  <2>5. OneAccept'
    BY <2>1, <2>2, <2>3, CallFields DEF OneAccept, AcceptHolds, Accepting, NoAccept, ScanRequest
  <2>6. TokensLate' /\ RequestsPunchedOnce'
    BY <2>2, <2>3 DEF TokensLate, RequestsPunchedOnce, ScanRequest
  <2>7. QED
    BY <2>4, <2>5, <2>6
<1>11. ASSUME NEW s \in Staff, AcceptDies(s) PROVE ScanPart'
  <2>1. UNCHANGED <<scanRow, punched>> /\ scanCall' = [scanCall EXCEPT ![s] = NoAccept]
    BY <1>11 DEF AcceptDies, EndCall
  <2>2. ScanRows'
    BY <2>1 DEF ScanCalls
  <2>3. OneAccept'
    BY <2>1, CallFields DEF OneAccept, AcceptHolds, Accepting, NoAccept
  <2>4. QED
    BY <2>1, <2>2, <2>3 DEF TokensLate, RequestsPunchedOnce
<1>12. QED
  BY <1>2, <1>3, <1>4, <1>5, <1>6, <1>7, <1>8, <1>9, <1>10, <1>11 DEF ScanNext

\* A token given out is followed by a request without one, as long as one is accepted.
LEMMA NextTokenFits ==
    ASSUME ScanPart, TokensInSeries, NEW s \in Staff, AcceptNumber(s)
    PROVE  /\ NextToken \in 1 .. Cardinality(Diners) /\ NextToken \notin Tokens
           /\ 1 .. (NextToken - 1) \subseteq Tokens
<1> USE ScanAssumption DEF ScanPart, ScanRows
<1>1. PICK r : r = scanCall[s].req
  OBVIOUS
<1>2. r \in Diners /\ Accepting(s) /\ scanRow[r].token = NoToken
  BY <1>1, CallFields DEF AcceptNumber, Accepting, NoAccept, OneAccept, AcceptHolds
<1>3. PICK N \in SUBSET Diners : N = {d \in Diners : scanRow[d].token # NoToken}
  OBVIOUS
<1>4. IsFiniteSet(N) /\ Cardinality(N) \in Nat /\ Cardinality(Diners) \in Nat /\ Cardinality(N) < Cardinality(Diners)
  <2>1. r \notin N
    BY <1>2, <1>3
  <2>2. Cardinality(N) <= Cardinality(Diners) /\ N # Diners
    BY <1>2, <2>1, FS_Subset
  <2>3. QED
    BY <2>2, FS_Subset, FS_CardinalityType
<1>5. Tokens \subseteq 1 .. Cardinality(Diners)
  BY <1>4 DEF Tokens, ScanRequest, NoToken
<1>6. CASE Tokens = {}
  BY <1>2, <1>4, <1>6 DEF NextToken
<1>7. CASE Tokens # {}
  <2>1. PICK m : m = Max(Tokens)
    OBVIOUS
  <2>2. IsFiniteSet(Tokens) /\ Tokens \subseteq Int
    <3>1. IsFiniteSet(1 .. Cardinality(Diners)) /\ 1 .. Cardinality(Diners) \subseteq Int
      BY <1>4, FS_Interval
    <3>2. QED
      BY <1>5, <3>1, FS_Subset
  <2>3. m \in Tokens /\ \A t \in Tokens : t <= m
    BY <1>7, <2>1, <2>2, GreatestOf
  <2>4. m \in Nat /\ m >= 1 /\ 1 .. m \subseteq Tokens
    BY <1>4, <1>5, <2>3 DEF TokensInSeries
  <2>5. PICK f : f = [i \in 1 .. m |-> CHOOSE d \in Diners : scanRow[d].token = i]
    OBVIOUS
  <2>6. ASSUME NEW i \in 1 .. m PROVE f[i] \in N /\ scanRow[f[i]].token = i
    <3>1. i \in Tokens /\ i # NoToken
      BY <2>4 DEF Tokens, NoToken
    <3>2. PICK d \in Diners : scanRow[d].token = i
      BY <3>1 DEF Tokens
    <3>3. f[i] \in Diners /\ scanRow[f[i]].token = i
      BY <2>5, <3>2
    <3>4. QED
      BY <1>3, <3>1, <3>3
  <2>7. f \in Injection(1 .. m, N)
    BY <2>5, <2>6 DEF Injection, IsInjective
  <2>8. Cardinality(1 .. m) = m
    BY <2>4, FS_Interval
  <2>9. m <= Cardinality(N)
    BY <1>4, <2>7, <2>8, FS_Injection
  <2>10. NextToken = m + 1
    BY <1>7, <2>1 DEF NextToken
  <2>11. QED
    BY <1>4, <2>3, <2>4, <2>9, <2>10
<1>8. QED
  BY <1>6, <1>7

\* A set of requests or calls has a size, and changes it by one with one member.
LEMMA CountsOf ==
    /\ \A t : /\ IsFiniteSet(WithToken(t)) /\ Cardinality(WithToken(t)) \in Nat
              /\ IsFiniteSet(GivingToken(t)) /\ Cardinality(GivingToken(t)) \in Nat
              /\ Cardinality(GivingToken(t)) <= Cardinality(Staff)
    /\ Cardinality(Staff) \in Nat
<1>1. \A t : WithToken(t) \in SUBSET Diners /\ GivingToken(t) \in SUBSET Staff
  BY DEF WithToken, GivingToken
<1>2. QED
  BY <1>1, ScanAssumption, FS_Subset, FS_CardinalityType

\* The numbering survives every step.
LEMMA TokensStep ==
    ASSUME ScanInv, ScanNext
    PROVE  (TokensInSeries /\ TokensShared)'
<1> USE DEF ScanInv, ScanPart, ScanRows
<1>1. ScanPart'
  BY NextTokenFits, ScanStep
<1>2. CASE \/ \E r \in Diners : SubmitRequest(r)
           \/ \E s \in Staff, r \in Diners : AcceptClaim(s, r) \/ RejectRead(s, r)
           \/ \E s \in Staff : \/ AcceptIngest(s) \/ AcceptIngestFails(s) \/ AcceptRevert(s)
                               \/ RejectRecord(s) \/ AcceptDies(s)
  <2>1. \A r \in Diners : scanRow'[r].token = scanRow[r].token
    <3>1. ASSUME NEW r \in Diners, NEW x \in ScanStatuses, scanRow' = [scanRow EXCEPT ![r].status = x]
          PROVE  \A d \in Diners : scanRow'[d].token = scanRow[d].token
      BY <3>1 DEF ScanRequest
    <3>2. \/ scanRow' = scanRow
          \/ \E r \in Diners, x \in ScanStatuses : scanRow' = [scanRow EXCEPT ![r].status = x]
      <4>1. CASE \E r \in Diners : SubmitRequest(r) \/ \E s \in Staff : AcceptClaim(s, r) \/ RejectRead(s, r)
        BY <4>1 DEF SubmitRequest, AcceptClaim, RejectRead, SetStatus, ScanStatuses
      <4>2. ASSUME NEW s \in Staff, AcceptRevert(s) \/ RejectRecord(s)
            PROVE  \/ scanRow' = scanRow
                   \/ \E r \in Diners, x \in ScanStatuses : scanRow' = [scanRow EXCEPT ![r].status = x]
        <5>1. scanCall[s].req \in Diners
          BY <4>2, CallFields DEF AcceptRevert, RejectRecord, NoAccept
        <5>2. QED
          BY <4>2, <5>1 DEF AcceptRevert, RejectRecord, SetStatus, ScanStatuses
      <4>3. CASE \E s \in Staff : AcceptIngest(s) \/ AcceptIngestFails(s) \/ AcceptDies(s)
        BY <4>3 DEF AcceptIngest, AcceptIngestFails, AcceptDies
      <4>4. QED
        BY <1>2, <4>1, <4>2, <4>3
    <3>3. QED
      BY <3>1, <3>2
  <2>2. \A s \in Staff : scanCall'[s].at = "record" => scanCall'[s] = scanCall[s]
    BY <1>2 DEF SubmitRequest, AcceptClaim, RejectRead, AcceptIngest, AcceptIngestFails, AcceptRevert,
       RejectRecord, AcceptDies, Proceed, EndCall, NoAccept
  <2>3. Tokens' = Tokens
    BY <2>1 DEF Tokens
  <2>4. \A t : WithToken(t)' = WithToken(t) /\ GivingToken(t)' \subseteq GivingToken(t)
    BY <2>1, <2>2 DEF WithToken, GivingToken
  <2>5. \A t : Cardinality(GivingToken(t)') <= Cardinality(GivingToken(t)) /\ Cardinality(GivingToken(t)') \in Nat
    BY <2>4, CountsOf, FS_Subset, FS_CardinalityType
  <2>6. TokensInSeries'
    BY <2>2, <2>3 DEF TokensInSeries
  <2>7. TokensShared'
    <3> SUFFICES ASSUME NEW t \in 1 .. Cardinality(Diners)
                 PROVE  Cardinality(WithToken(t)') + Cardinality(GivingToken(t)') <= Cardinality(Staff)
      BY DEF TokensShared
    <3>1. Cardinality(WithToken(t)) + Cardinality(GivingToken(t)) <= Cardinality(Staff)
      BY DEF TokensShared
    <3>2. WithToken(t)' = WithToken(t)
      BY <2>4
    <3>3. QED
      BY <2>5, <3>1, <3>2, CountsOf
  <2>8. QED
    BY <2>6, <2>7
<1>3. ASSUME NEW s \in Staff, AcceptNumber(s) PROVE (TokensInSeries /\ TokensShared)'
  <2>1. PICK n : n = NextToken
    OBVIOUS
  <2>2. n \in 1 .. Cardinality(Diners) /\ n \notin Tokens /\ 1 .. (n - 1) \subseteq Tokens
    BY <1>3, <2>1, NextTokenFits
  <2>3. /\ scanRow' = scanRow /\ scanCall[s].at = "number"
        /\ scanCall' = [scanCall EXCEPT ![s] = [at |-> "record", req |-> scanCall[s].req, token |-> n]]
    BY <1>3, <2>1 DEF AcceptNumber
  <2>4. Tokens' = Tokens /\ \A t : WithToken(t)' = WithToken(t)
    BY <2>3 DEF Tokens, WithToken
  <2>5. TokensInSeries'
    BY <2>2, <2>3, <2>4 DEF TokensInSeries
  <2>6. TokensShared'
    <3> SUFFICES ASSUME NEW t \in 1 .. Cardinality(Diners)
                 PROVE  Cardinality(WithToken(t)') + Cardinality(GivingToken(t)') <= Cardinality(Staff)
      BY DEF TokensShared
    <3>1. Cardinality(Diners) \in Nat
      BY ScanAssumption, FS_CardinalityType
    <3>2. WithToken(t)' = WithToken(t) /\ GivingToken(t)' \subseteq Staff
      BY <2>4 DEF GivingToken
    <3>3. CASE t = n
      <4>1. WithToken(t) = {}
        BY <2>2, <3>1, <3>3 DEF WithToken, Tokens, NoToken
      <4>2. Cardinality(WithToken(t)) = 0
        BY <4>1, FS_EmptySet
      <4>3. Cardinality(GivingToken(t)') <= Cardinality(Staff) /\ Cardinality(GivingToken(t)') \in Nat
        BY <3>2, ScanAssumption, FS_Subset, FS_CardinalityType
      <4>4. QED
        BY <3>2, <4>2, <4>3, CountsOf
    <3>4. CASE t # n
      <4>1. GivingToken(t)' = GivingToken(t)
        BY <2>3, <3>4 DEF GivingToken
      <4>2. QED
        BY <3>2, <4>1 DEF TokensShared
    <3>5. QED
      BY <3>3, <3>4
  <2>7. QED
    BY <2>5, <2>6
<1>4. ASSUME NEW s \in Staff, AcceptRecord(s) PROVE (TokensInSeries /\ TokensShared)'
  <2>1. PICK r, n : r = scanCall[s].req /\ n = scanCall[s].token
    OBVIOUS
  <2>2. r \in Diners /\ scanCall[s].at = "record" /\ n \in 1 .. Cardinality(Diners) /\ scanRow[r].token = NoToken
    BY <1>4, <2>1, CallFields DEF AcceptRecord, Accepting, NoAccept, OneAccept, AcceptHolds
  <2>3. /\ scanRow' = [scanRow EXCEPT ![r] = [status |-> "ACCEPTED", token |-> n]]
        /\ scanCall' = [scanCall EXCEPT ![s] = NoAccept]
    BY <1>4, <2>1 DEF AcceptRecord, EndCall
  <2>4. scanRow'[r].token = n /\ \A d \in Diners \ {r} : scanRow'[d] = scanRow[d]
    BY <2>2, <2>3
  <2>5. scanCall'[s].at # "record" /\ \A u \in Staff \ {s} : scanCall'[u] = scanCall[u]
    BY <2>3 DEF NoAccept
  <2>6. Cardinality(Diners) \in Nat
    BY ScanAssumption, FS_CardinalityType
  <2>7. Tokens' = Tokens \cup {n}
    BY <2>6, <2>2, <2>4 DEF Tokens, NoToken
  <2>8. 1 .. (n - 1) \subseteq Tokens
    BY <2>1, <2>2 DEF TokensInSeries
  <2>9. TokensInSeries'
    <3>1. 1 .. n \subseteq Tokens'
      BY <2>6, <2>2, <2>7, <2>8
    <3>2. QED
      BY <2>5, <2>7, <3>1 DEF TokensInSeries
  <2>10. TokensShared'
    <3> SUFFICES ASSUME NEW t \in 1 .. Cardinality(Diners)
                 PROVE  Cardinality(WithToken(t)') + Cardinality(GivingToken(t)') <= Cardinality(Staff)
      BY DEF TokensShared
    <3>1. Cardinality(WithToken(t)) + Cardinality(GivingToken(t)) <= Cardinality(Staff)
      BY DEF TokensShared
    <3>2. CASE t = n
      <4>1. r \notin WithToken(t) /\ WithToken(t)' = WithToken(t) \cup {r}
        BY <2>6, <2>2, <2>4, <3>2 DEF WithToken, NoToken
      <4>2. s \in GivingToken(t) /\ GivingToken(t)' = GivingToken(t) \ {s}
        BY <2>1, <2>2, <2>5, <3>2 DEF GivingToken
      <4>3. Cardinality(WithToken(t)') = Cardinality(WithToken(t)) + 1
        BY <4>1, CountsOf, FS_AddElement
      <4>4. Cardinality(GivingToken(t)') = Cardinality(GivingToken(t)) - 1
        BY <4>2, CountsOf, FS_RemoveElement
      <4>5. QED
        BY <3>1, <4>3, <4>4, CountsOf
    <3>3. CASE t # n
      <4>1. WithToken(t)' = WithToken(t)
        BY <2>6, <2>2, <2>4, <3>3 DEF WithToken, NoToken
      <4>2. GivingToken(t)' = GivingToken(t)
        BY <2>1, <2>5, <3>3 DEF GivingToken
      <4>3. QED
        BY <3>1, <4>1, <4>2
    <3>4. QED
      BY <3>2, <3>3
  <2>11. QED
    BY <2>9, <2>10
<1>5. QED
  BY <1>2, <1>3, <1>4 DEF ScanNext

\* Requests, calls and tokens together are inductive.
LEMMA ScanKeeps == ScanInv /\ [ScanNext]_scanVars => ScanInv'
<1>1. ASSUME ScanInv, ScanNext PROVE ScanInv'
  <2>1. ScanPart /\ TokensInSeries
    BY <1>1 DEF ScanInv
  <2>2. ScanPart'
    BY <1>1, <2>1, NextTokenFits, ScanStep
  <2>3. QED
    BY <1>1, <2>2, TokensStep DEF ScanInv
<1>2. ASSUME ScanInv, UNCHANGED scanVars PROVE ScanInv'
  BY <1>2 DEF scanVars, ScanInv, ScanPart, ScanRows, OneAccept, Accepting, AcceptHolds, TokensLate, RequestsPunchedOnce,
     TokensInSeries, Tokens, TokensShared, WithToken, GivingToken
<1>3. QED
  BY <1>1, <1>2

\* Nothing has happened to a request that was not submitted.
LEMMA ScanStarts == ScanInit => ScanInv
<1> SUFFICES ASSUME ScanInit PROVE ScanInv
  OBVIOUS
<1>1. ScanPart
  BY ScanAssumption, FS_CardinalityType DEF ScanInit, ScanPart, ScanRows, ScanRequest, ScanStatuses, ScanCalls, OneAccept,
     Accepting, NoAccept, TokensLate, RequestsPunchedOnce, NoToken
<1>2. Tokens = {} /\ \A s \in Staff : scanCall[s].at = "idle"
  BY DEF ScanInit, Tokens, NoAccept
<1>3. TokensInSeries
  BY <1>2 DEF TokensInSeries
<1>4. ASSUME NEW t \in 1 .. Cardinality(Diners)
      PROVE  Cardinality(WithToken(t)) + Cardinality(GivingToken(t)) <= Cardinality(Staff)
  <2>1. WithToken(t) = {}
    BY ScanAssumption, FS_CardinalityType DEF ScanInit, WithToken, NoToken
  <2>2. Cardinality(WithToken(t)) = 0
    BY <2>1, FS_EmptySet
  <2>3. QED
    BY <2>2, CountsOf
<1>5. QED
  BY <1>1, <1>3, <1>4 DEF ScanInv, TokensShared

\* What the diners are promised follows.
LEMMA ScanPromises == ScanInv => ScanTypeOK /\ ScanSound
<1> SUFFICES ASSUME ScanInv PROVE ScanTypeOK /\ ScanSound
  OBVIOUS
<1>1. ScanTypeOK
  BY DEF ScanInv, ScanPart, ScanRows, ScanTypeOK, ScanRequest, ScanCalls
<1>2. TokensSharedByRacersOnly
  <2> SUFFICES ASSUME NEW t \in Tokens PROVE Cardinality(WithToken(t)) <= Cardinality(Staff)
    BY DEF TokensSharedByRacersOnly, WithToken
  <2>1. t \in 1 .. Cardinality(Diners)
    BY ScanAssumption, FS_CardinalityType DEF ScanInv, ScanPart, ScanRows, Tokens, ScanRequest, NoToken
  <2>2. Cardinality(WithToken(t)) + Cardinality(GivingToken(t)) <= Cardinality(Staff)
    BY <2>1 DEF ScanInv, TokensShared
  <2>3. QED
    BY <2>2, CountsOf
<1>3. QED
  BY <1>1, <1>2 DEF ScanInv, ScanPart, ScanSound

(* Calls, waitlist, carts and displays. *)

WorkRecord == {NoWork} \cup [at : {"tell"}, of : Guests] \cup [at : {"claim"}, of : Carts]
                       \cup [at : {"pair"}, of : Displays]

\* A tap under way holds the table's row, and what it read there still holds.
TapHolds ==
    /\ \A t \in Taps : tap[t] # "idle" => tapLock = t
    /\ \A t \in Taps : tap[t] = "create" => \A c \in CallIds : tableCall[c] \notin ACTIVE
ActiveAlone == \A c, d \in CallIds : tableCall[c] \in ACTIVE /\ tableCall[d] \in ACTIVE => c = d

\* A guest is put back on the list at most once by each message still under way.
Telling(g) == {w \in Terminals : work[w].at = "tell" /\ work[w].of = g}
OnList(g) == IF waiting[g].status \in WAITS THEN 1 ELSE 0
SeatsAccounted ==
    \A g \in Guests :
        /\ waiting[g].status = "NONE" => waiting[g].seated = 0 /\ Telling(g) = {}
        /\ waiting[g].status # "NONE" =>
            waiting[g].seated + OnList(g) + Cardinality(Telling(g)) <= 1 + waiting[g].told

\* What waits to be taken was not taken.
TakenOnce ==
    /\ \A c \in Carts : /\ cart[c].taken <= 1
                        /\ cart[c].parked \/ ~cart[c].made => cart[c].taken = 0
    /\ \A d \in Displays : /\ display[d].claimed <= 1
                           /\ display[d].state \in {"NONE", "UNPAIRED"} => display[d].claimed = 0

TableInv == TableTypeOK /\ work \in [Terminals -> WorkRecord] /\ TapHolds /\ ActiveAlone /\ SeatsAccounted /\ TakenOnce

WaitRow == [status : {"NONE", "LEFT", "SEATED"} \cup WAITS, told : 0 .. MaxNotices, seated : Nat]

\* The fields of what a terminal does.
LEMMA WorkFields ==
    ASSUME NEW x \in WorkRecord
    PROVE  /\ x.at \in {"idle", "tell", "claim", "pair"} /\ (x.at = "idle" <=> x = NoWork)
           /\ x.at = "tell" => x.of \in Guests
           /\ x.at = "claim" => x.of \in Carts
           /\ x.at = "pair" => x.of \in Displays
BY DEF WorkRecord, NoWork

\* Calls and taps.
LEMMA CallsKeep ==
    ASSUME TableInv,
           \/ \E t \in Taps : TapLocks(t) \/ TapReads(t) \/ TapRollsBack(t) \/ \E c \in CallIds : TapCreates(t, c)
           \/ \E c \in CallIds : AcknowledgeCall(c) \/ ResolveCall(c)
    PROVE  TableInv'
<1> USE TableAssumption DEF TableInv
<1>1. UNCHANGED <<waiting, cart, display, work>>
  BY DEF TapLocks, TapReads, TapRollsBack, TapCreates, AcknowledgeCall, ResolveCall, MoveCall
<1>2. SeatsAccounted' /\ TakenOnce' /\ (work \in [Terminals -> WorkRecord])'
  BY <1>1 DEF SeatsAccounted, OnList, Telling, TakenOnce
<1>3. ASSUME NEW t \in Taps, TapLocks(t) PROVE TableTypeOK' /\ TapHolds' /\ ActiveAlone'
  BY <1>1, <1>3 DEF TapLocks, TableRowLock, TableTypeOK, TapHolds, ActiveAlone
<1>4. ASSUME NEW t \in Taps, TapReads(t) PROVE TableTypeOK' /\ TapHolds' /\ ActiveAlone'
  <2>1. tapLock = t /\ \A u \in Taps \ {t} : tap[u] = "idle"
    BY <1>4 DEF TapReads, TapHolds
  <2>2. CASE \E c \in CallIds : tableCall[c] \in ACTIVE
    BY <1>1, <1>4, <2>1, <2>2 DEF TapReads, TapEnds, TableTypeOK, TapHolds, ActiveAlone
  <2>3. CASE ~ \E c \in CallIds : tableCall[c] \in ACTIVE
    BY <1>1, <1>4, <2>1, <2>3 DEF TapReads, TapEnds, TableTypeOK, TapHolds, ActiveAlone
  <2>4. QED
    BY <2>2, <2>3
<1>5. ASSUME NEW t \in Taps, TapRollsBack(t) PROVE TableTypeOK' /\ TapHolds' /\ ActiveAlone'
  BY <1>1, <1>5 DEF TapRollsBack, TapEnds, TableTypeOK, TapHolds, ActiveAlone
<1>6. ASSUME NEW t \in Taps, NEW c \in CallIds, TapCreates(t, c) PROVE TableTypeOK' /\ TapHolds' /\ ActiveAlone'
  <2>1. tapLock = t /\ \A u \in Taps \ {t} : tap[u] = "idle"
    BY <1>6 DEF TapCreates, TapHolds
  <2>2. \A d \in CallIds : tableCall[d] \notin ACTIVE
    BY <1>6 DEF TapCreates, TapHolds
  <2>3. tableCall' = [tableCall EXCEPT ![c] = "OPEN"] /\ tap' = [tap EXCEPT ![t] = "idle"] /\ tapLock' = "nobody"
    BY <1>6, <2>1 DEF TapCreates, TapEnds
  <2>4. QED
    BY <1>1, <2>1, <2>2, <2>3 DEF TableTypeOK, TapHolds, ActiveAlone
<1>7. ASSUME NEW c \in CallIds, AcknowledgeCall(c) \/ ResolveCall(c) PROVE TableTypeOK' /\ TapHolds' /\ ActiveAlone'
  <2>1. PICK to \in {"ACKNOWLEDGED", "RESOLVED"} :
            /\ tableCall[c] \in ACTIVE /\ tableCall' = [tableCall EXCEPT ![c] = to] /\ UNCHANGED <<tapLock, tap>>
    BY <1>7 DEF AcknowledgeCall, ResolveCall, MoveCall, ACTIVE
  <2>2. \A d \in CallIds : tableCall'[d] \in ACTIVE => tableCall[d] \in ACTIVE
    BY <2>1 DEF TableTypeOK
  <2>3. TableTypeOK'
    BY <1>1, <2>1 DEF TableTypeOK
  <2>4. QED
    BY <2>1, <2>2, <2>3 DEF TapHolds, ActiveAlone
<1>8. QED
  BY <1>2, <1>3, <1>4, <1>5, <1>6, <1>7

\* Carts and displays; a request that dies.
LEMMA HandsKeep ==
    ASSUME TableInv,
           \/ \E c \in Carts : ParkCart(c)
           \/ \E d \in Displays : StartDisplay(d) \/ DropDisplay(d)
           \/ \E w \in Terminals : \/ \E c \in Carts : ReadCart(w, c)
                                   \/ \E d \in Displays : ReadCode(w, d)
                                   \/ ClaimCart(w) \/ PairDisplay(w) \/ WorkDies(w)
    PROVE  TableInv'
<1> USE TableAssumption DEF TableInv
<1>1. UNCHANGED <<tableCall, tapLock, tap, waiting>>
  BY DEF ParkCart, StartDisplay, DropDisplay, ReadCart, ReadCode, ClaimCart, PairDisplay, WorkDies
<1>2. TapHolds' /\ ActiveAlone'
  BY <1>1 DEF TapHolds, ActiveAlone
<1>3. /\ work' \in [Terminals -> WorkRecord]
      /\ \A w \in Terminals : work'[w].at = "tell" => work'[w] = work[w]
  <2>1. CASE work' = work
    BY <2>1
  <2>2. ASSUME NEW w \in Terminals, NEW x \in WorkRecord, x.at # "tell", work' = [work EXCEPT ![w] = x]
        PROVE  /\ work' \in [Terminals -> WorkRecord]
               /\ \A v \in Terminals : work'[v].at = "tell" => work'[v] = work[v]
    BY <2>2
  <2>3. CASE \E w \in Terminals : \E c \in Carts : ReadCart(w, c)
    <3>1. PICK w \in Terminals, c \in Carts : work' = [work EXCEPT ![w] = [at |-> "claim", of |-> c]]
      BY <2>3 DEF ReadCart, Begins
    <3>2. [at |-> "claim", of |-> c] \in WorkRecord
      BY DEF WorkRecord
    <3>3. QED
      BY <2>2, <3>1, <3>2
  <2>4. CASE \E w \in Terminals : \E d \in Displays : ReadCode(w, d)
    <3>1. PICK w \in Terminals, d \in Displays : work' = [work EXCEPT ![w] = [at |-> "pair", of |-> d]]
      BY <2>4 DEF ReadCode, Begins
    <3>2. [at |-> "pair", of |-> d] \in WorkRecord
      BY DEF WorkRecord
    <3>3. QED
      BY <2>2, <3>1, <3>2
  <2>5. CASE \E w \in Terminals : ClaimCart(w) \/ PairDisplay(w) \/ WorkDies(w)
    <3>1. PICK w \in Terminals : work' = [work EXCEPT ![w] = NoWork]
      BY <2>5 DEF ClaimCart, PairDisplay, WorkDies, Finished
    <3>2. NoWork \in WorkRecord /\ NoWork.at # "tell"
      BY DEF WorkRecord, NoWork
    <3>3. QED
      BY <2>2, <3>1, <3>2
  <2>6. QED
    BY <2>1, <2>3, <2>4, <2>5 DEF ParkCart, StartDisplay, DropDisplay
<1>4. SeatsAccounted'
  <2> SUFFICES ASSUME NEW g \in Guests
               PROVE  /\ Telling(g)' \subseteq Telling(g)
                      /\ Cardinality(Telling(g)') \in Nat /\ Cardinality(Telling(g)') <= Cardinality(Telling(g))
                      /\ Cardinality(Telling(g)) \in Nat
                      /\ waiting'[g] = waiting[g] /\ OnList(g)' = OnList(g) /\ waiting[g].seated \in Nat
                      /\ OnList(g) \in Nat /\ waiting[g].told \in Nat
    BY DEF SeatsAccounted
  <2>1. Telling(g)' \subseteq Telling(g) /\ Telling(g) \in SUBSET Terminals
    BY <1>3 DEF Telling
  <2>2. QED
    BY <1>1, <2>1, FS_Subset, FS_CardinalityType DEF OnList, TableTypeOK
<1>5. TakenOnce' /\ cart' \in [Carts -> [parked : BOOLEAN, made : BOOLEAN, taken : Nat]]
      /\ display' \in [Displays -> [state : {"NONE", "UNPAIRED", "PAIRED", "GONE"}, claimed : Nat]]
  <2> DEFINE CartRow == [parked : BOOLEAN, made : BOOLEAN, taken : Nat]
             Screen == [state : {"NONE", "UNPAIRED", "PAIRED", "GONE"}, claimed : Nat]
             OK == TakenOnce' /\ cart' \in [Carts -> CartRow] /\ display' \in [Displays -> Screen]
  <2>1. cart \in [Carts -> CartRow] /\ display \in [Displays -> Screen]
    BY DEF TableTypeOK
  <2>2. ASSUME NEW c \in Carts, ParkCart(c) PROVE OK
    BY <2>1, <2>2 DEF ParkCart, TakenOnce
  <2>3. ASSUME NEW d \in Displays, StartDisplay(d) PROVE OK
    BY <2>1, <2>3 DEF StartDisplay, TakenOnce
  <2>4. ASSUME NEW d \in Displays, DropDisplay(d) PROVE OK
    BY <2>1, <2>4 DEF DropDisplay, TakenOnce
  <2>5. ASSUME NEW w \in Terminals, ClaimCart(w) PROVE OK
    <3>1. PICK c : c = work[w].of
      OBVIOUS
    <3>2. c \in Carts
      BY <2>5, <3>1, WorkFields DEF ClaimCart
    <3>3. /\ display' = display
          /\ cart' = IF cart[c].parked THEN [cart EXCEPT ![c].parked = FALSE, ![c].taken = @ + 1] ELSE cart
      BY <2>5, <3>1 DEF ClaimCart, CartDeleted
    <3>4. QED
      BY <2>1, <3>2, <3>3 DEF TakenOnce
  <2>6. ASSUME NEW w \in Terminals, PairDisplay(w) PROVE OK
    <3>1. PICK d : d = work[w].of
      OBVIOUS
    <3>2. d \in Displays
      BY <2>6, <3>1, WorkFields DEF PairDisplay
    <3>3. /\ cart' = cart
          /\ display' = IF display[d].state = "UNPAIRED"
                        THEN [display EXCEPT ![d].state = "PAIRED", ![d].claimed = @ + 1] ELSE display
      BY <2>6, <3>1 DEF PairDisplay
    <3>4. QED
      BY <2>1, <3>2, <3>3 DEF TakenOnce
  <2>7. ASSUME UNCHANGED <<cart, display>> PROVE OK
    BY <2>1, <2>7 DEF TakenOnce
  <2>8. QED
    BY <2>2, <2>3, <2>4, <2>5, <2>6, <2>7 DEF ReadCart, ReadCode, WorkDies
<1>6. TableTypeOK'
  BY <1>1, <1>3, <1>5, WorkFields DEF TableTypeOK
<1>7. QED
  BY <1>2, <1>3, <1>4, <1>5, <1>6

\* The waitlist.
LEMMA WaitlistKeeps ==
    ASSUME TableInv,
           \/ \E g \in Guests : JoinWaitlist(g) \/ SeatGuest(g) \/ LeaveWaitlist(g)
           \/ \E w \in Terminals : GuestTold(w) \/ \E g \in Guests : TellGuest(w, g)
    PROVE  TableInv'
<1> USE TableAssumption DEF TableInv
<1>1. UNCHANGED <<tableCall, tapLock, tap, cart, display>>
  BY DEF JoinWaitlist, SeatGuest, LeaveWaitlist, GuestTold, TellGuest
<1>2. TapHolds' /\ ActiveAlone' /\ TakenOnce'
  BY <1>1 DEF TapHolds, ActiveAlone, TakenOnce
<1>3. waiting \in [Guests -> WaitRow]
  BY DEF TableTypeOK, WaitRow
<1>4. \A g : Telling(g) \in SUBSET Terminals /\ IsFiniteSet(Telling(g)) /\ Cardinality(Telling(g)) \in Nat
  <2>1. \A g : Telling(g) \in SUBSET Terminals
    BY DEF Telling
  <2>2. QED
    BY <2>1, FS_Subset, FS_CardinalityType
<1> DEFINE Kept == SeatsAccounted' /\ work' \in [Terminals -> WorkRecord] /\ waiting' \in [Guests -> WaitRow]
\* one guest's row changes, and what is under way does not
<1>5. ASSUME NEW g \in Guests, NEW x \in WaitRow, waiting' = [waiting EXCEPT ![g] = x], work' = work,
             x.status # "NONE", x.told = waiting[g].told,
             \/ waiting[g].status = "NONE" /\ x.seated = 0
             \/ waiting[g].status \in WAITS /\ x.status \notin WAITS /\ x.seated \in {waiting[g].seated, waiting[g].seated + 1}
      PROVE  Kept
  <2>1. \A h : Telling(h)' = Telling(h)
    BY <1>5 DEF Telling
  <2>2. \A h \in Guests \ {g} : waiting'[h] = waiting[h] /\ OnList(h)' = OnList(h)
    BY <1>3, <1>5 DEF OnList
  <2>3. waiting'[g] = x /\ waiting' \in [Guests -> WaitRow]
    BY <1>3, <1>5
  <2>4. waiting'[g].seated + OnList(g)' + Cardinality(Telling(g)') <= 1 + waiting'[g].told
    <3>1. CASE waiting[g].status = "NONE" /\ x.seated = 0
      <4>1. Telling(g)' = {}
        BY <2>1, <3>1 DEF SeatsAccounted
      <4>2. Cardinality(Telling(g)') = 0 /\ OnList(g)' \in {0, 1} /\ x.told \in Nat
        BY <4>1, FS_EmptySet DEF OnList, WaitRow
      <4>3. QED
        BY <2>3, <3>1, <4>2
    <3>2. CASE waiting[g].status \in WAITS /\ x.status \notin WAITS
               /\ x.seated \in {waiting[g].seated, waiting[g].seated + 1}
      <4>1. OnList(g) = 1 /\ OnList(g)' = 0
        BY <2>3, <3>2 DEF OnList
      <4>2. waiting[g].seated + 1 + Cardinality(Telling(g)) <= 1 + waiting[g].told
        BY <3>2, <4>1 DEF SeatsAccounted, WAITS
      <4>3. waiting[g].seated \in Nat /\ waiting[g].told \in Nat
        BY <1>3 DEF WaitRow
      <4>4. QED
        BY <1>4, <1>5, <2>1, <2>3, <3>2, <4>1, <4>2, <4>3
    <3>3. QED
      BY <1>5, <3>1, <3>2
  <2>5. SeatsAccounted'
    BY <1>5, <2>1, <2>2, <2>3, <2>4 DEF SeatsAccounted
  <2>6. QED
    BY <1>5, <2>3, <2>5
<1>6. ASSUME NEW g \in Guests, JoinWaitlist(g) PROVE Kept
  <2>1. PICK x : x = [waiting[g] EXCEPT !.status = "WAITING"]
    OBVIOUS
  <2>2. x \in WaitRow /\ x.status = "WAITING" /\ x.told = waiting[g].told /\ x.seated = waiting[g].seated
    BY <1>3, <2>1 DEF WaitRow, WAITS
  <2>3. waiting' = [waiting EXCEPT ![g] = x] /\ work' = work /\ waiting[g].status = "NONE" /\ waiting[g].seated = 0
    BY <1>3, <1>6, <2>1 DEF JoinWaitlist, SeatsAccounted
  <2>4. QED
    BY <1>5, <2>2, <2>3
<1>7. ASSUME NEW g \in Guests, SeatGuest(g) PROVE Kept
  <2>1. PICK x : x = [waiting[g] EXCEPT !.status = "SEATED", !.seated = waiting[g].seated + 1]
    OBVIOUS
  <2>2. x \in WaitRow /\ x.status = "SEATED" /\ x.told = waiting[g].told /\ x.seated = waiting[g].seated + 1
    <3>1. waiting[g] \in WaitRow
      BY <1>3
    <3>2. waiting[g].seated + 1 \in Nat
      BY <3>1 DEF WaitRow
    <3>3. QED
      BY <2>1, <3>1, <3>2 DEF WaitRow
  <2>3. waiting' = [waiting EXCEPT ![g] = x] /\ work' = work /\ waiting[g].status \in WAITS
    BY <1>3, <1>7, <2>1 DEF SeatGuest, StillWaiting
  <2>4. "SEATED" \notin WAITS
    BY DEF WAITS
  <2>5. QED
    BY <1>5, <2>2, <2>3, <2>4
<1>8. ASSUME NEW g \in Guests, LeaveWaitlist(g) PROVE Kept
  <2>1. PICK x : x = [waiting[g] EXCEPT !.status = "LEFT"]
    OBVIOUS
  <2>2. x \in WaitRow /\ x.status = "LEFT" /\ x.told = waiting[g].told /\ x.seated = waiting[g].seated
    BY <1>3, <2>1 DEF WaitRow, WAITS
  <2>3. waiting' = [waiting EXCEPT ![g] = x] /\ work' = work /\ waiting[g].status \in WAITS
    BY <1>3, <1>8, <2>1 DEF LeaveWaitlist
  <2>4. "LEFT" \notin WAITS
    BY DEF WAITS
  <2>5. QED
    BY <1>5, <2>2, <2>3, <2>4
<1>9. ASSUME NEW w \in Terminals, NEW g \in Guests, TellGuest(w, g) PROVE Kept
  <2>1. PICK x : x = [waiting[g] EXCEPT !.told = waiting[g].told + 1]
    OBVIOUS
  <2>2. waiting[g].told < MaxNotices /\ waiting[g].status \in WAITS /\ work[w] = NoWork
        /\ waiting' = [waiting EXCEPT ![g] = x] /\ work' = [work EXCEPT ![w] = [at |-> "tell", of |-> g]]
    BY <1>3, <1>9, <2>1 DEF TellGuest, Begins
  <2>3. x \in WaitRow /\ x.status = waiting[g].status /\ x.told = waiting[g].told + 1 /\ x.seated = waiting[g].seated
    BY <1>3, <2>1, <2>2 DEF WaitRow
  <2>4. work' \in [Terminals -> WorkRecord] /\ waiting' \in [Guests -> WaitRow]
    BY <1>3, <2>2, <2>3 DEF WorkRecord
  <2>5. w \notin Telling(g) /\ Telling(g)' = Telling(g) \cup {w}
    BY <2>2 DEF Telling, NoWork
  <2>6. \A h \in Guests \ {g} : Telling(h)' = Telling(h) /\ waiting'[h] = waiting[h] /\ OnList(h)' = OnList(h)
    BY <1>3, <2>2 DEF Telling, NoWork, OnList
  <2>7. Cardinality(Telling(g)') = Cardinality(Telling(g)) + 1
    BY <1>4, <2>5, FS_AddElement
  <2>8. waiting'[g] = x /\ OnList(g)' = OnList(g) /\ OnList(g) = 1
    BY <1>3, <2>2, <2>3 DEF OnList
  <2>9. waiting[g].seated + OnList(g) + Cardinality(Telling(g)) <= 1 + waiting[g].told
    BY <2>2 DEF SeatsAccounted, WAITS
  <2>10. waiting[g].seated \in Nat /\ waiting[g].told \in Nat
    BY <1>3 DEF WaitRow
  <2>11. x.seated + OnList(g)' + Cardinality(Telling(g)') <= 1 + x.told
    BY <1>4, <2>3, <2>7, <2>8, <2>9, <2>10
  <2>12. x.status # "NONE"
    BY <2>2, <2>3 DEF WAITS
  <2>13. SeatsAccounted'
    BY <2>6, <2>8, <2>11, <2>12 DEF SeatsAccounted
  <2>14. QED
    BY <2>4, <2>13
<1>10. ASSUME NEW w \in Terminals, GuestTold(w) PROVE Kept
  <2>1. PICK g : g = work[w].of
    OBVIOUS
  <2>2. g \in Guests /\ work[w].at = "tell" /\ w \in Telling(g)
    BY <1>10, <2>1, WorkFields DEF GuestTold, Telling
  <2>3. PICK x : x = [waiting[g] EXCEPT !.status = "NOTIFIED"]
    OBVIOUS
  <2>4. waiting' = [waiting EXCEPT ![g] = x] /\ work' = [work EXCEPT ![w] = NoWork]
    BY <1>3, <1>10, <2>1, <2>2, <2>3 DEF GuestTold, Finished
  <2>5. x \in WaitRow /\ x.status = "NOTIFIED" /\ x.told = waiting[g].told /\ x.seated = waiting[g].seated
    BY <1>3, <2>2, <2>3 DEF WaitRow, WAITS
  <2>6. work' \in [Terminals -> WorkRecord] /\ waiting' \in [Guests -> WaitRow]
    BY <1>3, <2>4, <2>5 DEF WorkRecord
  <2>7. Telling(g)' = Telling(g) \ {w}
    BY <2>2, <2>4 DEF Telling, NoWork
  <2>8. \A h \in Guests \ {g} : Telling(h)' = Telling(h) /\ waiting'[h] = waiting[h] /\ OnList(h)' = OnList(h)
    BY <1>3, <2>1, <2>4 DEF Telling, NoWork, OnList
  <2>9. Cardinality(Telling(g)') = Cardinality(Telling(g)) - 1
    BY <1>4, <2>2, <2>7, FS_RemoveElement
  <2>10. waiting'[g] = x /\ OnList(g)' = 1 /\ OnList(g) \in {0, 1}
    BY <1>3, <2>2, <2>4, <2>5 DEF OnList, WAITS
  <2>11. waiting[g].seated + OnList(g) + Cardinality(Telling(g)) <= 1 + waiting[g].told
    BY <2>2 DEF SeatsAccounted
  <2>12. waiting[g].seated \in Nat /\ waiting[g].told \in Nat
    BY <1>3, <2>2 DEF WaitRow
  <2>13. x.seated + OnList(g)' + Cardinality(Telling(g)') <= 1 + x.told
    BY <1>4, <2>5, <2>9, <2>10, <2>11, <2>12
  <2>14. SeatsAccounted'
    BY <2>5, <2>8, <2>10, <2>13 DEF SeatsAccounted
  <2>15. QED
    BY <2>6, <2>14
<1>11. Kept
  BY <1>6, <1>7, <1>8, <1>9, <1>10
<1>12. TableTypeOK'
  BY <1>1, <1>11, WorkFields DEF TableTypeOK, WaitRow
<1>13. QED
  BY <1>2, <1>11, <1>12

\* All desks together.
LEMMA TableKeeps == TableInv /\ [TableNext]_tableVars => TableInv'
<1>1. ASSUME TableInv, UNCHANGED tableVars PROVE TableInv'
  <2>1. TableTypeOK' /\ TapHolds' /\ ActiveAlone' /\ (work \in [Terminals -> WorkRecord])'
    BY <1>1 DEF tableVars, TableInv, TableTypeOK, TapHolds, ActiveAlone
  <2>2. \A g : Telling(g)' = Telling(g) /\ OnList(g)' = OnList(g) /\ waiting'[g] = waiting[g]
    BY <1>1 DEF tableVars, Telling, OnList
  <2>3. SeatsAccounted' /\ TakenOnce'
    BY <1>1, <2>2 DEF tableVars, TableInv, SeatsAccounted, TakenOnce
  <2>4. QED
    BY <2>1, <2>3 DEF TableInv
<1>2. ASSUME TableInv, TableNext PROVE TableInv'
  <2>1. CASE \/ \E t \in Taps : TapLocks(t) \/ TapReads(t) \/ TapRollsBack(t) \/ \E c \in CallIds : TapCreates(t, c)
             \/ \E c \in CallIds : AcknowledgeCall(c) \/ ResolveCall(c)
    BY <1>2, <2>1, CallsKeep
  <2>2. CASE \/ \E c \in Carts : ParkCart(c)
             \/ \E d \in Displays : StartDisplay(d) \/ DropDisplay(d)
             \/ \E w \in Terminals : \/ \E c \in Carts : ReadCart(w, c)
                                     \/ \E d \in Displays : ReadCode(w, d)
                                     \/ ClaimCart(w) \/ PairDisplay(w) \/ WorkDies(w)
    BY <1>2, <2>2, HandsKeep
  <2>3. CASE \/ \E g \in Guests : JoinWaitlist(g) \/ SeatGuest(g) \/ LeaveWaitlist(g)
             \/ \E w \in Terminals : GuestTold(w) \/ \E g \in Guests : TellGuest(w, g)
    BY <1>2, <2>3, WaitlistKeeps
  <2>4. QED
    BY <1>2, <2>1, <2>2, <2>3 DEF TableNext
<1>3. QED
  BY <1>1, <1>2

\* Nothing has begun.
LEMMA TableStarts == TableInit => TableInv
<1> SUFFICES ASSUME TableInit PROVE TableInv
  OBVIOUS
<1>1. TableTypeOK /\ work \in [Terminals -> WorkRecord] /\ TapHolds /\ ActiveAlone /\ TakenOnce
  BY TableAssumption DEF TableInit, TableTypeOK, WorkRecord, NoWork, TapHolds, ActiveAlone, TakenOnce, ACTIVE, WAITS
<1>2. \A g \in Guests : waiting[g].status = "NONE" /\ waiting[g].seated = 0 /\ Telling(g) = {}
  BY DEF TableInit, Telling, NoWork
<1>3. QED
  BY <1>1, <1>2 DEF TableInv, SeatsAccounted

\* Each call, guest, cart and display is served once.
LEMMA TablePromises == TableInv => TableTypeOK /\ ServedOnce
<1> SUFFICES ASSUME TableInv PROVE ServedOnce
  BY DEF TableInv
<1> USE TableAssumption DEF TableInv
<1>1. OneActiveCall
  <2>1. PICK A : A = {c \in CallIds : tableCall[c] \in ACTIVE}
    OBVIOUS
  <2>2. A = {} \/ \E c \in CallIds : A = {c}
    BY <2>1 DEF ActiveAlone
  <2>3. Cardinality(A) \in {0, 1}
    BY <2>2, FS_EmptySet, FS_Singleton
  <2>4. QED
    BY <2>1, <2>3 DEF OneActiveCall
<1>2. ASSUME NEW g \in Guests PROVE waiting[g].seated <= 1 + waiting[g].told
  <2>1. waiting[g].seated \in Nat /\ waiting[g].told \in Nat /\ OnList(g) \in {0, 1}
    BY DEF TableTypeOK, OnList
  <2>2. Telling(g) \in SUBSET Terminals
    BY DEF Telling
  <2>3. Cardinality(Telling(g)) \in Nat
    BY <2>2, FS_Subset, FS_CardinalityType
  <2>4. \/ waiting[g].seated = 0
        \/ waiting[g].seated + OnList(g) + Cardinality(Telling(g)) <= 1 + waiting[g].told
    BY DEF SeatsAccounted
  <2>5. QED
    BY <2>1, <2>3, <2>4
<1>3. QED
  BY <1>1, <1>2 DEF ServedOnce, GuestSeatedOnce, CartTakenOnce, DisplayClaimedOnce, TakenOnce

(* The booking desk. *)

BookingStatus == {"NONE", "BOOKED", "CONFIRMED", "SEATED", "NO_SHOW", "CANCELLED"}
BookingRow == [status : BookingStatus, start : Nat, minutes : 0 .. MaxDuration,
               tables : SUBSET Tables, walked : SUBSET Tables]
BookWish == [start : Nat, minutes : 1 .. MaxDuration, tables : SUBSET Tables]
HostCall == [kind : {"create", "update", "status", "seat"}, at : {"row", "tables", "check", "write"},
             b : Bookings, want : BookWish, to : BookingStatus, need : SUBSET Tables]

BookRows ==
    /\ booking \in [Bookings -> BookingRow] /\ running \subseteq Tables
    /\ bookLock \in [Bookings \cup Tables -> Hosts \cup {Nobody}]
    /\ host \in [Hosts -> {NoHost} \cup HostCall]
    /\ \A b \in Bookings : /\ booking[b].status # "NONE" => booking[b].minutes \in 1 .. MaxDuration
                           /\ booking[b].walked \subseteq booking[b].tables
                           /\ booking[b].status # "SEATED" => booking[b].walked = {}

\* A call has passed its first lock.
Inside(h) == host[h].at \in {"tables", "check", "write"}
\* It will hold its tables from now on.
ClaimsTables(op) == op.kind # "status" \/ Reinstates(op)

\* A call holds its own row and what it found there, or is the only one on an unmade booking.
RowHeld(h) ==
    LET op == host[h] IN
    /\ op.kind = "create" => /\ booking[op.b].status = "NONE"
                             /\ \A k \in Hosts \ {h} : host[k] = NoHost \/ host[k].b # op.b
    /\ op.kind # "create" => bookLock[op.b] = h /\ booking[op.b].status # "NONE" /\ RowAllows(op)
    /\ op.kind = "status" => op.want = Held(op.b)

\* It holds the tables it no longer needs to lock, and those precede the others.
TablesHeld(h) ==
    LET op == host[h] IN
    /\ op.need \subseteq op.want.tables
    /\ ClaimsTables(op) => \A t \in op.want.tables \ op.need : bookLock[t] = h
    /\ op.at = "tables" => op.need # {} /\ ClaimsTables(op)
    /\ op.at # "tables" => op.need = {}
    /\ \A t \in Tables : bookLock[t] = h => \A u \in op.need : t < u

\* Nothing has overlapped it since it looked.
StillFree(h) ==
    LET op == host[h] IN
    op.at = "write" /\ op.kind # "seat" /\ ClaimsTables(op) => ~Clashes(op.b, op.want)

\* It holds no other rows.
OwnLocks(h) ==
    \A x \in Bookings \cup Tables : bookLock[x] = h =>
        Inside(h) /\ (x \in Bookings => x = host[h].b) /\ (x \in Tables => x \in host[h].want.tables)

HostHolds(h) ==
    /\ host[h].at = "row" => host[h].kind # "create" /\ booking[host[h].b].status # "NONE"
    /\ Inside(h) => RowHeld(h) /\ TablesHeld(h) /\ StillFree(h)
    /\ OwnLocks(h)

BookInv == BookRows /\ (\A h \in Hosts : HostHolds(h)) /\ NoDoubleBooking

\* The fields of a call and of a booking.
LEMMA HostFields ==
    ASSUME BookRows, NEW h \in Hosts
    PROVE  /\ host[h].at \in {"idle", "row", "tables", "check", "write"}
           /\ host[h].at = "idle" <=> host[h] = NoHost
           /\ host[h] # NoHost => host[h] \in HostCall
           /\ Inside(h) => host[h] \in HostCall
BY DEF BookRows, HostCall, NoHost, Inside

\* What a call writes is a booking.
LEMMA BookingFields ==
    ASSUME BookRows, NEW b \in Bookings
    PROVE  /\ booking[b] \in BookingRow
           /\ booking[b].status # "NONE" => Held(b) \in BookWish
BY DEF BookRows, BookingRow, Held, BookWish

\* A step that writes no booking and leaves the locks of another call alone does not
\* disturb it.
LEMMA OthersHold ==
    ASSUME BookInv, NEW h \in Hosts, booking' = booking, NEW k \in Hosts, k # h,
           host'[k] = host[k], \A x \in Bookings \cup Tables : (bookLock'[x] = k) = (bookLock[x] = k),
           \A g \in Hosts : \/ host'[g] = NoHost \/ host'[g] = host[g]
                            \/ host[g] # NoHost /\ host'[g].b = host[g].b
                            \/ booking[host'[g].b].status # "NONE"
                            \/ host'[g].b \in Unmade
    PROVE  HostHolds(k)'
<1> USE DEF BookInv
<1>1. host[k].at = "row" => booking[host[k].b].status # "NONE" /\ host[k].kind # "create"
  BY DEF HostHolds
<1>2. ASSUME Inside(k) PROVE RowHeld(k)' /\ TablesHeld(k)' /\ StillFree(k)'
  <2>1. PICK op : op = host[k]
    OBVIOUS
  <2>2. op \in HostCall /\ RowHeld(k) /\ TablesHeld(k) /\ StillFree(k) /\ host'[k] = op /\ host[k] # NoHost
    BY <1>2, <2>1, HostFields DEF HostHolds, Inside, NoHost
  <2>3. /\ RowAllows(op)' = RowAllows(op) /\ Held(op.b)' = Held(op.b) /\ ClaimsTables(op)' = ClaimsTables(op)
        /\ Clashes(op.b, op.want)' = Clashes(op.b, op.want)
    BY DEF RowAllows, Editable, Held, ClaimsTables, Reinstates, Clashes, Candidates
  <2>4. op.b \in Bookings /\ op.want.tables \subseteq Tables
    BY <2>2 DEF HostCall, BookWish
  <2>5. op.kind = "create" => \A g \in Hosts \ {k} : host'[g] = NoHost \/ host'[g].b # op.b
    <3> SUFFICES ASSUME op.kind = "create", NEW g \in Hosts \ {k} PROVE host'[g] = NoHost \/ host'[g].b # op.b
      OBVIOUS
    <3>1. booking[op.b].status = "NONE" /\ (host[g] = NoHost \/ host[g].b # op.b)
      BY <2>1, <2>2 DEF RowHeld
    <3>2. \A b \in Unmade : b # op.b
      BY <2>1, <2>2 DEF Unmade
    <3>3. QED
      BY <3>1, <3>2
  <2>6. RowHeld(k)'
    BY <2>1, <2>2, <2>3, <2>4, <2>5 DEF RowHeld
  <2>7. TablesHeld(k)'
    BY <2>1, <2>2, <2>3, <2>4 DEF TablesHeld
  <2>8. StillFree(k)'
    BY <2>1, <2>2, <2>3 DEF StillFree
  <2>9. QED
    BY <2>6, <2>7, <2>8
<1>3. OwnLocks(k)'
  BY DEF HostHolds, OwnLocks, Inside
<1>4. Inside(k)' = Inside(k)
  BY DEF Inside
<1>5. QED
  BY <1>1, <1>2, <1>3, <1>4 DEF HostHolds

\* A call begins.
LEMMA BookingBegins ==
    ASSUME BookInv, NEW h \in Hosts, NEW b \in Bookings,
           \/ \E w \in Wishes : BeginBooking(h, b, w) \/ BeginChange(h, b, "update", w, "BOOKED")
           \/ \E s \in DOMAIN TRANSITIONS \ {"SEATED"} : BeginChange(h, b, "status", Held(b), s)
           \/ \E t \in Tables : BeginChange(h, b, "seat", [Held(b) EXCEPT !.tables = {t}], "SEATED")
    PROVE  BookInv'
<1> USE ReservationAssumption DEF BookInv
<1>1. UNCHANGED <<booking, running, bookLock>> /\ host[h] = NoHost
  BY DEF BeginBooking, BeginChange
<1>2. PICK op \in HostCall :
        /\ host' = [host EXCEPT ![h] = op] /\ op.b = b
        /\ \/ op.kind # "create" /\ op.at = "row" /\ booking[b].status # "NONE"
           \/ /\ op.kind = "create" /\ b \in Unmade /\ op.need = op.want.tables
              /\ op.at = IF op.want.tables = {} THEN "write" ELSE "tables"
  <2>1. ASSUME NEW w \in Wishes, BeginBooking(h, b, w)
        PROVE  \E op \in HostCall : /\ host' = [host EXCEPT ![h] = op] /\ op.b = b
                                    /\ op.kind = "create" /\ b \in Unmade /\ op.need = op.want.tables
                                    /\ op.at = IF op.want.tables = {} THEN "write" ELSE "tables"
    <3>1. PICK at \in {"tables", "write"} : at = IF w.tables = {} THEN "write" ELSE "tables"
      OBVIOUS
    <3>2. Call("create", at, b, w, "BOOKED") \in HostCall
      BY DEF Call, HostCall, BookWish, BookingStatus
    <3>3. QED
      BY <2>1, <3>1, <3>2 DEF BeginBooking, Call
  <2>2. ASSUME NEW kind \in {"update", "status", "seat"}, NEW w \in BookWish, NEW to \in BookingStatus,
               BeginChange(h, b, kind, w, to)
        PROVE  \E op \in HostCall : /\ host' = [host EXCEPT ![h] = op] /\ op.b = b
                                    /\ op.kind # "create" /\ op.at = "row" /\ booking[b].status # "NONE"
    <3>1. PICK op : op = Call(kind, "row", b, w, to)
      OBVIOUS
    <3>2. w.tables \in SUBSET Tables
      BY DEF BookWish
    <3>3. op \in HostCall /\ op.b = b /\ op.kind = kind /\ op.at = "row"
      BY <3>1, <3>2 DEF Call, HostCall
    <3>4. QED
      BY <2>2, <3>1, <3>3 DEF BeginChange
  <2>3. \A w \in Wishes : w \in BookWish
    BY DEF BookWish
  <2>4. DOMAIN TRANSITIONS \subseteq BookingStatus /\ "BOOKED" \in BookingStatus /\ "SEATED" \in BookingStatus
    BY DEF TRANSITIONS, BookingStatus
  <2>5. ASSUME booking[b].status # "NONE"
        PROVE  Held(b) \in BookWish /\ \A t \in Tables : [Held(b) EXCEPT !.tables = {t}] \in BookWish
    BY <2>5, BookingFields DEF BookWish
  <2>6. QED
    BY <2>1, <2>2, <2>3, <2>4, <2>5 DEF BeginChange
<1>3. BookRows'
  BY <1>1, <1>2 DEF BookRows
<1>4. \A g \in Hosts : host'[g] = host[g] \/ booking[host'[g].b].status # "NONE" \/ host'[g].b \in Unmade
  BY <1>2 DEF BookRows
<1>5. ASSUME NEW k \in Hosts, k # h PROVE HostHolds(k)'
  BY <1>1, <1>2, <1>4, <1>5, OthersHold DEF BookRows
<1>6. HostHolds(h)'
  <2>1. \A x \in Bookings \cup Tables : bookLock[x] # h
    BY <1>1 DEF HostHolds, OwnLocks, Inside, NoHost
  <2>2. host'[h] = op
    BY <1>2 DEF BookRows
  <2>3. OwnLocks(h)'
    BY <1>1, <2>1 DEF OwnLocks
  <2>4. CASE op.kind # "create" /\ op.at = "row" /\ booking[b].status # "NONE"
    BY <1>1, <1>2, <2>2, <2>3, <2>4 DEF HostHolds, Inside
  <2>5. CASE op.kind = "create"
    <3>1. \A k \in Hosts \ {h} : host'[k] = NoHost \/ host'[k].b # b
      BY <1>2, <2>5 DEF Unmade, BookRows
    <3>2. RowHeld(h)'
      BY <1>1, <1>2, <2>2, <2>5, <3>1 DEF RowHeld, Unmade
    <3>3. TablesHeld(h)'
      BY <1>1, <1>2, <2>1, <2>2, <2>5 DEF TablesHeld, ClaimsTables
    <3>4. StillFree(h)'
      BY <1>1, <1>2, <2>2, <2>5 DEF StillFree, Clashes, Candidates
    <3>5. QED
      BY <1>2, <2>2, <2>3, <2>5, <3>2, <3>3, <3>4 DEF HostHolds
  <2>6. QED
    BY <1>2, <2>4, <2>5
<1>7. NoDoubleBooking'
  BY <1>1 DEF NoDoubleBooking
<1>8. QED
  BY <1>3, <1>5, <1>6, <1>7

\* A call that only moves on keeps the promises to the guests and to other calls.
LEMMA CallMoves ==
    ASSUME BookInv, NEW h \in Hosts, host[h] # NoHost, NEW op \in {NoHost} \cup HostCall,
           host' = [host EXCEPT ![h] = op], op = NoHost \/ op.b = host[h].b, booking' = booking, running' \subseteq Tables,
           bookLock' \in [Bookings \cup Tables -> Hosts \cup {Nobody}],
           \A x \in Bookings \cup Tables : bookLock'[x] # bookLock[x] => {bookLock[x], bookLock'[x]} \subseteq {h, Nobody},
           HostHolds(h)'
    PROVE  BookInv'
<1> USE ReservationAssumption DEF BookInv
<1>1. BookRows'
  BY DEF BookRows
<1>2. \A g \in Hosts : host'[g] = NoHost \/ host'[g] = host[g] \/ (host[g] # NoHost /\ host'[g].b = host[g].b)
  BY DEF BookRows
<1>3. ASSUME NEW k \in Hosts, k # h PROVE HostHolds(k)'
  <2>1. host'[k] = host[k]
    BY <1>3 DEF BookRows
  <2>2. \A x \in Bookings \cup Tables : (bookLock'[x] = k) = (bookLock[x] = k)
    BY <1>3 DEF Nobody
  <2>3. QED
    BY <1>2, <1>3, <2>1, <2>2, OthersHold
<1>4. NoDoubleBooking'
  BY DEF NoDoubleBooking
<1>5. QED
  BY <1>1, <1>3, <1>4

\* A call that ends lets go of all it held.
LEMMA CallEnds ==
    ASSUME BookInv, NEW h \in Hosts
    PROVE  LET lock == [x \in DOMAIN bookLock |-> IF bookLock[x] = h THEN Nobody ELSE bookLock[x]]
           IN  /\ lock \in [Bookings \cup Tables -> Hosts \cup {Nobody}]
               /\ \A x \in Bookings \cup Tables : /\ lock[x] # h
                                                  /\ lock[x] # bookLock[x] => {bookLock[x], lock[x]} \subseteq {h, Nobody}
BY ReservationAssumption DEF BookInv, BookRows, Nobody

LEMMA HostCallDies ==
    ASSUME BookInv, NEW h \in Hosts, host[h] # NoHost, Ends(h), booking' = booking, running' = running
    PROVE  BookInv'
<1>1. HostHolds(h)'
  <2>1. host'[h] = NoHost
    BY DEF Ends, BookInv, BookRows
  <2>2. \A x \in Bookings \cup Tables : bookLock'[x] # h
    BY CallEnds DEF Ends
  <2>3. QED
    BY <2>1, <2>2 DEF HostHolds, Inside, OwnLocks, NoHost
<1>2. QED
  BY <1>1, CallEnds, CallMoves DEF Ends, BookInv, BookRows

\* A call locks its own row and learns what to lock next.
LEMMA RowLocked ==
    ASSUME BookInv, NEW h \in Hosts, LockRow(h)
    PROVE  BookInv'
<1> USE ReservationAssumption DEF BookInv
<1>1. PICK op : op = host[h]
  OBVIOUS
<1>2. /\ op \in HostCall /\ op.at = "row" /\ op.kind # "create" /\ op.b \in Bookings /\ booking[op.b].status # "NONE"
      /\ bookLock[op.b] = Nobody /\ booking' = booking /\ running' = running /\ host[h] # NoHost
  BY <1>1, HostFields DEF LockRow, HostHolds, HostCall, NoHost
<1>3. \A x \in Bookings \cup Tables : bookLock[x] # h
  BY <1>1, <1>2 DEF HostHolds, OwnLocks, Inside
<1>4. CASE ~RowAllows(op)
  <2>1. host' = [host EXCEPT ![h] = NoHost] /\ bookLock' = bookLock
    BY <1>1, <1>4 DEF LockRow
  <2>2. HostHolds(h)'
    BY <1>3, <2>1 DEF HostHolds, Inside, OwnLocks, NoHost, BookRows
  <2>3. QED
    BY <1>2, <2>1, <2>2, CallMoves DEF BookRows
<1>5. CASE RowAllows(op)
  <2>1. PICK want \in BookWish : want = IF op.kind = "status" THEN Held(op.b) ELSE op.want
    BY <1>2, BookingFields DEF HostCall
  <2>2. PICK need \in SUBSET Tables : need = IF op.kind # "status" \/ Reinstates(op) THEN want.tables ELSE {}
    BY DEF BookWish
  <2>3. PICK at \in {"write", "tables"} : at = IF need = {} THEN "write" ELSE "tables"
    OBVIOUS
  <2>4. PICK new : new = [op EXCEPT !.want = want, !.need = need, !.at = at]
    OBVIOUS
  <2>5. /\ new \in HostCall /\ new.kind = op.kind /\ new.b = op.b /\ new.to = op.to
        /\ new.want = want /\ new.need = need /\ new.at = at
    BY <1>2, <2>4 DEF HostCall
  <2>6. bookLock' = [bookLock EXCEPT ![op.b] = h] /\ host' = [host EXCEPT ![h] = new]
    BY <1>1, <1>5, <2>1, <2>2, <2>3, <2>4 DEF LockRow, Waits
  <2>7. host'[h] = new /\ bookLock'[op.b] = h /\ \A x \in (Bookings \cup Tables) \ {op.b} : bookLock'[x] = bookLock[x]
    BY <1>2, <2>6 DEF BookRows
  <2>8. RowHeld(h)'
    <3>1. RowAllows(new)' /\ (new.kind = "status" => new.want = Held(op.b)')
      BY <1>2, <1>5, <2>1, <2>5 DEF RowAllows, Editable, Held
    <3>2. QED
      BY <1>2, <2>5, <2>7, <3>1 DEF RowHeld
  <2>9. ClaimsTables(new)' = (op.kind # "status" \/ Reinstates(op))
    BY <1>2, <2>5 DEF ClaimsTables, Reinstates
  <2>10. TablesHeld(h)'
    BY <1>2, <1>3, <2>2, <2>3, <2>5, <2>7, <2>9 DEF TablesHeld
  <2>11. StillFree(h)'
    <3> SUFFICES ASSUME new.at = "write", ClaimsTables(new)' PROVE ~Clashes(new.b, new.want)'
      BY <2>7 DEF StillFree
    <3>1. want.tables = {}
      BY <2>2, <2>3, <2>5, <2>9
    <3>2. QED
      BY <2>5, <3>1 DEF Clashes, Candidates
  <2>12. OwnLocks(h)'
    <3>1. Inside(h)'
      BY <2>5, <2>7 DEF Inside
    <3>2. op.b \notin Tables
      BY <1>2
    <3>3. QED
      BY <1>3, <2>5, <2>7, <3>1, <3>2 DEF OwnLocks
  <2>13. HostHolds(h)'
    BY <2>5, <2>7, <2>8, <2>10, <2>11, <2>12 DEF HostHolds
  <2>14. bookLock' \in [Bookings \cup Tables -> Hosts \cup {Nobody}]
    BY <1>2, <2>6 DEF BookRows
  <2>15. \A x \in Bookings \cup Tables : bookLock'[x] # bookLock[x] => {bookLock[x], bookLock'[x]} \subseteq {h, Nobody}
    BY <1>2, <2>7
  <2>16. QED
    BY <1>1, <1>2, <2>5, <2>6, <2>13, <2>14, <2>15, CallMoves DEF BookRows
<1>6. QED
  BY <1>4, <1>5

\* A call locks the first table it still needs.
LEMMA TableLocked ==
    ASSUME BookInv, NEW h \in Hosts, LockNextTable(h)
    PROVE  BookInv'
<1> USE ReservationAssumption DEF BookInv
<1>1. PICK op : op = host[h]
  OBVIOUS
<1>2. /\ op \in HostCall /\ op.at = "tables" /\ booking' = booking /\ running' = running /\ host[h] # NoHost /\ Inside(h)
      /\ op.b \in Bookings /\ op.need \in SUBSET Tables
  BY <1>1, HostFields DEF LockNextTable, HostCall, NoHost, Inside
<1>3. RowHeld(h) /\ TablesHeld(h) /\ StillFree(h) /\ OwnLocks(h)
  BY <1>2 DEF HostHolds
<1>4. op.need # {} /\ op.need \subseteq op.want.tables /\ op.need \in SUBSET Nat /\ ClaimsTables(op)
  BY <1>1, <1>2, <1>3 DEF TablesHeld
<1>5. PICK t : t = Min(op.need)
  OBVIOUS
<1>6. t \in op.need /\ \A u \in op.need : t <= u
  BY <1>4, <1>5, MinIn
<1>7. PICK rest \in SUBSET Tables : rest = op.need \ {t}
  BY <1>2
<1>8. PICK at \in {"check", "tables"} : at = IF rest = {} THEN "check" ELSE "tables"
  OBVIOUS
<1>9. PICK new : new = [op EXCEPT !.need = rest, !.at = at]
  OBVIOUS
<1>10. /\ new \in HostCall /\ new.kind = op.kind /\ new.b = op.b /\ new.to = op.to
       /\ new.want = op.want /\ new.need = rest /\ new.at = at
  BY <1>2, <1>9 DEF HostCall
<1>11. bookLock[t] = Nobody /\ bookLock' = [bookLock EXCEPT ![t] = h] /\ host' = [host EXCEPT ![h] = new]
  BY <1>1, <1>5, <1>7, <1>8, <1>9 DEF LockNextTable, TableLock, Waits
<1>12. t \in Tables /\ t \notin Bookings
  BY <1>2, <1>6
<1>13. host'[h] = new /\ bookLock'[t] = h /\ \A x \in (Bookings \cup Tables) \ {t} : bookLock'[x] = bookLock[x]
  BY <1>11, <1>12 DEF BookRows
<1>14. /\ RowAllows(new)' = RowAllows(op) /\ Held(op.b)' = Held(op.b) /\ ClaimsTables(new)' = ClaimsTables(op)
  BY <1>2, <1>10 DEF RowAllows, Editable, Held, ClaimsTables, Reinstates
<1>15. RowHeld(h)'
  <2>1. op.kind = "create" => \A k \in Hosts \ {h} : host'[k] = host[k]
    BY <1>11 DEF BookRows
  <2>2. op.b # t
    BY <1>2, <1>12
  <2>3. QED
    BY <1>1, <1>2, <1>3, <1>10, <1>13, <1>14, <2>1, <2>2 DEF RowHeld
<1>16. TablesHeld(h)'
  <2>1. \A x \in op.want.tables \ rest : bookLock'[x] = h
    BY <1>1, <1>2, <1>3, <1>4, <1>7, <1>10, <1>13 DEF TablesHeld, HostCall, BookWish
  <2>2. \A x \in Tables : bookLock'[x] = h => \A u \in rest : x < u
    <3> SUFFICES ASSUME NEW x \in Tables, bookLock'[x] = h, NEW u \in rest PROVE x < u
      OBVIOUS
    <3>1. CASE x = t
      BY <1>4, <1>6, <1>7, <1>12, <3>1
    <3>2. CASE x # t
      BY <1>1, <1>3, <1>7, <1>13, <3>2 DEF TablesHeld
    <3>3. QED
      BY <3>1, <3>2
  <2>3. QED
    BY <1>4, <1>7, <1>8, <1>10, <1>13, <1>14, <2>1, <2>2 DEF TablesHeld
<1>17. StillFree(h)'
  BY <1>8, <1>10, <1>13 DEF StillFree
<1>18. OwnLocks(h)'
  <2>1. Inside(h)'
    BY <1>10, <1>13 DEF Inside
  <2>2. t \in op.want.tables
    BY <1>4, <1>6
  <2>3. QED
    BY <1>1, <1>3, <1>10, <1>12, <1>13, <2>1, <2>2 DEF OwnLocks
<1>19. HostHolds(h)'
  BY <1>10, <1>13, <1>15, <1>16, <1>17, <1>18 DEF HostHolds
<1>20. bookLock' \in [Bookings \cup Tables -> Hosts \cup {Nobody}]
  BY <1>11, <1>12 DEF BookRows
<1>21. \A x \in Bookings \cup Tables : bookLock'[x] # bookLock[x] => {bookLock[x], bookLock'[x]} \subseteq {h, Nobody}
  BY <1>11, <1>13
<1>22. QED
  BY <1>1, <1>2, <1>10, <1>11, <1>19, <1>20, <1>21, CallMoves DEF BookRows

\* A call looks for what overlaps.
LEMMA TablesChecked ==
    ASSUME BookInv, NEW h \in Hosts, CheckTables(h)
    PROVE  BookInv'
<1> USE ReservationAssumption DEF BookInv
<1>1. PICK op : op = host[h]
  OBVIOUS
<1>2. /\ op \in HostCall /\ op.at = "check" /\ booking' = booking /\ running' = running /\ host[h] # NoHost /\ Inside(h)
      /\ op.b \in Bookings
  BY <1>1, HostFields DEF CheckTables, HostCall, NoHost, Inside
<1>3. CASE Ends(h)
  BY <1>2, <1>3, HostCallDies
<1>4. CASE ~Refused(op) /\ Waits(h, "write", op) /\ UNCHANGED bookLock
  <2>1. PICK new : new = [op EXCEPT !.at = "write"]
    OBVIOUS
  <2>2. /\ new \in HostCall /\ new.kind = op.kind /\ new.b = op.b /\ new.to = op.to
        /\ new.want = op.want /\ new.need = op.need /\ new.at = "write"
    BY <1>2, <2>1 DEF HostCall
  <2>3. host' = [host EXCEPT ![h] = new] /\ host'[h] = new /\ bookLock' = bookLock
    BY <1>4, <2>1 DEF Waits, BookRows
  <2>4. RowHeld(h) /\ TablesHeld(h) /\ OwnLocks(h)
    BY <1>2 DEF HostHolds
  <2>5. /\ RowAllows(new)' = RowAllows(op) /\ Held(op.b)' = Held(op.b) /\ ClaimsTables(new)' = ClaimsTables(op)
        /\ Clashes(op.b, op.want)' = Clashes(op.b, op.want)
    BY <1>2, <2>2 DEF RowAllows, Editable, Held, ClaimsTables, Reinstates, Clashes, Candidates
  <2>6. \A k \in Hosts \ {h} : host'[k] = host[k]
    BY <2>3 DEF BookRows
  <2>7. RowHeld(h)'
    BY <1>1, <1>2, <2>2, <2>3, <2>4, <2>5, <2>6 DEF RowHeld
  <2>8. TablesHeld(h)'
    BY <1>1, <1>2, <2>2, <2>3, <2>4, <2>5 DEF TablesHeld
  <2>9. StillFree(h)'
    BY <1>4, <2>2, <2>3, <2>5 DEF StillFree, Refused
  <2>10. OwnLocks(h)' /\ Inside(h)'
    BY <1>1, <2>2, <2>3, <2>4 DEF OwnLocks, Inside
  <2>11. HostHolds(h)'
    BY <2>2, <2>3, <2>7, <2>8, <2>9, <2>10 DEF HostHolds
  <2>12. QED
    BY <1>1, <1>2, <2>2, <2>3, <2>11, CallMoves DEF BookRows
<1>5. QED
  BY <1>1, <1>3, <1>4 DEF CheckTables

\* What a call writes: the time and tables it checked, or its booking with the table
\* the party was seated at.
TakesPlace(op, n) ==
    /\ ClaimsTables(op) /\ op.kind # "seat"
    /\ n.start = op.want.start /\ n.minutes = op.want.minutes /\ n.tables = op.want.tables
StaysPut(op, n) ==
    LET old == booking[op.b] IN
    /\ n.status \in BLOCKING => old.status \in BLOCKING
    /\ n.start = old.start /\ n.minutes = old.minutes /\ old.tables \subseteq n.tables
    /\ n.tables \ old.tables \subseteq n.walked
    /\ n.tables # old.tables => ClaimsTables(op) /\ n.tables \subseteq old.tables \cup op.want.tables

LEMMA WhatIsWritten ==
    ASSUME BookRows, NEW op \in HostCall, op.b \in Bookings,
           op.kind = "create" => booking[op.b].status = "NONE",
           op.kind # "create" => booking[op.b].status # "NONE" /\ RowAllows(op),
           op.kind = "status" => op.want = Held(op.b)
    PROVE  /\ Written(op) \in BookingRow /\ Written(op).status # "NONE" /\ Written(op).minutes \in 1 .. MaxDuration
           /\ Written(op).walked \subseteq Written(op).tables
           /\ Written(op).status # "SEATED" => Written(op).walked = {}
           /\ TakesPlace(op, Written(op)) \/ StaysPut(op, Written(op))
<1>1. PICK old \in BookingRow : old = booking[op.b]
  BY BookingFields
<1>2. PICK n : n = Written(op)
  OBVIOUS
<1>3. op.want \in BookWish /\ op.want.tables \in SUBSET Tables /\ op.want.minutes \in 1 .. MaxDuration /\ op.want.start \in Nat
  BY DEF HostCall, BookWish
<1>4. op.want.minutes \in 0 .. MaxDuration
  BY <1>3
<1>5. CASE op.kind = "create"
  <2>1. n = [status |-> "BOOKED", start |-> op.want.start, minutes |-> op.want.minutes, tables |-> op.want.tables, walked |-> {}]
    BY <1>2, <1>5 DEF Written
  <2>2. n \in BookingRow
    BY <1>3, <1>4, <2>1 DEF BookingRow, BookingStatus
  <2>3. QED
    BY <1>2, <1>3, <1>5, <2>1, <2>2 DEF TakesPlace, ClaimsTables
<1>6. CASE op.kind = "update"
  <2>1. n = [old EXCEPT !.start = op.want.start, !.minutes = op.want.minutes, !.tables = op.want.tables]
    BY <1>1, <1>2, <1>6 DEF Written
  <2>2. old.status \in {"BOOKED", "CONFIRMED"} /\ old.walked = {}
    BY <1>1, <1>6 DEF RowAllows, Editable, BLOCKING, BookRows
  <2>3. n \in BookingRow
    BY <1>1, <1>3, <1>4, <2>1 DEF BookingRow
  <2>4. n.status = old.status /\ n.walked = {} /\ n.start = op.want.start /\ n.minutes = op.want.minutes /\ n.tables = op.want.tables
    BY <1>1, <2>1, <2>2 DEF BookingRow
  <2>5. QED
    BY <1>2, <1>3, <1>6, <2>2, <2>3, <2>4 DEF TakesPlace, ClaimsTables
<1>7. CASE op.kind = "status"
  <2>1. n = [old EXCEPT !.status = op.to]
    BY <1>1, <1>2, <1>7 DEF Written
  <2>2. op.to \in TRANSITIONS[old.status] /\ old.status \in {"BOOKED", "CONFIRMED", "SEATED", "NO_SHOW", "CANCELLED"}
    BY <1>1, <1>7 DEF RowAllows, BookingRow, BookingStatus
  <2>3. \/ old.status \in {"BOOKED", "CONFIRMED"} /\ op.to \in {"BOOKED", "CONFIRMED", "SEATED", "NO_SHOW", "CANCELLED"}
        \/ old.status \in {"NO_SHOW", "CANCELLED"} /\ op.to = "BOOKED"
    BY <2>2 DEF TRANSITIONS
  <2>4. old.walked = {} /\ old.minutes \in 1 .. MaxDuration
    BY <1>1, <1>7, <2>3 DEF BookRows
  <2>5. n \in BookingRow /\ n.status = op.to /\ n.start = old.start /\ n.minutes = old.minutes /\ n.tables = old.tables
        /\ n.walked = old.walked
    BY <1>1, <2>1, <2>3 DEF BookingRow, BookingStatus
  <2>6. op.want.start = old.start /\ op.want.minutes = old.minutes /\ op.want.tables = old.tables
    BY <1>1, <1>7 DEF Held
  <2>7. TakesPlace(op, n) \/ StaysPut(op, n)
    BY <1>1, <1>7, <2>3, <2>4, <2>5, <2>6 DEF TakesPlace, StaysPut, ClaimsTables, Reinstates, BLOCKING
  <2>8. n.status # "NONE"
    BY <2>3, <2>5
  <2>9. QED
    BY <1>2, <2>4, <2>5, <2>7, <2>8
<1>8. CASE op.kind = "seat"
  <2>1. n = [old EXCEPT !.status = "SEATED", !.tables = old.tables \cup op.want.tables, !.walked = op.want.tables \ old.tables]
    BY <1>1, <1>2, <1>8 DEF Written
  <2>2. old.status \in {"BOOKED", "CONFIRMED"} /\ old.minutes \in 1 .. MaxDuration
    BY <1>1, <1>8 DEF RowAllows, BookRows
  <2>3. n \in BookingRow
    BY <1>1, <1>3, <2>1 DEF BookingRow, BookingStatus
  <2>4. n.status = "SEATED" /\ n.start = old.start /\ n.minutes = old.minutes /\ n.tables = old.tables \cup op.want.tables
        /\ n.walked = op.want.tables \ old.tables
    BY <1>1, <2>1 DEF BookingRow
  <2>5. StaysPut(op, n)
    BY <1>1, <1>8, <2>2, <2>4 DEF StaysPut, ClaimsTables, BLOCKING
  <2>6. QED
    BY <1>2, <2>2, <2>3, <2>4, <2>5
<1>9. QED
  BY <1>5, <1>6, <1>7, <1>8 DEF HostCall

\* A call writes its booking.
LEMMA BookingWritten ==
    ASSUME BookInv, NEW h \in Hosts, WriteBooking(h)
    PROVE  BookInv'
<1> USE ReservationAssumption DEF BookInv
<1>1. PICK op : op = host[h]
  OBVIOUS
<1>2. /\ op \in HostCall /\ op.at = "write" /\ running' = running /\ host[h] # NoHost /\ Inside(h)
      /\ op.b \in Bookings /\ op.want.tables \subseteq Tables /\ Ends(h) /\ op.want \in BookWish
  BY <1>1, HostFields DEF WriteBooking, HostCall, NoHost, Inside, BookWish
<1>3. RowHeld(h) /\ TablesHeld(h) /\ StillFree(h) /\ OwnLocks(h)
  BY <1>2 DEF HostHolds
<1>4. PICK n : n = Written(op)
  OBVIOUS
<1>5. /\ n \in BookingRow /\ n.status # "NONE" /\ n.minutes \in 1 .. MaxDuration /\ n.walked \subseteq n.tables
      /\ n.status # "SEATED" => n.walked = {}
      /\ TakesPlace(op, n) \/ StaysPut(op, n)
  BY <1>1, <1>2, <1>3, <1>4, WhatIsWritten DEF RowHeld
<1>6. booking' = [booking EXCEPT ![op.b] = n]
  BY <1>1, <1>4 DEF WriteBooking
<1>7. booking'[op.b] = n /\ \A c \in Bookings \ {op.b} : booking'[c] = booking[c]
  BY <1>2, <1>6 DEF BookRows
<1>8. ClaimsTables(op) => \A t \in op.want.tables : bookLock[t] = h
  BY <1>1, <1>2, <1>3 DEF TablesHeld
<1>9. /\ bookLock' \in [Bookings \cup Tables -> Hosts \cup {Nobody}]
      /\ \A x \in Bookings \cup Tables : bookLock'[x] # h
      /\ host' = [host EXCEPT ![h] = NoHost]
  BY <1>2, CallEnds DEF Ends
<1>10. BookRows'
  BY <1>2, <1>5, <1>6, <1>7, <1>9 DEF BookRows
<1>11. ASSUME NEW k \in Hosts, k # h PROVE HostHolds(k)'
  <2>1. host'[k] = host[k]
    BY <1>9, <1>11 DEF BookRows
  <2>2. \A x \in Bookings \cup Tables : (bookLock'[x] = k) = (bookLock[x] = k)
    BY <1>2, <1>11, CallEnds DEF Ends, Nobody
  <2>3. HostHolds(k) /\ Inside(k)' = Inside(k)
    BY <2>1 DEF Inside
  <2>4. OwnLocks(k)'
    BY <2>1, <2>2, <2>3 DEF HostHolds, OwnLocks
  <2>5. host[k].at = "row" => booking'[host[k].b].status # "NONE"
    <3>1. host[k].at = "row" => host[k].b \in Bookings /\ booking[host[k].b].status # "NONE"
      BY <2>3, HostFields DEF HostHolds, HostCall, NoHost
    <3>2. QED
      BY <1>5, <1>7, <3>1
  <2>6. ASSUME Inside(k) PROVE RowHeld(k)' /\ TablesHeld(k)' /\ StillFree(k)'
    <3>1. PICK q : q = host[k]
      OBVIOUS
    <3>2. /\ q \in HostCall /\ RowHeld(k) /\ TablesHeld(k) /\ StillFree(k) /\ host'[k] = q /\ host[k] # NoHost
          /\ q.b \in Bookings /\ q.want.tables \subseteq Tables /\ q.want \in BookWish
      BY <2>1, <2>3, <2>6, <3>1, HostFields DEF HostHolds, Inside, NoHost, HostCall, BookWish
    <3>3. q.b # op.b
      BY <1>1, <1>2, <1>3, <1>11, <3>1, <3>2 DEF RowHeld
    <3>4. booking'[q.b] = booking[q.b]
      BY <1>7, <3>2, <3>3
    <3>5. /\ RowAllows(q)' = RowAllows(q) /\ Held(q.b)' = Held(q.b) /\ ClaimsTables(q)' = ClaimsTables(q)
      BY <3>4 DEF RowAllows, Editable, Held, ClaimsTables, Reinstates
    <3>6. \A g \in Hosts : host'[g] = NoHost \/ host'[g] = host[g]
      BY <1>9 DEF BookRows
    <3>7. RowHeld(k)'
      BY <2>2, <3>1, <3>2, <3>4, <3>5, <3>6 DEF RowHeld
    <3>8. TablesHeld(k)'
      BY <2>2, <3>1, <3>2, <3>5 DEF TablesHeld
    <3>9. StillFree(k)'
      <4> SUFFICES ASSUME q.at = "write", q.kind # "seat", ClaimsTables(q), Clashes(q.b, q.want)' PROVE FALSE
        BY <3>2, <3>5 DEF StillFree
      <4>1. ~Clashes(q.b, q.want)
        BY <3>1, <3>2 DEF StillFree
      <4>2. PICK c \in Bookings \ {q.b} :
              /\ booking'[c].status \in BLOCKING /\ booking'[c].tables \cap q.want.tables # {}
              /\ booking'[c].start + MaxDuration > q.want.start
              /\ booking'[c].start < q.want.start + q.want.minutes
              /\ IntervalsOverlap(q.want, booking'[c])
        BY DEF Clashes, Candidates
      <4>3. c = op.b
        BY <1>7, <4>1, <4>2 DEF Clashes, Candidates
      <4>4. \A t \in q.want.tables : bookLock[t] = k
        BY <3>1, <3>2 DEF TablesHeld
      <4>5. ClaimsTables(op) => op.want.tables \cap q.want.tables = {}
        BY <1>8, <1>11, <4>4
      <4>6. StaysPut(op, n)
        BY <1>5, <1>7, <4>2, <4>3, <4>5 DEF TakesPlace
      <4>7. booking[c].tables \cap q.want.tables # {}
        BY <1>7, <4>2, <4>3, <4>5, <4>6 DEF StaysPut
      <4>8. booking[c].status \in BLOCKING /\ booking[c].start = booking'[c].start /\ booking[c].minutes = booking'[c].minutes
        BY <1>7, <4>2, <4>3, <4>6 DEF StaysPut
      <4>9. QED
        BY <4>1, <4>2, <4>7, <4>8 DEF Clashes, Candidates, IntervalsOverlap
    <3>10. QED
      BY <3>7, <3>8, <3>9
  <2>7. QED
    BY <2>1, <2>3, <2>4, <2>5, <2>6 DEF HostHolds
<1>12. HostHolds(h)'
  <2>1. host'[h] = NoHost
    BY <1>9 DEF BookRows
  <2>2. QED
    BY <1>9, <2>1 DEF HostHolds, Inside, OwnLocks, NoHost
<1>13. NoDoubleBooking'
  <2>1. ASSUME NEW c \in Bookings, c # op.b, n.status \in BLOCKING, booking[c].status \in BLOCKING,
               IntervalsOverlap(n, booking[c])
        PROVE  n.tables \cap booking[c].tables \subseteq n.walked \cup booking[c].walked
    <3>1. booking[c] \in BookingRow /\ booking[c].minutes \in 1 .. MaxDuration
      BY <2>1, BookingFields DEF BookRows, BLOCKING
    <3>2. CASE TakesPlace(op, n)
      <4>1. ~Clashes(op.b, op.want)
        BY <1>1, <1>2, <1>3, <3>2 DEF StillFree, TakesPlace
      <4>2. IntervalsOverlap(op.want, booking[c])
        BY <2>1, <3>2 DEF TakesPlace, IntervalsOverlap
      <4>3. booking[c].start + MaxDuration > op.want.start /\ booking[c].start < op.want.start + op.want.minutes
        BY <1>2, <3>1, <4>2 DEF IntervalsOverlap, BookingRow, BookWish
      <4>4. booking[c].tables \cap op.want.tables = {}
        BY <2>1, <4>1, <4>2, <4>3 DEF Clashes, Candidates
      <4>5. QED
        BY <3>2, <4>4 DEF TakesPlace
    <3>3. CASE StaysPut(op, n)
      <4>1. booking[op.b].status \in BLOCKING /\ IntervalsOverlap(booking[op.b], booking[c])
        BY <2>1, <3>3 DEF StaysPut, IntervalsOverlap
      <4>2. booking[op.b].tables \cap booking[c].tables \subseteq booking[op.b].walked \cup booking[c].walked
        BY <1>2, <2>1, <4>1 DEF NoDoubleBooking
      <4>3. booking[op.b].walked = {}
        <5>1. op.kind # "create"
          BY <1>1, <1>3, <4>1 DEF RowHeld, BLOCKING
        <5>2. booking[op.b].status # "SEATED"
          <6>1. RowAllows(op)
            BY <1>1, <1>3, <5>1 DEF RowHeld
          <6>2. op.kind \in {"update", "status", "seat"}
            BY <1>2, <5>1 DEF HostCall
          <6>3. op.kind = "status" => op.to \in TRANSITIONS[booking[op.b].status]
            BY <6>1 DEF RowAllows
          <6>4. op.kind \in {"update", "seat"} => booking[op.b].status # "SEATED"
            BY <6>1 DEF RowAllows, Editable
          <6>5. TRANSITIONS["SEATED"] = {}
            BY DEF TRANSITIONS
          <6>6. QED
            BY <6>2, <6>3, <6>4, <6>5
        <5>3. QED
          BY <1>2, <5>2 DEF BookRows
      <4>4. QED
        BY <3>3, <4>2, <4>3 DEF StaysPut
    <3>4. QED
      BY <1>5, <3>2, <3>3
  <2>2. SUFFICES ASSUME NEW b \in Bookings, NEW c \in Bookings, b # c,
                        {booking'[b].status, booking'[c].status} \subseteq BLOCKING,
                        IntervalsOverlap(booking'[b], booking'[c])
                 PROVE  booking'[b].tables \cap booking'[c].tables \subseteq booking'[b].walked \cup booking'[c].walked
    BY DEF NoDoubleBooking, IntervalsOverlap
  <2>3. CASE b = op.b
    BY <1>7, <2>1, <2>2, <2>3
  <2>4. CASE c = op.b
    <3>1. IntervalsOverlap(n, booking[b])
      BY <1>7, <2>2, <2>4 DEF IntervalsOverlap
    <3>2. QED
      BY <1>7, <2>1, <2>2, <2>4, <3>1
  <2>5. CASE b # op.b /\ c # op.b
    BY <1>7, <2>2, <2>5 DEF NoDoubleBooking
  <2>6. QED
    BY <2>3, <2>4, <2>5
<1>14. QED
  BY <1>10, <1>11, <1>12, <1>13

\* What a call knows depends on bookings, locks and calls only.
LEMMA SameHolds ==
    ASSUME NEW h \in Hosts, UNCHANGED <<booking, bookLock, host>>, HostHolds(h)
    PROVE  HostHolds(h)'
<1>1. \A op : /\ RowAllows(op)' = RowAllows(op) /\ ClaimsTables(op)' = ClaimsTables(op)
              /\ Clashes(op.b, op.want)' = Clashes(op.b, op.want) /\ Held(op.b)' = Held(op.b)
  BY DEF RowAllows, Editable, Held, ClaimsTables, Reinstates, Clashes, Candidates
<1>2. Inside(h)' = Inside(h) /\ OwnLocks(h)' = OwnLocks(h)
  BY DEF Inside, OwnLocks
<1>3. RowHeld(h) => RowHeld(h)'
  BY <1>1 DEF RowHeld
<1>4. TablesHeld(h) => TablesHeld(h)'
  BY <1>1 DEF TablesHeld
<1>5. StillFree(h) => StillFree(h)'
  BY <1>1 DEF StillFree
<1>6. QED
  BY <1>2, <1>3, <1>4, <1>5 DEF HostHolds

\* Calls, bookings and locks together are inductive.
LEMMA HostsKeep == BookInv /\ [BookNext]_bookVars => BookInv'
<1>1. ASSUME BookInv, NEW t \in Tables, OrderOnTable(t) PROVE BookInv'
  <2>1. UNCHANGED <<booking, bookLock, host>> /\ running' \subseteq Tables
    BY <1>1 DEF OrderOnTable, BookInv, BookRows
  <2>2. \A h \in Hosts : HostHolds(h)'
    BY <1>1, <2>1, SameHolds DEF BookInv
  <2>3. QED
    BY <1>1, <2>1, <2>2 DEF BookInv, BookRows, NoDoubleBooking
<1>2. ASSUME BookInv, UNCHANGED bookVars PROVE BookInv'
  <2>1. \A h \in Hosts : HostHolds(h)'
    BY <1>2, SameHolds DEF bookVars, BookInv
  <2>2. QED
    BY <1>2, <2>1 DEF bookVars, BookInv, BookRows, NoDoubleBooking
<1>3. ASSUME BookInv, NEW h \in Hosts, HostDies(h) PROVE BookInv'
  BY <1>3, HostCallDies DEF HostDies
<1>4. ASSUME BookInv, BookNext PROVE BookInv'
  BY <1>1, <1>3, <1>4, BookingBegins, RowLocked, TableLocked, TablesChecked, BookingWritten DEF BookNext
<1>5. QED
  BY <1>2, <1>4

\* Nothing is booked and nobody calls.
LEMMA BookStarts == BookInit => BookInv
BY ReservationAssumption DEF BookInit, BookInv, BookRows, BookingRow, BookingStatus, NotMade, NoHost, Nobody, HostHolds, Inside,
   OwnLocks, NoDoubleBooking, BLOCKING

\* No table is promised twice, and no calls wait for each other.
LEMMA BookPromises == BookInv => BookTypeOK /\ BookingsSound
<1> SUFFICES ASSUME BookInv PROVE BookTypeOK /\ BookingsSound
  OBVIOUS
<1> USE ReservationAssumption
<1>1. BookTypeOK
  BY HostFields DEF BookInv, BookRows, BookTypeOK, BookingRow, BookingStatus, TRANSITIONS
<1>2. ASSUME NEW C \in SUBSET Hosts, HostCycle(C) PROVE FALSE
  <2>1. ASSUME NEW x \in Hosts, host[x].at = "row" PROVE \A r \in Bookings \cup Tables : bookLock[r] # x
    BY <2>1 DEF BookInv, HostHolds, OwnLocks, Inside
  <2>2. ASSUME NEW x \in Hosts, host[x].at = "tables"
        PROVE  /\ Min(host[x].need) \in Tables /\ Min(host[x].need) \in Nat
               /\ \A t \in Tables : bookLock[t] = x => t < Min(host[x].need)
    <3>1. host[x] \in HostCall /\ TablesHeld(x)
      BY <2>2, HostFields DEF BookInv, NoHost, HostHolds, Inside
    <3>2. host[x].need \in SUBSET Tables /\ host[x].need # {} /\ host[x].need \in SUBSET Nat
      BY <2>2, <3>1 DEF TablesHeld, HostCall
    <3>3. Min(host[x].need) \in host[x].need
      BY <3>2, MinIn
    <3>4. QED
      BY <3>1, <3>2, <3>3 DEF TablesHeld
  \* whoever is waited for holds a row, so it waits for a table
  <2>3. ASSUME NEW x \in C
        PROVE  \E y \in C : /\ host[y].at = "tables"
                            /\ host[x].at = "tables" => bookLock[Min(host[x].need)] = y
    <3>1. PICK y \in C : HostWaitsFor(x, y)
      BY <1>2 DEF HostCycle
    <3>2. host[y].at = "row" \/ host[y].at = "tables"
      BY <1>2 DEF HostCycle, HostWaitsFor
    <3>3. CASE host[x].at = "row"
      <4>1. host[x] \in HostCall
        BY <3>3, HostFields DEF NoHost, BookInv
      <4>2. bookLock[host[x].b] = y /\ host[x].b \in Bookings
        BY <3>1, <3>3, <4>1 DEF HostWaitsFor, HostCall
      <4>3. QED
        BY <2>1, <3>2, <3>3, <4>2
    <3>4. CASE host[x].at = "tables"
      <4>1. bookLock[Min(host[x].need)] = y /\ Min(host[x].need) \in Tables
        BY <2>2, <3>1, <3>4 DEF HostWaitsFor
      <4>2. QED
        BY <2>1, <3>2, <3>4, <4>1
    <3>5. QED
      BY <3>1, <3>3, <3>4 DEF HostWaitsFor
  <2>4. PICK D \in SUBSET C : D = {x \in C : host[x].at = "tables"}
    OBVIOUS
  <2>5. D # {} /\ IsFiniteSet(D)
    <3>1. D # {}
      BY <1>2, <2>3, <2>4 DEF HostCycle
    <3>2. QED
      BY <3>1, <2>4, FS_Subset
  <2>6. PICK next : next = [x \in D |-> Min(host[x].need)]
    OBVIOUS
  <2>7. PICK N : N = {next[x] : x \in D}
    OBVIOUS
  <2>8. \A x \in D : next[x] \in Nat /\ \A t \in Tables : bookLock[t] = x => t < next[x]
    BY <2>2, <2>4, <2>6
  <2>9. N \in SUBSET Int /\ N # {} /\ IsFiniteSet(N)
    <3>1. next \in Surjection(D, N)
      BY <2>6, <2>7 DEF Surjection
    <3>2. IsFiniteSet(N)
      BY <2>5, <3>1, FS_Surjection
    <3>3. QED
      BY <2>5, <2>7, <2>8, <3>2
  <2>10. PICK x \in D : next[x] = Max(N)
    <3>1. Max(N) \in N
      BY <2>9, GreatestOf
    <3>2. QED
      BY <2>7, <3>1
  <2>11. \A n \in N : n <= Max(N)
    BY <2>9, GreatestOf
  <2>12. PICK y \in D : bookLock[next[x]] = y
    BY <2>3, <2>4, <2>6
  <2>13. next[x] < next[y] /\ next[y] <= next[x]
    <3>1. next[x] \in Tables
      BY <2>2, <2>4, <2>6
    <3>2. next[y] <= next[x]
      BY <2>7, <2>10, <2>11
    <3>3. QED
      BY <2>8, <2>12, <3>1, <3>2
  <2>14. QED
    BY <2>8, <2>13
<1>3. QED
  BY <1>1, <1>2 DEF BookInv, BookingsSound, HostsDoNotDeadlock

(* Bills that are split. *)

\* The bill on the till.
TicketOf(price, units, service, how, discount, checks, cuts) ==
    [price |-> price, units |-> units, service |-> service, how |-> how,
     discount |-> discount, checks |-> checks, cuts |-> cuts]
MoneyInv ==
    \E price \in PriceLists, units \in UnitLists, service \in ServiceRules, how \in {"whole", "EQUAL", "ITEMS"},
       discount \in Discounts, n \in Nat : \E checks, cuts :
        /\ ticket = TicketOf(price, units, service, how, discount, checks, cuts)
        /\ n <= MaxParts /\ Len(checks) = n /\ Len(cuts) = n

\* A function on 1 .. n is a sequence of n.
LEMMA LengthOf ==
    ASSUME NEW n \in Nat, NEW f, f = [i \in 1 .. n |-> f[i]]
    PROVE  Len(f) = n /\ DOMAIN f = 1 .. n
<1>1. PICK S : S = {f[i] : i \in 1 .. n}
  OBVIOUS
<1>2. f \in [1 .. n -> S]
  BY <1>1
<1>3. QED
  BY <1>2

\* As many discounts are allocated as there are weights.
LEMMA AllocationLength ==
    ASSUME NEW total, NEW weights, NEW n \in Nat, Len(weights) = n
    PROVE  Len(AllocatePaise(total, weights)) = n
<1>1. PICK a : a = AllocatePaise(total, weights)
  OBVIOUS
<1>2. a = [i \in 1 .. n |-> a[i]]
  BY <1>1 DEF AllocatePaise
<1>3. QED
  BY <1>1, <1>2, LengthOf

\* A split keeps the bill and has a discount for each check.
LEMMA SplitKeeps ==
    ASSUME MoneyInv, NEW how \in {"EQUAL", "ITEMS"}, NEW n \in 2 .. MaxParts, NEW checks, checks = [c \in 1 .. n |-> checks[c]],
           NEW discount \in Discounts, SplitInto(how, checks, discount)
    PROVE  MoneyInv'
<1>1. PICK price \in PriceLists, units \in UnitLists, service \in ServiceRules, how0 \in {"whole", "EQUAL", "ITEMS"},
           discount0 \in Discounts : \E checks0, cuts0 :
              ticket = TicketOf(price, units, service, how0, discount0, checks0, cuts0)
  BY DEF MoneyInv
<1>2. n \in Nat /\ n <= MaxParts
  BY MoneyAssumption
<1>3. PICK subtotals : subtotals = [c \in DOMAIN checks |-> TotalOf(checks[c])]
  OBVIOUS
<1>4. Len(checks) = n /\ DOMAIN checks = 1 .. n
  BY <1>2, LengthOf
<1>5. subtotals = [c \in 1 .. n |-> subtotals[c]]
  BY <1>3, <1>4
<1>6. Len(subtotals) = n
  BY <1>2, <1>5, LengthOf
<1>7. PICK cuts : cuts = AllocatePaise(Min({discount, TotalOf(subtotals)}), subtotals)
  OBVIOUS
<1>8. Len(cuts) = n
  BY <1>2, <1>6, <1>7, AllocationLength
<1>9. ticket' = [ticket EXCEPT !.how = how, !.checks = checks, !.discount = discount, !.cuts = cuts]
  BY <1>3, <1>7 DEF SplitInto
<1>10. ticket' = TicketOf(price, units, service, how, discount, checks, cuts)
  <2>1. PICK checks0, cuts0 : ticket = TicketOf(price, units, service, how0, discount0, checks0, cuts0)
    BY <1>1
  <2>2. QED
    BY <2>1, <1>9 DEF TicketOf
<1>11. QED
  BY <1>2, <1>4, <1>8, <1>10 DEF MoneyInv

\* A bill that is rung up has no checks yet.
LEMMA RungKeeps ==
    ASSUME NEW price \in PriceLists, NEW units \in UnitLists, NEW service \in ServiceRules
    PROVE  \E how \in {"whole", "EQUAL", "ITEMS"}, discount \in Discounts, n \in Nat : \E checks, cuts :
              /\ Rung(price, units, service) = TicketOf(price, units, service, how, discount, checks, cuts)
              /\ n <= MaxParts /\ Len(checks) = n /\ Len(cuts) = n
<1>1. Rung(price, units, service) = TicketOf(price, units, service, "whole", 0, <<>>, <<>>)
  BY DEF Rung, TicketOf
<1>2. Len(<<>>) = 0 /\ 0 <= MaxParts /\ 0 \in Discounts
  BY MoneyAssumption
<1>3. QED
  BY <1>1, <1>2

\* A split keeps the bill it splits, and gives a discount to each of its checks.
LEMMA MoneyKeeps == MoneyInv /\ [MoneyNext]_ticket => MoneyInv'
<1>1. ASSUME MoneyInv, UNCHANGED ticket PROVE MoneyInv'
  BY <1>1 DEF MoneyInv
<1>2. ASSUME MoneyInv, NEW price \in PriceLists, NEW units \in UnitLists, NEW service \in ServiceRules,
             RingUp(price, units, service)
      PROVE  MoneyInv'
  <2>1. ticket' = Rung(price, units, service)
    BY <1>2 DEF RingUp
  <2>2. QED
    BY <2>1, RungKeeps DEF MoneyInv
<1>3. ASSUME MoneyInv, NEW n \in 2 .. MaxParts, NEW discount \in Discounts, SplitEqual(n, discount) PROVE MoneyInv'
  <2>1. PICK checks : checks = SplitLinesEqually(LinePaise, n)
    OBVIOUS
  <2>2. checks = [c \in 1 .. n |-> checks[c]]
    BY <2>1 DEF SplitLinesEqually
  <2>3. SplitInto("EQUAL", checks, discount)
    BY <1>3, <2>1 DEF SplitEqual
  <2>4. QED
    BY <1>3, <2>2, <2>3, SplitKeeps
<1>4. ASSUME MoneyInv, NEW n \in 2 .. MaxParts, NEW discount \in Discounts, SplitItems(n, discount) PROVE MoneyInv'
  <2>1. PICK a \in Assignments(n) :
            SplitInto("ITEMS", [c \in 1 .. n |-> [l \in LinesOf |-> ticket.price[l] * a[c][l]]], discount)
    BY <1>4 DEF SplitItems
  <2>2. PICK checks : checks = [c \in 1 .. n |-> [l \in LinesOf |-> ticket.price[l] * a[c][l]]]
    OBVIOUS
  <2>3. checks = [c \in 1 .. n |-> checks[c]]
    BY <2>2
  <2>4. SplitInto("ITEMS", checks, discount)
    BY <2>1, <2>2
  <2>5. QED
    BY <1>4, <2>3, <2>4, SplitKeeps
<1>5. QED
  BY <1>1, <1>2, <1>3, <1>4 DEF MoneyNext

\* The first bill has prices, a service rule and no units.
LEMMA MoneyStarts == MoneyInit => MoneyInv
<1> SUFFICES ASSUME MoneyInit PROVE MoneyInv
  OBVIOUS
<1>1. Min(Prices) \in Prices
  BY MoneyAssumption, MinIn
<1>2. PICK service \in ServiceRules : service = CHOOSE s \in ServiceRules : TRUE
  BY MoneyAssumption, Zenon
<1>3. PICK price \in PriceLists : price = [l \in LinesOf |-> Min(Prices)]
  BY <1>1 DEF PriceLists
<1>4. 0 \in 0 .. MaxUnits
  BY MoneyAssumption
<1>5. PICK units \in UnitLists : units = [l \in LinesOf |-> 0]
  BY <1>4, Zenon DEF UnitLists
<1>6. ticket = Rung(price, units, service)
  BY <1>2, <1>3, <1>5 DEF MoneyInit
<1>7. QED
  BY <1>6, RungKeeps DEF MoneyInv

\* So the bill on the till is of the types the code gives it.
LEMMA MoneyTyped == MoneyInv => MoneyTypeOK
<1> SUFFICES ASSUME MoneyInv PROVE MoneyTypeOK
  OBVIOUS
<1>1. PICK price \in PriceLists, units \in UnitLists, service \in ServiceRules, how \in {"whole", "EQUAL", "ITEMS"},
           discount \in Discounts, n \in Nat : \E checks, cuts :
        /\ ticket = TicketOf(price, units, service, how, discount, checks, cuts)
        /\ n <= MaxParts /\ Len(checks) = n /\ Len(cuts) = n
  BY DEF MoneyInv
<1>2. PICK checks, cuts :
        /\ ticket = TicketOf(price, units, service, how, discount, checks, cuts)
        /\ n <= MaxParts /\ Len(checks) = n /\ Len(cuts) = n
  BY <1>1
<1>3. /\ ticket.price = price /\ ticket.units = units /\ ticket.service = service /\ ticket.how = how
      /\ ticket.checks = checks /\ ticket.cuts = cuts /\ ticket.discount = discount
  BY <1>2 DEF TicketOf
<1>4. QED
  BY <1>2, <1>3 DEF MoneyTypeOK

\* The fold of a sequence by addition is its total.
LEMMA FoldTotal ==
    ASSUME NEW s, IsFiniteSet(DOMAIN s), DOMAIN s \in SUBSET Int, \A i \in DOMAIN s : s[i] \in Int
    PROVE  FoldLeft(+, 0, s) = Total(DOMAIN s, s)
<1> DEFINE D == DOMAIN s
           Folds(g) == g = [T \in SUBSET D |-> IF T = {} THEN 0 ELSE g[T \ {Max(T)}] + s[Max(T)]]
<1>1. FoldLeft(+, 0, s) = (CHOOSE g : Folds(g))[D]
  BY DEF FoldLeft, MapThenFoldSet
<1>2. \A T \in SUBSET D : IsFiniteSet(T) /\ Total(T, s) \in Int /\ (T # {} => Max(T) \in T)
  <2>1. ASSUME NEW T \in SUBSET D PROVE IsFiniteSet(T) /\ Total(T, s) \in Int /\ (T # {} => Max(T) \in T)
    <3>1. IsFiniteSet(T) /\ T \in SUBSET Int
      BY FS_Subset
    <3>2. QED
      BY <3>1, TotalType, GreatestOf
  <2>2. QED
    BY <2>1
<1>3. PICK f : f = [T \in SUBSET D |-> Total(T, s)]
  OBVIOUS
<1>4. Folds(f)
  <2>1. ASSUME NEW T \in SUBSET D PROVE Total(T, s) = IF T = {} THEN 0 ELSE f[T \ {Max(T)}] + s[Max(T)]
    <3>1. CASE T = {}
      BY <1>2, <3>1, TotalStep
    <3>2. CASE T # {}
      <4>1. Max(T) \in T
        BY <1>2, <3>2
      <4>2. Total(T, s) = s[Max(T)] + Total(T \ {Max(T)}, s)
        BY <1>2, <4>1, TotalRemove
      <4>3. f[T \ {Max(T)}] = Total(T \ {Max(T)}, s) /\ T \ {Max(T)} \in SUBSET D
        BY <1>3
      <4>4. QED
        BY <1>2, <3>2, <4>1, <4>2, <4>3
    <3>3. QED
      BY <3>1, <3>2
  <2>2. [T \in SUBSET D |-> Total(T, s)] = [T \in SUBSET D |-> IF T = {} THEN 0 ELSE f[T \ {Max(T)}] + s[Max(T)]]
    BY <2>1
  <2>3. QED
    BY <1>3, <2>2
<1>5. ASSUME NEW g, Folds(g) PROVE \A T \in SUBSET D : g[T] = Total(T, s)
  <2>1. PICK G : G = {T \in SUBSET D : g[T] = Total(T, s)}
    OBVIOUS
  <2>2. ASSUME NEW T \in SUBSET D, \A x \in T : T \ {x} \in G PROVE T \in G
    <3>1. g[T] = IF T = {} THEN 0 ELSE g[T \ {Max(T)}] + s[Max(T)]
      BY <1>5
    <3>2. f[T] = IF T = {} THEN 0 ELSE f[T \ {Max(T)}] + s[Max(T)]
      BY <1>4
    <3>3. T # {} => T \ {Max(T)} \in G
      BY <1>2, <2>2
    <3>4. g[T] = f[T]
      BY <1>3, <2>1, <3>1, <3>2, <3>3
    <3>5. QED
      BY <1>3, <2>1, <3>4
  <2>3. \A T \in SUBSET D : (\A x \in T : T \ {x} \in G) => T \in G
    BY <2>2
  <2>4. \A T \in SUBSET D : T \in G
    BY <2>3, SubsetInduction
  <2>5. QED
    BY <2>1, <2>4
<1> HIDE DEF Folds
<1>6. PICK g : g = CHOOSE h : Folds(h)
  OBVIOUS
<1>7. Folds(g)
  BY <1>4, <1>6
<1>8. QED
  BY <1>1, <1>5, <1>6, <1>7

\* What the paise on the lines come to.
LEMMA TotalOfIs ==
    ASSUME NEW n \in Nat, NEW f, f = [i \in 1 .. n |-> f[i]], \A i \in 1 .. n : f[i] \in Int
    PROVE  TotalOf(f) = Total(1 .. n, f)
<1>1. DOMAIN f = 1 .. n
  BY LengthOf
<1>2. IsFiniteSet(DOMAIN f) /\ DOMAIN f \in SUBSET Int /\ \A i \in DOMAIN f : f[i] \in Int
  BY <1>1, IntervalFinite
<1>3. FoldLeft(+, 0, f) = Total(DOMAIN f, f)
  BY <1>2, FoldTotal
<1>4. QED
  BY <1>1, <1>3 DEF TotalOf

\* whole rounds and leftovers of each line
Rounds(paise, p) == [l \in DOMAIN paise |-> paise[l] \div p]
Leftovers(paise, p) == [l \in DOMAIN paise |-> paise[l] % p]

\* The leftovers go on where those of the lines before stopped.
LEMMA OffsetIs ==
    ASSUME NEW n \in Nat, NEW paise \in [1 .. n -> Nat], NEW p \in Nat \ {0}, NEW l \in 1 .. n
    PROVE  Offset(paise, p, l) = Total(1 .. l - 1, Leftovers(paise, p)) % p
<1>1. PICK f : f = [k \in 1 .. l - 1 |-> paise[k] % p]
  OBVIOUS
<1>2. l - 1 \in Nat /\ 1 .. l - 1 \in SUBSET (1 .. n) /\ IsFiniteSet(1 .. l - 1)
  BY FS_Interval
<1>3. \A k \in 1 .. l - 1 : f[k] \in Int /\ Leftovers(paise, p)[k] = f[k]
  <2>1. ASSUME NEW k \in 1 .. l - 1 PROVE paise[k] % p \in Int /\ Leftovers(paise, p)[k] = paise[k] % p
    <3>1. paise[k] \in Nat /\ k \in DOMAIN paise
      BY <1>2
    <3>2. QED
      BY <3>1, Division DEF Leftovers
  <2>2. QED
    BY <1>1, <2>1
<1>4. TotalOf(f) = Total(1 .. l - 1, f)
  <2>1. f = [k \in 1 .. l - 1 |-> f[k]]
    BY <1>1
  <2>2. QED
    BY <1>2, <1>3, <2>1, TotalOfIs
<1>5. Total(1 .. l - 1, f) = Total(1 .. l - 1, Leftovers(paise, p))
  BY <1>2, <1>3, TotalSame
<1>6. QED
  BY <1>1, <1>4, <1>5 DEF Offset

\* A check's part of the bill: its share of the whole rounds, and the leftover paise
\* of all lines as if they were handed round one after the other.
LEMMA EqualShare ==
    ASSUME NEW n \in Nat, NEW paise \in [1 .. n -> Nat], NEW p \in Nat \ {0}, NEW c \in 1 .. p,
           NEW check, check = SplitLinesEqually(paise, p)[c],
           NEW base, base = Rounds(paise, p), NEW rem, rem = Leftovers(paise, p)
    PROVE  /\ check \in [1 .. n -> Nat]
           /\ Total(1 .. n, check) = Total(1 .. n, base) + Turns(Total(1 .. n, rem), p, c)
<1>1. \A l \in 1 .. n : base[l] \in Nat /\ rem[l] \in 0 .. p - 1
  <2>1. ASSUME NEW l \in 1 .. n PROVE paise[l] \div p \in Nat /\ paise[l] % p \in 0 .. p - 1
    BY Division
  <2>2. QED
    BY <2>1 DEF Rounds, Leftovers
<1>2. check = [l \in 1 .. n |->
                 base[l] + (IF (c - 1 + p - Offset(paise, p, l)) % p < rem[l] THEN 1 ELSE 0)]
  BY Zenon DEF SplitLinesEqually, Rounds, Leftovers
<1>3. \A l \in 1 .. n :
        check[l] = base[l] + (IF (c - 1 + p - (Total(1 .. l - 1, rem) % p)) % p < rem[l] THEN 1 ELSE 0)
  BY <1>2, OffsetIs
<1>4. check \in [1 .. n -> Nat]
  <2>1. \A l \in 1 .. n : check[l] \in Nat
    <3>1. \A b \in Nat, t \in {0, 1} : b + t \in Nat
      OBVIOUS
    <3>2. QED
      BY <1>1, <1>3, <3>1
  <2>2. QED
    BY <1>2, <2>1
<1>5. PICK G : G = {k \in Nat : k <= n => Total(1 .. k, check) = Total(1 .. k, base) + Turns(Total(1 .. k, rem), p, c)}
  OBVIOUS
<1>6. 0 \in G
  <2>1. 1 .. 0 = {} /\ IsFiniteSet({})
    BY FS_EmptySet
  <2>2. Total(1 .. 0, check) = 0
    BY <2>1, TotalStep
  <2>3. Total(1 .. 0, base) = 0
    BY <2>1, TotalStep
  <2>4. Total(1 .. 0, rem) = 0
    BY <2>1, TotalStep
  <2>5. Turns(0, p, c) = 0
    BY NoTurns
  <2>6. QED
    BY <1>5, <2>2, <2>3, <2>4, <2>5
<1>7. ASSUME NEW k \in Nat, k \in G PROVE k + 1 \in G
  <2> SUFFICES ASSUME k + 1 <= n
               PROVE  Total(1 .. k + 1, check) = Total(1 .. k + 1, base) + Turns(Total(1 .. k + 1, rem), p, c)
    BY <1>5
  <2>1. k + 1 \in 1 .. n /\ (k + 1) - 1 = k /\ 1 .. k + 1 \in SUBSET (1 .. n) /\ 1 .. k \in SUBSET (1 .. n)
    OBVIOUS
  <2>2. Total(1 .. k, check) \in Int /\ Total(1 .. k + 1, check) = Total(1 .. k, check) + check[k + 1]
    <3>1. \A l \in 1 .. k + 1 : check[l] \in Int
      BY <1>4, <2>1
    <3>2. QED
      BY <3>1, TotalUpTo
  <2>3. Total(1 .. k, base) \in Int /\ Total(1 .. k + 1, base) = Total(1 .. k, base) + base[k + 1]
    <3>1. \A l \in 1 .. k + 1 : base[l] \in Int
      BY <1>1, <2>1
    <3>2. QED
      BY <3>1, TotalUpTo
  <2>4. Total(1 .. k, rem) \in Nat /\ Total(1 .. k + 1, rem) = Total(1 .. k, rem) + rem[k + 1]
    <3>1. \A l \in 1 .. k + 1 : rem[l] \in Int /\ rem[l] \in Nat
      BY <1>1, <2>1
    <3>2. IsFiniteSet(1 .. k) /\ \A l \in 1 .. k : rem[l] \in Nat
      BY <3>1, IntervalFinite
    <3>3. QED
      BY <3>1, <3>2, TotalUpTo, TotalType
  <2>5. Total(1 .. k, check) = Total(1 .. k, base) + Turns(Total(1 .. k, rem), p, c)
    <3>1. k <= n
      BY <2>1
    <3>2. QED
      BY <1>5, <1>7, <3>1
  <2>6. check[k + 1] = base[k + 1] + (IF (c - 1 + p - (Total(1 .. k, rem) % p)) % p < rem[k + 1] THEN 1 ELSE 0)
    BY <1>3, <2>1
  <2>7. PICK t \in {0, 1} : t = IF (c - 1 + p - (Total(1 .. k, rem) % p)) % p < rem[k + 1] THEN 1 ELSE 0
    OBVIOUS
  <2>8. Turns(Total(1 .. k, rem) + rem[k + 1], p, c) = Turns(Total(1 .. k, rem), p, c) + t
    <3>1. rem[k + 1] \in 0 .. p - 1
      BY <1>1, <2>1
    <3>2. QED
      BY <2>4, <2>7, <3>1, TurnsGoOn
  <2>9. base[k + 1] \in Int /\ Turns(Total(1 .. k, rem), p, c) \in Int
    <3>1. Total(1 .. k, rem) + p - c \in Nat
      BY <2>4
    <3>2. (Total(1 .. k, rem) + p - c) \div p \in Nat
      BY <3>1, Division
    <3>3. QED
      BY <1>1, <2>1, <3>2 DEF Turns
  <2>10. check[k + 1] = base[k + 1] + t
    BY <2>6, <2>7
  <2>11. QED
    BY <2>2, <2>3, <2>4, <2>5, <2>8, <2>9, <2>10
<1>8. n \in G
  BY <1>6, <1>7, CountingUp
<1>9. QED
  BY <1>4, <1>5, <1>8

\* A bill is its whole rounds and its leftovers.
LEMMA RoundsAndLeftovers ==
    ASSUME NEW n \in Nat, NEW paise \in [1 .. n -> Nat], NEW p \in Nat \ {0}
    PROVE  /\ Total(1 .. n, Rounds(paise, p)) \in Nat /\ Total(1 .. n, Leftovers(paise, p)) \in Nat
           /\ Total(1 .. n, paise) = p * Total(1 .. n, Rounds(paise, p)) + Total(1 .. n, Leftovers(paise, p))
<1>1. PICK base : base = Rounds(paise, p)
  OBVIOUS
<1>2. PICK rem : rem = Leftovers(paise, p)
  OBVIOUS
<1>3. PICK times : times = [l \in 1 .. n |-> p * base[l]]
  OBVIOUS
<1>4. \A l \in 1 .. n : base[l] \in Nat /\ rem[l] \in Nat /\ paise[l] = p * base[l] + rem[l]
  <2>1. ASSUME NEW l \in 1 .. n
        PROVE  paise[l] \div p \in Nat /\ paise[l] % p \in Nat /\ paise[l] = p * (paise[l] \div p) + (paise[l] % p)
    <3>1. PICK x \in Nat : x = paise[l]
      OBVIOUS
    <3>2. x \div p \in Nat /\ x % p \in Nat /\ x = p * (x \div p) + (x % p)
      <4>1. \A y \in 0 .. p - 1 : y \in Nat
        OBVIOUS
      <4>2. QED
        BY <4>1, Division
    <3>3. QED
      BY <3>1, <3>2
  <2>2. QED
    BY <1>1, <1>2, <2>1 DEF Rounds, Leftovers
<1>5. IsFiniteSet(1 .. n)
  BY IntervalFinite
<1>6. \A l \in 1 .. n : times[l] \in Int /\ base[l] \in Int /\ times[l] = p * base[l]
                       /\ rem[l] \in Int /\ paise[l] = times[l] + rem[l]
  <2>1. \A b \in Nat : p * b \in Int
    OBVIOUS
  <2>2. QED
    BY <1>3, <1>4, <2>1
<1>7. Total(1 .. n, times) = p * Total(1 .. n, base)
  BY <1>5, <1>6, TotalTimes
<1>8. Total(1 .. n, paise) = Total(1 .. n, times) + Total(1 .. n, rem)
  <2>1. \A l \in 1 .. n : times[l] \in Int /\ rem[l] \in Int /\ paise[l] = times[l] + rem[l]
    BY <1>6
  <2>2. QED
    BY <1>5, <2>1, TotalAdd
<1>9. Total(1 .. n, base) \in Nat /\ Total(1 .. n, rem) \in Nat
  BY <1>4, <1>5, TotalType
<1>10. QED
  BY <1>1, <1>2, <1>7, <1>8, <1>9

\* the subtotals of p checks that add up to a bill, and that hardly differ
AddUpTo(p, sums, bill) == sums \in [1 .. p -> Nat] /\ Total(1 .. p, sums) = bill
WithinAPaisa(p, sums) == \A c, d \in 1 .. p : sums[c] <= sums[d] + 1

\* splitLinesEqually: the checks add up to the bill, and none is more than a paisa
\* above another.
LEMMA EqualSplitExact ==
    ASSUME NEW n \in Nat, NEW paise \in [1 .. n -> Nat], NEW p \in Nat \ {0}, NEW sums,
           sums = [c \in 1 .. p |-> TotalOf(SplitLinesEqually(paise, p)[c])]
    PROVE  AddUpTo(p, sums, TotalOf(paise)) /\ WithinAPaisa(p, sums)
<1>1. PICK b \in Nat : b = Total(1 .. n, Rounds(paise, p))
  BY RoundsAndLeftovers
<1>2. PICK r \in Nat : r = Total(1 .. n, Leftovers(paise, p))
  BY RoundsAndLeftovers
<1>3. TotalOf(paise) = p * b + r
  <2>1. paise = [l \in 1 .. n |-> paise[l]] /\ \A l \in 1 .. n : paise[l] \in Int
    OBVIOUS
  <2>2. TotalOf(paise) = Total(1 .. n, paise)
    BY <2>1, TotalOfIs
  <2>3. QED
    BY <1>1, <1>2, <2>2, RoundsAndLeftovers
<1>4. ASSUME NEW c \in 1 .. p PROVE sums[c] = b + Turns(r, p, c)
  <2>1. PICK check : check = SplitLinesEqually(paise, p)[c]
    OBVIOUS
  <2>2. check \in [1 .. n -> Nat] /\ Total(1 .. n, check) = b + Turns(r, p, c)
    BY <1>1, <1>2, <2>1, EqualShare
  <2>3. check = [l \in 1 .. n |-> check[l]] /\ \A l \in 1 .. n : check[l] \in Int
    BY <2>2
  <2>4. TotalOf(check) = Total(1 .. n, check)
    BY <2>3, TotalOfIs
  <2>5. QED
    BY <2>1, <2>2, <2>4
<1>5. PICK q \in Nat : q = r \div p
  BY Division
<1>6. ASSUME NEW c \in 1 .. p PROVE Turns(r, p, c) \in {q, q + 1}
  <2>1. PICK t \in {0, 1} : t = IF c <= r % p THEN 1 ELSE 0
    OBVIOUS
  <2>2. Turns(r, p, c) = q + t
    BY <1>5, <2>1, TurnsOf
  <2>3. QED
    BY <2>2
<1>7. sums \in [1 .. p -> Nat] /\ \A c, d \in 1 .. p : sums[c] <= sums[d] + 1
  <2>1. \A c \in 1 .. p : sums[c] \in {b + q, b + q + 1}
    BY <1>4, <1>6
  <2>2. b + q \in Nat /\ \A x, y \in {b + q, b + q + 1} : x \in Nat /\ x <= y + 1
    OBVIOUS
  <2>3. QED
    BY <2>1, <2>2
<1>8. Total(1 .. p, sums) = p * b + r
  <2>1. PICK same : same = [c \in 1 .. p |-> b]
    OBVIOUS
  <2>2. PICK turns : turns = [c \in 1 .. p |-> Turns(r, p, c)]
    OBVIOUS
  <2>3. \A c \in 1 .. p : same[c] = b /\ same[c] \in Int /\ turns[c] \in Int /\ sums[c] = same[c] + turns[c]
    <3>1. q \in Int /\ q + 1 \in Int
      OBVIOUS
    <3>2. QED
      BY <1>4, <1>6, <2>1, <2>2, <3>1
  <2>4. IsFiniteSet(1 .. p) /\ Cardinality(1 .. p) = p
    BY IntervalFinite
  <2>5. Total(1 .. p, sums) = Total(1 .. p, same) + Total(1 .. p, turns)
    BY <2>3, <2>4, TotalAdd
  <2>6. Total(1 .. p, turns) = r
    <3>1. \A c \in 1 .. p : turns[c] = Turns(r, p, c)
      BY <2>2
    <3>2. QED
      BY <3>1, TurnsAddUp
  <2>7. Total(1 .. p, same) = b * Cardinality(1 .. p)
    BY <2>3, <2>4, TotalConstant
  <2>8. b * p = p * b
    OBVIOUS
  <2>9. QED
    BY <2>4, <2>5, <2>6, <2>7, <2>8
<1>9. QED
  BY <1>3, <1>7, <1>8 DEF AddUpTo, WithinAPaisa

\* the paise of each line on p checks add up to those of the bill
ByLine(n, p, checks, paise) ==
    /\ \A c \in 1 .. p : checks[c] \in [1 .. n -> Nat]
    /\ \A l \in 1 .. n : Total(1 .. p, [c \in 1 .. p |-> checks[c][l]]) = paise[l]

\* A check's part of one line: its share of the whole rounds, and a leftover paisa in turn.
LEMMA LineShare ==
    ASSUME NEW n \in Nat, NEW paise \in [1 .. n -> Nat], NEW p \in Nat \ {0}, NEW l \in 1 .. n, NEW c \in 1 .. p
    PROVE  /\ paise[l] % p \in 0 .. p - 1 /\ Total(1 .. l - 1, Leftovers(paise, p)) \in Nat
           /\ SplitLinesEqually(paise, p)[c][l] = paise[l] \div p
                  + (IF (c - 1 + p - (Total(1 .. l - 1, Leftovers(paise, p)) % p)) % p < paise[l] % p THEN 1 ELSE 0)
<1>1. paise[l] % p \in 0 .. p - 1
  BY Division
<1>2. Total(1 .. l - 1, Leftovers(paise, p)) \in Nat
  <2>1. PICK S : S = 1 .. l - 1 /\ S \in SUBSET (1 .. n) /\ IsFiniteSet(S)
    <3>1. l - 1 \in Nat /\ 1 .. l - 1 \in SUBSET (1 .. n)
      OBVIOUS
    <3>2. QED
      BY <3>1, IntervalFinite
  <2>2. \A k \in S : Leftovers(paise, p)[k] \in Nat
    <3>1. ASSUME NEW k \in S PROVE paise[k] % p \in Nat
      <4>1. paise[k] \in Nat /\ \A x \in 0 .. p - 1 : x \in Nat
        BY <2>1
      <4>2. QED
        BY <4>1, Division
    <3>2. QED
      BY <2>1, <3>1 DEF Leftovers
  <2>3. QED
    BY <2>1, <2>2, TotalType
<1>3. SplitLinesEqually(paise, p)[c][l] = paise[l] \div p
          + (IF (c - 1 + p - Offset(paise, p, l)) % p < paise[l] % p THEN 1 ELSE 0)
  BY DEF SplitLinesEqually
<1>4. QED
  BY <1>1, <1>2, <1>3, OffsetIs

\* splitLinesEqually: the checks add up to the bill on each line.
LEMMA EqualByLine ==
    ASSUME NEW n \in Nat, NEW paise \in [1 .. n -> Nat], NEW p \in Nat \ {0}, NEW checks,
           checks = SplitLinesEqually(paise, p)
    PROVE  ByLine(n, p, checks, paise)
<1>1. ASSUME NEW c \in 1 .. p PROVE checks[c] \in [1 .. n -> Nat]
  BY EqualShare
<1>2. ASSUME NEW l \in 1 .. n PROVE Total(1 .. p, [c \in 1 .. p |-> checks[c][l]]) = paise[l]
  <2>1. PICK r \in 0 .. p - 1, q \in Nat : r = paise[l] % p /\ q = paise[l] \div p /\ paise[l] = p * q + r
    <3>1. PICK x \in Nat : x = paise[l]
      OBVIOUS
    <3>2. x % p \in 0 .. p - 1 /\ x \div p \in Nat /\ x = p * (x \div p) + (x % p)
      BY Division
    <3>3. QED
      BY <3>1, <3>2
  <2>2. PICK N : N = Total(1 .. l - 1, Leftovers(paise, p))
    OBVIOUS
  <2>3. PICK col : col = [c \in 1 .. p |-> checks[c][l]]
    OBVIOUS
  <2>4. PICK same : same = [c \in 1 .. p |-> q]
    OBVIOUS
  <2>5. PICK extra : extra = [c \in 1 .. p |-> IF (c - 1 + p - (N % p)) % p < r THEN 1 ELSE 0]
    OBVIOUS
  <2>6. PICK I : I = 1 .. p /\ IsFiniteSet(I) /\ Cardinality(I) = p
    BY IntervalFinite
  <2>7. N \in Nat
    <3>1. 1 \in 1 .. p
      OBVIOUS
    <3>2. QED
      BY <2>2, <3>1, LineShare
  <2>8. \A c \in I : same[c] \in Int /\ extra[c] \in Int /\ col[c] = same[c] + extra[c] /\ same[c] = q
    <3>1. ASSUME NEW c \in I PROVE col[c] = q + extra[c]
      <4>1. c \in 1 .. p
        BY <2>6
      <4>2. SplitLinesEqually(paise, p)[c][l] = paise[l] \div p
                  + (IF (c - 1 + p - (Total(1 .. l - 1, Leftovers(paise, p)) % p)) % p < paise[l] % p THEN 1 ELSE 0)
        BY <4>1, LineShare, Zenon
      <4>3. checks[c][l] = q + (IF (c - 1 + p - (N % p)) % p < r THEN 1 ELSE 0)
        BY <2>1, <2>2, <4>2, Zenon
      <4>4. QED
        BY <2>3, <2>5, <2>6, <4>3
    <3>2. QED
      BY <2>4, <2>5, <2>6, <3>1
  <2>9. Total(I, col) = Total(I, same) + Total(I, extra)
    BY <2>6, <2>8, TotalAdd
  <2>10. Total(I, same) = q * p
    <3>1. q \in Int /\ \A c \in I : same[c] = q
      BY <2>8
    <3>2. Total(I, same) = q * Cardinality(I)
      BY <2>6, <3>1, TotalConstant, Zenon
    <3>3. QED
      BY <2>6, <3>2, Zenon
  <2>11. Total(I, extra) = r
    <3>1. PICK before : before = [c \in I |-> Turns(N, p, c)]
      OBVIOUS
    <3>2. PICK after : after = [c \in I |-> Turns(N + r, p, c)]
      OBVIOUS
    <3>3. \A c \in I : after[c] = before[c] + extra[c]
      BY <2>5, <2>6, <2>7, <3>1, <3>2, TurnsGoOn
    <3>4. \A c \in I : before[c] \in Int /\ extra[c] \in Int
      <4>1. ASSUME NEW c \in I PROVE Turns(N, p, c) \in Int
        <5>1. N + p - c \in Nat
          BY <2>6, <2>7
        <5>2. QED
          BY <5>1, Division DEF Turns
      <4>2. QED
        BY <2>8, <3>1, <4>1
    <3>5. Total(I, after) = Total(I, before) + Total(I, extra)
      BY <2>6, <3>3, <3>4, TotalAdd
    <3>6. Total(I, before) = N
      BY <2>6, <2>7, <3>1, TurnsAddUp
    <3>7. Total(I, after) = N + r
      <4>1. N + r \in Nat
        BY <2>7
      <4>2. QED
        BY <2>6, <3>2, <4>1, TurnsAddUp
    <3>8. Total(I, extra) \in Int
      BY <2>6, <3>4, TotalType
    <3>9. QED
      BY <2>7, <3>5, <3>6, <3>7, <3>8
  <2>12. QED
    BY <2>1, <2>3, <2>6, <2>9, <2>10, <2>11
<1>3. QED
  BY <1>1, <1>2 DEF ByLine

\* the units of a bill on p checks, and what they come to on each
OnChecks(n, p, a, units) ==
    (\A c \in 1 .. p : a[c] \in [1 .. n -> Nat]) /\ \A l \in 1 .. n : TotalOf([c \in 1 .. p |-> a[c][l]]) = units[l]
ItemSums(n, p, price, a, sums) == sums = [c \in 1 .. p |-> TotalOf([l \in 1 .. n |-> price[l] * a[c][l]])]

\* Checks by item add up to the bill, as every unit is on one of them.
LEMMA ItemsExact ==
    ASSUME NEW n \in Nat, NEW p \in Nat \ {0}, NEW price \in [1 .. n -> Nat], NEW units, NEW a,
           OnChecks(n, p, a, units), NEW sums, ItemSums(n, p, price, a, sums), NEW bill, bill = [l \in 1 .. n |-> price[l] * units[l]]
    PROVE  AddUpTo(p, sums, TotalOf(bill))
<1>1. PICK m : m = [c \in 1 .. p |-> [l \in 1 .. n |-> price[l] * a[c][l]]]
  OBVIOUS
<1>2. IsFiniteSet(1 .. n) /\ IsFiniteSet(1 .. p)
  BY IntervalFinite
<1>3. \A c \in 1 .. p : m[c] = [l \in 1 .. n |-> m[c][l]] /\ \A l \in 1 .. n : m[c][l] \in Nat /\ m[c][l] \in Int
  <2>1. \A c \in 1 .. p : \A l \in 1 .. n : price[l] * a[c][l] \in Nat
    <3>1. \A x, y \in Nat : x * y \in Nat
      OBVIOUS
    <3>2. \A c \in 1 .. p : a[c] \in [1 .. n -> Nat]
      BY DEF OnChecks
    <3>3. QED
      BY <3>1, <3>2
  <2>2. QED
    BY <1>1, <2>1
<1>4. \A c \in 1 .. p : sums[c] = Total(1 .. n, m[c]) /\ sums[c] \in Nat
  <2>1. ASSUME NEW c \in 1 .. p PROVE sums[c] = Total(1 .. n, m[c]) /\ sums[c] \in Nat
    <3>1. TotalOf(m[c]) = Total(1 .. n, m[c])
      BY <1>3, TotalOfIs
    <3>2. Total(1 .. n, m[c]) \in Nat
      BY <1>2, <1>3, TotalType
    <3>3. sums[c] = TotalOf(m[c])
      BY <1>1 DEF ItemSums
    <3>4. QED
      BY <3>1, <3>2, <3>3
  <2>2. QED
    BY <2>1
<1>5. sums = [c \in 1 .. p |-> sums[c]]
  BY DEF ItemSums
<1>6. PICK across : across = [l \in 1 .. n |-> [c \in 1 .. p |-> m[c][l]]]
  OBVIOUS
<1>7. PICK col : col = [l \in 1 .. n |-> Total(1 .. p, across[l])]
  OBVIOUS
<1>8. Total(1 .. p, sums) = Total(1 .. n, col)
  <2>1. \A c \in 1 .. p : \A l \in 1 .. n : m[c][l] \in Int /\ across[l][c] = m[c][l]
    BY <1>3, <1>6
  <2>2. \A c \in 1 .. p : sums[c] = Total(1 .. n, m[c])
    BY <1>4
  <2>3. \A l \in 1 .. n : col[l] = Total(1 .. p, across[l])
    BY <1>7
  <2>4. Table(1 .. p, 1 .. n, m, across, sums, col)
    BY <2>1, <2>2, <2>3 DEF Table
  <2>5. QED
    BY <1>2, <2>4, TotalExchange
<1>9. PICK whole : whole = [l \in 1 .. n |-> price[l] * units[l]]
  OBVIOUS
<1>10. ASSUME NEW l \in 1 .. n PROVE col[l] = whole[l] /\ whole[l] \in Int
  <2>1. PICK of : of = [c \in 1 .. p |-> a[c][l]]
    OBVIOUS
  <2>2. PICK paid : paid = [c \in 1 .. p |-> m[c][l]]
    OBVIOUS
  <2>3. of = [c \in 1 .. p |-> of[c]] /\ \A c \in 1 .. p : of[c] \in Int
    BY <2>1 DEF OnChecks
  <2>4. TotalOf(of) = Total(1 .. p, of)
    BY <2>3, TotalOfIs
  <2>5. price[l] \in Int /\ \A c \in 1 .. p : of[c] \in Int /\ paid[c] = price[l] * of[c]
    BY <1>1, <2>1, <2>2, <2>3
  <2>6. Total(1 .. p, paid) = price[l] * Total(1 .. p, of)
    BY <1>2, <2>5, TotalTimes
  <2>7. Total(1 .. p, of) = units[l]
    BY <2>1, <2>4, Zenon DEF OnChecks
  <2>8. Total(1 .. p, of) \in Int
    BY <1>2, <2>3, TotalType
  <2>9. col[l] = Total(1 .. p, paid)
    BY <1>6, <1>7, <2>2
  <2>10. whole[l] = price[l] * units[l]
    BY <1>9
  <2>11. \A x, y \in Int : x * y \in Int
    OBVIOUS
  <2>12. QED
    BY <2>5, <2>6, <2>7, <2>8, <2>9, <2>10, <2>11
<1>11. Total(1 .. n, col) = Total(1 .. n, whole)
  BY <1>2, <1>10, TotalSame
<1>12. TotalOf(whole) = Total(1 .. n, whole)
  <2>1. whole = [l \in 1 .. n |-> whole[l]]
    BY <1>9
  <2>2. QED
    BY <1>10, <2>1, TotalOfIs
<1>13. sums \in [1 .. p -> Nat]
  BY <1>4, <1>5
<1>14. QED
  BY <1>8, <1>9, <1>11, <1>12, <1>13 DEF AddUpTo

\* And so do they on each line.
LEMMA ItemsByLine ==
    ASSUME NEW n \in Nat, NEW p \in Nat \ {0}, NEW price \in [1 .. n -> Nat], NEW units, NEW a,
           OnChecks(n, p, a, units), NEW bill, bill = [l \in 1 .. n |-> price[l] * units[l]],
           NEW checks, checks = [c \in 1 .. p |-> [l \in 1 .. n |-> price[l] * a[c][l]]]
    PROVE  ByLine(n, p, checks, bill)
<1>1. \A c \in 1 .. p : \A l \in 1 .. n : price[l] * a[c][l] \in Nat
  <2>1. \A x, y \in Nat : x * y \in Nat
    OBVIOUS
  <2>2. \A c \in 1 .. p : a[c] \in [1 .. n -> Nat]
    BY DEF OnChecks
  <2>3. QED
    BY <2>1, <2>2
<1>2. \A c \in 1 .. p : checks[c] \in [1 .. n -> Nat]
  BY <1>1
<1>3. ASSUME NEW l \in 1 .. n PROVE Total(1 .. p, [c \in 1 .. p |-> checks[c][l]]) = bill[l]
  <2>1. PICK of : of = [c \in 1 .. p |-> a[c][l]]
    OBVIOUS
  <2>2. PICK paid : paid = [c \in 1 .. p |-> checks[c][l]]
    OBVIOUS
  <2>3. of = [c \in 1 .. p |-> of[c]] /\ \A c \in 1 .. p : of[c] \in Int
    BY <2>1 DEF OnChecks
  <2>4. TotalOf(of) = Total(1 .. p, of)
    BY <2>3, TotalOfIs
  <2>5. price[l] \in Int /\ IsFiniteSet(1 .. p) /\ \A c \in 1 .. p : of[c] \in Int /\ paid[c] = price[l] * of[c]
    BY <2>1, <2>2, <2>3, IntervalFinite
  <2>6. Total(1 .. p, paid) = price[l] * Total(1 .. p, of)
    BY <2>5, TotalTimes
  <2>7. Total(1 .. p, of) = units[l]
    BY <2>1, <2>4, Zenon DEF OnChecks
  <2>8. bill[l] = price[l] * units[l]
    OBVIOUS
  <2>9. QED
    BY <2>2, <2>6, <2>7, <2>8, Zenon
<1>4. QED
  BY <1>2, <1>3 DEF ByLine

\* allocatePaise: the parts add up to the total, and none is more than its weight when
\* the total is no more than the weights.
LEMMA AllocationExact ==
    ASSUME NEW n \in Nat \ {0}, NEW sums \in [1 .. n -> Nat], NEW t \in Nat, t <= Total(1 .. n, sums),
           NEW cuts, cuts = AllocatePaise(t, sums)
    PROVE  /\ cuts \in [1 .. n -> Nat] /\ TotalOf(cuts) = t /\ \A c \in 1 .. n : cuts[c] <= sums[c]
           /\ NearShares(n, sums, t, Total(1 .. n, sums), cuts)
<1>1. IsFiniteSet(1 .. n) /\ Cardinality(1 .. n) = n
  BY IntervalFinite
<1>2. Len(sums) = n
  <2>1. n \in Nat /\ sums = [i \in 1 .. n |-> sums[i]]
    OBVIOUS
  <2>2. QED
    BY <2>1, LengthOf
<1>3. TotalOf(sums) = Total(1 .. n, sums) /\ Total(1 .. n, sums) \in Nat
  <2>1. n \in Nat /\ sums = [i \in 1 .. n |-> sums[i]] /\ \A i \in 1 .. n : sums[i] \in Int /\ sums[i] \in Nat
    OBVIOUS
  <2>2. TotalOf(sums) = Total(1 .. n, sums)
    BY <2>1, TotalOfIs
  <2>3. QED
    BY <1>1, <2>1, <2>2, TotalType
<1>4. PICK w : w = IF TotalOf(sums) > 0 THEN sums ELSE [i \in 1 .. n |-> 1]
  OBVIOUS
<1>5. w \in [1 .. n -> Nat]
  BY <1>4
<1>6. TotalOf(w) = Total(1 .. n, w)
  <2>1. n \in Nat /\ w = [i \in 1 .. n |-> w[i]] /\ \A i \in 1 .. n : w[i] \in Int
    BY <1>5
  <2>2. QED
    BY <2>1, TotalOfIs
<1>7. PICK s \in Nat \ {0} : s = TotalOf(w)
  <2>1. CASE TotalOf(sums) > 0
    BY <1>3, <1>4, <2>1
  <2>2. CASE ~(TotalOf(sums) > 0)
    <3>1. 1 \in Int /\ \A i \in 1 .. n : w[i] = 1
      BY <1>4, <2>2
    <3>2. Total(1 .. n, w) = 1 * Cardinality(1 .. n)
      BY <1>1, <3>1, TotalConstant, Zenon
    <3>3. QED
      BY <1>1, <1>6, <3>2
  <2>3. QED
    BY <2>1, <2>2
<1>8. PICK floor : floor = [i \in 1 .. n |-> (t * w[i]) \div s]
  OBVIOUS
<1>9. PICK frac : frac = [i \in 1 .. n |-> (t * w[i]) % s]
  OBVIOUS
<1>10. PICK rest : rest = t - TotalOf(floor)
  OBVIOUS
<1>11. \A i \in 1 .. n : floor[i] = (t * w[i]) \div s /\ frac[i] = (t * w[i]) % s
  BY <1>8, <1>9
<1>12. \A i \in 1 .. n : floor[i] \in Int
  <2>1. ASSUME NEW i \in 1 .. n PROVE floor[i] \in Int
    <3>1. PICK x \in Nat : x = t * w[i]
      <4>1. \A a, b \in Nat : a * b \in Nat
        OBVIOUS
      <4>2. w[i] \in Nat
        BY <1>5
      <4>3. QED
        BY <4>1, <4>2
    <3>2. x \div s \in Nat
      BY Division
    <3>3. QED
      BY <1>11, <3>1, <3>2
  <2>2. QED
    BY <2>1
<1>13. TotalOf(floor) = Total(1 .. n, floor)
  <2>1. n \in Nat /\ floor = [i \in 1 .. n |-> floor[i]]
    BY <1>8
  <2>2. QED
    BY <1>12, <2>1, TotalOfIs
<1>14. Floors(n, w, t, s, floor, frac, rest)
  BY <1>10, <1>11, <1>13 DEF Floors
<1>15. \A i \in 1 .. n : Cardinality({j \in 1 .. n : (t * w[j]) % s > (t * w[i]) % s
                                          \/ ((t * w[j]) % s = (t * w[i]) % s /\ j < i)}) = PlaceOf(frac, n, i)
  <2>1. ASSUME NEW i \in 1 .. n
        PROVE  {j \in 1 .. n : (t * w[j]) % s > (t * w[i]) % s
                   \/ ((t * w[j]) % s = (t * w[i]) % s /\ j < i)} = Ahead(frac, n, i)
    <3>1. \A j \in 1 .. n : frac[j] = (t * w[j]) % s
      BY <1>11
    <3>2. QED
      BY <3>1, Zenon DEF Ahead
  <2>2. QED
    BY <2>1, Zenon DEF PlaceOf
<1>16. cuts = [i \in 1 .. n |-> floor[i] + (rest + n - 1 - Cardinality({j \in 1 .. n : (t * w[j]) % s > (t * w[i]) % s
                                          \/ ((t * w[j]) % s = (t * w[i]) % s /\ j < i)})) \div n]
  BY <1>2, <1>4, <1>7, <1>8, <1>10, Zenon DEF AllocatePaise
<1>17. cuts = [i \in 1 .. n |-> floor[i] + (rest + n - 1 - PlaceOf(frac, n, i)) \div n]
  BY <1>15, <1>16, Zenon
<1>18. PartsGiven(n, floor, frac, rest, cuts)
  BY <1>17, Zenon DEF PartsGiven
<1>19. s = Total(1 .. n, w)
  BY <1>6, <1>7
<1>20. Shared(n, w, t, s, cuts)
  BY <1>5, <1>14, <1>18, <1>19, SharedOut
<1>21. (\A i \in 1 .. n : cuts[i] \in Nat /\ (t <= s => cuts[i] <= w[i])) /\ Total(1 .. n, cuts) = t
  BY <1>20 DEF Shared
<1>22. cuts = [i \in 1 .. n |-> cuts[i]]
  BY <1>17, Zenon
<1>23. cuts \in [1 .. n -> Nat]
  BY <1>21, <1>22
<1>24. TotalOf(cuts) = t
  <2>1. n \in Nat /\ \A i \in 1 .. n : cuts[i] \in Int
    BY <1>21
  <2>2. TotalOf(cuts) = Total(1 .. n, cuts)
    BY <1>22, <2>1, TotalOfIs
  <2>3. QED
    BY <1>21, <2>2
<1>25. ASSUME NEW c \in 1 .. n PROVE cuts[c] <= sums[c]
  <2>1. CASE TotalOf(sums) > 0
    <3>1. w = sums /\ s = Total(1 .. n, sums)
      BY <1>3, <1>4, <1>7, <2>1
    <3>2. QED
      BY <1>21, <3>1
  <2>2. CASE ~(TotalOf(sums) > 0)
    <3>1. t = 0
      BY <1>3, <2>2
    <3>2. Total(1 .. n, cuts) = cuts[c] + Total((1 .. n) \ {c}, cuts)
      <4>1. \A i \in 1 .. n : cuts[i] \in Int
        BY <1>21
      <4>2. QED
        BY <1>1, <4>1, TotalRemove
    <3>3. Total((1 .. n) \ {c}, cuts) \in Nat
      <4>1. IsFiniteSet((1 .. n) \ {c}) /\ \A i \in (1 .. n) \ {c} : cuts[i] \in Nat
        BY <1>1, <1>21, FS_Subset
      <4>2. QED
        BY <4>1, TotalType
    <3>4. cuts[c] \in Nat /\ sums[c] \in Nat
      BY <1>21
    <3>5. QED
      BY <1>21, <3>1, <3>2, <3>3, <3>4
  <2>3. QED
    BY <2>1, <2>2
<1>26. NearShares(n, sums, t, Total(1 .. n, sums), cuts)
  <2>1. CASE TotalOf(sums) > 0
    <3>1. w = sums /\ s = Total(1 .. n, sums)
      BY <1>3, <1>4, <1>7, <2>1
    <3>2. QED
      BY <1>20, <3>1 DEF Shared
  <2>2. CASE ~(TotalOf(sums) > 0)
    <3>1. t = 0 /\ Total(1 .. n, sums) = 0
      BY <1>3, <2>2
    <3>2. \A i \in 1 .. n : cuts[i] \in Nat /\ sums[i] \in Nat
      BY <1>21
    <3>3. \A x, y \in Nat : 0 * x <= 0 * y + 0
      OBVIOUS
    <3>4. QED
      BY <3>1, <3>2, <3>3 DEF NearShares
  <2>3. QED
    BY <2>1, <2>2
<1>27. QED
  BY <1>23, <1>24, <1>25, <1>26

\* n checks and their subtotals share out the bill and its discount
SharesOut(n, subtotals) ==
    /\ n \in Nat /\ DOMAIN ticket.checks = 1 .. n /\ Len(ticket.checks) = n
    /\ subtotals = [c \in 1 .. n |-> TotalOf(ticket.checks[c])]
    /\ Total(1 .. n, subtotals) = TotalOf(LinePaise)
    /\ TotalOf(ticket.cuts) = Min({ticket.discount, TotalOf(LinePaise)})
    /\ \A c \in 1 .. n : ticket.cuts[c] <= subtotals[c]
    /\ ticket.how = "EQUAL" => \A c, d \in 1 .. n : subtotals[c] <= subtotals[d] + 1
    /\ ByLine(Len(LineRates), n, ticket.checks, LinePaise)
    /\ subtotals \in [1 .. n -> Nat] /\ ticket.cuts \in [1 .. n -> Nat]
    /\ NearShares(n, subtotals, Min({ticket.discount, TotalOf(LinePaise)}), TotalOf(LinePaise), ticket.cuts)
SplitsInv == MoneyInv /\ (ticket.how # "whole" => \E n, subtotals : SharesOut(n, subtotals))

\* The lesser of two amounts.
LEMMA LesserOf ==
    ASSUME NEW a \in Nat, NEW b \in Nat
    PROVE  Min({a, b}) \in Nat /\ Min({a, b}) <= b
<1>1. {a, b} \in SUBSET Nat /\ {a, b} # {}
  OBVIOUS
<1>2. Min({a, b}) \in {a, b} /\ \A x \in {a, b} : Min({a, b}) <= x
  BY <1>1, MinIn
<1>3. QED
  BY <1>2

\* A split into checks that add up to the bill shares its discount out among them.
LEMMA SplitShares ==
    ASSUME MoneyInv, NEW how \in {"EQUAL", "ITEMS"}, NEW n \in 2 .. MaxParts, NEW checks, checks = [c \in 1 .. n |-> checks[c]],
           NEW discount \in Discounts, SplitInto(how, checks, discount),
           NEW subtotals \in [1 .. n -> Nat], subtotals = [c \in 1 .. n |-> TotalOf(checks[c])],
           Total(1 .. n, subtotals) = TotalOf(LinePaise),
           how = "EQUAL" => \A c, d \in 1 .. n : subtotals[c] <= subtotals[d] + 1,
           ByLine(Len(LineRates), n, checks, LinePaise)
    PROVE  SplitsInv'
<1>1. MoneyInv'
  BY SplitKeeps
<1>2. n \in Nat \ {0} /\ n \in Nat /\ discount \in Nat
  BY MoneyAssumption
<1>3. DOMAIN checks = 1 .. n /\ Len(checks) = n
  BY <1>2, LengthOf
<1>4. PICK bill \in Nat : bill = TotalOf(LinePaise) /\ bill = TotalOf(subtotals) /\ bill = Total(1 .. n, subtotals)
  <2>1. subtotals = [c \in 1 .. n |-> subtotals[c]] /\ \A c \in 1 .. n : subtotals[c] \in Int /\ subtotals[c] \in Nat
    OBVIOUS
  <2>2. TotalOf(subtotals) = Total(1 .. n, subtotals)
    BY <1>2, <2>1, TotalOfIs
  <2>3. IsFiniteSet(1 .. n)
    BY <1>2, IntervalFinite
  <2>4. Total(1 .. n, subtotals) \in Nat
    BY <2>1, <2>3, TotalType
  <2>5. QED
    BY <2>2, <2>4
<1>5. PICK t \in Nat : t = Min({discount, bill}) /\ t <= bill
  BY <1>2, LesserOf
<1>6. PICK cuts : cuts = AllocatePaise(t, subtotals)
  OBVIOUS
<1>7. /\ TotalOf(cuts) = t /\ \A c \in 1 .. n : cuts[c] <= subtotals[c]
      /\ cuts \in [1 .. n -> Nat] /\ NearShares(n, subtotals, t, bill, cuts)
  <2>1. t <= Total(1 .. n, subtotals)
    BY <1>4, <1>5
  <2>2. TotalOf(cuts) = t
    BY <1>2, <1>6, <2>1, AllocationExact
  <2>3. ASSUME NEW c \in 1 .. n PROVE cuts[c] <= subtotals[c]
    BY <1>2, <1>6, <2>1, AllocationExact
  <2>4. cuts \in [1 .. n -> Nat] /\ NearShares(n, subtotals, t, Total(1 .. n, subtotals), cuts)
    BY <1>2, <1>6, <2>1, AllocationExact
  <2>5. QED
    BY <1>4, <2>2, <2>3, <2>4
<1>8. subtotals = [c \in DOMAIN checks |-> TotalOf(checks[c])]
  BY <1>3
<1>9. ticket' = [ticket EXCEPT !.how = how, !.checks = checks, !.discount = discount, !.cuts = cuts]
  <2>1. ticket' = [ticket EXCEPT !.how = how, !.checks = checks, !.discount = discount,
                       !.cuts = AllocatePaise(Min({discount, TotalOf(subtotals)}), subtotals)]
    BY <1>8, Zenon DEF SplitInto
  <2>2. cuts = AllocatePaise(Min({discount, TotalOf(subtotals)}), subtotals)
    BY <1>4, <1>5, <1>6
  <2>3. QED
    BY <2>1, <2>2
<1>10. /\ ticket'.price = ticket.price /\ ticket'.units = ticket.units /\ ticket'.how = how
       /\ ticket'.checks = checks /\ ticket'.discount = discount /\ ticket'.cuts = cuts
  <2>1. PICK price, units, service, how0, discount0, checks0, cuts0 :
            ticket = TicketOf(price, units, service, how0, discount0, checks0, cuts0)
    BY DEF MoneyInv
  <2>2. QED
    BY <1>9, <2>1 DEF TicketOf
<1>11. LinePaise' = LinePaise
  BY <1>10 DEF LinePaise, LinesOf
<1>12. TotalOf(LinePaise)' = bill
  BY <1>4, <1>11, Zenon
<1>13. SharesOut(n, subtotals)'
  <2>1. n \in Nat /\ DOMAIN ticket'.checks = 1 .. n /\ Len(ticket'.checks) = n
    BY <1>2, <1>3, <1>10
  <2>2. subtotals = [c \in 1 .. n |-> TotalOf(ticket'.checks[c])]
    BY <1>10
  <2>3. Total(1 .. n, subtotals) = TotalOf(LinePaise)'
    BY <1>4, <1>12
  <2>4. TotalOf(ticket'.cuts) = Min({ticket'.discount, TotalOf(LinePaise)'})
    BY <1>5, <1>7, <1>10, <1>12
  <2>5. \A c \in 1 .. n : ticket'.cuts[c] <= subtotals[c]
    BY <1>7, <1>10
  <2>6. ticket'.how = "EQUAL" => \A c, d \in 1 .. n : subtotals[c] <= subtotals[d] + 1
    BY <1>10
  <2>7. ByLine(Len(LineRates), n, ticket'.checks, LinePaise') /\ ticket'.cuts \in [1 .. n -> Nat]
    BY <1>7, <1>10, <1>11, Zenon
  <2>8. NearShares(n, subtotals, Min({ticket'.discount, TotalOf(LinePaise)'}), TotalOf(LinePaise)', ticket'.cuts)
    BY <1>5, <1>7, <1>10, <1>12, Zenon
  <2>9. QED
    BY <2>1, <2>2, <2>3, <2>4, <2>5, <2>6, <2>7, <2>8, Zenon DEF SharesOut
<1>14. QED
  BY <1>1, <1>13 DEF SplitsInv

\* A bill has as many lines as there are rates, each of some paise.
LEMMA BillLines ==
    ASSUME MoneyInv
    PROVE  \E n \in Nat : n = Len(LineRates) /\ LinesOf = 1 .. n /\ ticket.price \in [1 .. n -> Nat] /\ ticket.units \in [1 .. n -> Nat]
                          /\ LinePaise \in [1 .. n -> Nat] /\ UnitLists \in SUBSET [1 .. n -> Nat]
<1>1. PICK n \in Nat : n = Len(LineRates) /\ LinesOf = 1 .. n
  BY MoneyAssumption DEF LinesOf
<1>2. ticket.price \in PriceLists /\ ticket.units \in UnitLists
  BY MoneyTyped DEF MoneyTypeOK
<1>3. ticket.price \in [1 .. n -> Nat]
  BY <1>1, <1>2, MoneyAssumption DEF PriceLists
<1>4. UnitLists \in SUBSET [1 .. n -> Nat]
  <2>1. 0 .. MaxUnits \in SUBSET Nat
    BY MoneyAssumption
  <2>2. QED
    BY <1>1, <2>1 DEF UnitLists
<1>5. LinePaise \in [1 .. n -> Nat]
  <2>1. \A x, y \in Nat : x * y \in Nat
    OBVIOUS
  <2>2. \A l \in 1 .. n : ticket.price[l] \in Nat /\ ticket.units[l] \in Nat
    BY <1>2, <1>3, <1>4
  <2>3. \A l \in 1 .. n : ticket.price[l] * ticket.units[l] \in Nat
    BY <2>1, <2>2
  <2>4. QED
    BY <1>1, <2>3 DEF LinePaise
<1>6. QED
  BY <1>1, <1>2, <1>3, <1>4, <1>5

\* So does a split into equal checks.
LEMMA EqualShares ==
    ASSUME MoneyInv, NEW n \in 2 .. MaxParts, NEW discount \in Discounts, SplitEqual(n, discount)
    PROVE  SplitsInv'
<1>1. PICK checks : checks = SplitLinesEqually(LinePaise, n)
  OBVIOUS
<1>2. checks = [c \in 1 .. n |-> checks[c]]
  BY <1>1 DEF SplitLinesEqually
<1>3. SplitInto("EQUAL", checks, discount)
  BY <1>1 DEF SplitEqual
<1>4. PICK subtotals : subtotals = [c \in 1 .. n |-> TotalOf(checks[c])]
  OBVIOUS
<1>5. PICK lines \in Nat : lines = Len(LineRates) /\ LinePaise \in [1 .. lines -> Nat]
  BY BillLines
<1>6. n \in Nat \ {0}
  BY MoneyAssumption
<1>7. subtotals = [c \in 1 .. n |-> TotalOf(SplitLinesEqually(LinePaise, n)[c])]
  BY <1>1, <1>4, Zenon
<1>8. AddUpTo(n, subtotals, TotalOf(LinePaise)) /\ WithinAPaisa(n, subtotals)
  BY <1>5, <1>6, <1>7, EqualSplitExact
<1>9. subtotals \in [1 .. n -> Nat] /\ Total(1 .. n, subtotals) = TotalOf(LinePaise)
  BY <1>8 DEF AddUpTo
<1>10. \A c, d \in 1 .. n : subtotals[c] <= subtotals[d] + 1
  BY <1>8 DEF WithinAPaisa
<1>11. ByLine(Len(LineRates), n, checks, LinePaise)
  BY <1>1, <1>5, <1>6, EqualByLine
<1>12. QED
  BY <1>2, <1>3, <1>4, <1>9, <1>10, <1>11, SplitShares

\* And one by item.
LEMMA ItemShares ==
    ASSUME MoneyInv, NEW n \in 2 .. MaxParts, NEW discount \in Discounts, SplitItems(n, discount)
    PROVE  SplitsInv'
<1>1. PICK a \in Assignments(n) :
          SplitInto("ITEMS", [c \in 1 .. n |-> [l \in LinesOf |-> ticket.price[l] * a[c][l]]], discount)
  BY DEF SplitItems
<1>2. PICK checks : checks = [c \in 1 .. n |-> [l \in LinesOf |-> ticket.price[l] * a[c][l]]]
  OBVIOUS
<1>3. checks = [c \in 1 .. n |-> checks[c]]
  BY <1>2
<1>4. SplitInto("ITEMS", checks, discount)
  BY <1>1, <1>2
<1>5. PICK subtotals : subtotals = [c \in 1 .. n |-> TotalOf(checks[c])]
  OBVIOUS
<1>6. PICK lines \in Nat : lines = Len(LineRates) /\ LinesOf = 1 .. lines /\ ticket.price \in [1 .. lines -> Nat]
                           /\ UnitLists \in SUBSET [1 .. lines -> Nat]
  BY BillLines
<1>7. n \in Nat \ {0}
  BY MoneyAssumption
<1>8. \A c \in 1 .. n : a[c] \in [1 .. lines -> Nat]
  BY <1>6 DEF Assignments
<1>9. \A l \in 1 .. lines : TotalOf([c \in 1 .. n |-> a[c][l]]) = ticket.units[l]
  BY <1>6, Zenon DEF Assignments
<1>10. PICK price \in [1 .. lines -> Nat] : price = ticket.price
  BY <1>6
<1>11. PICK units : units = ticket.units
  OBVIOUS
<1>12. ItemSums(lines, n, price, a, subtotals)
  <2>1. \A c \in 1 .. n : checks[c] = [l \in 1 .. lines |-> price[l] * a[c][l]]
    BY <1>2, <1>6, <1>10
  <2>2. QED
    BY <1>5, <2>1, Zenon DEF ItemSums
<1>13. PICK bill : bill = [l \in 1 .. lines |-> price[l] * units[l]] /\ bill = LinePaise
  BY <1>6, <1>10, <1>11, Zenon DEF LinePaise
<1>14. OnChecks(lines, n, a, units)
  BY <1>8, <1>9, <1>11, Zenon DEF OnChecks
<1>15. AddUpTo(n, subtotals, TotalOf(bill))
  BY <1>7, <1>10, <1>12, <1>13, <1>14, ItemsExact
<1>16. subtotals \in [1 .. n -> Nat] /\ Total(1 .. n, subtotals) = TotalOf(LinePaise)
  BY <1>13, <1>15 DEF AddUpTo
<1>17. ByLine(Len(LineRates), n, checks, LinePaise)
  <2>1. checks = [c \in 1 .. n |-> [l \in 1 .. lines |-> price[l] * a[c][l]]]
    BY <1>2, <1>6, <1>10
  <2>2. bill = [l \in 1 .. lines |-> price[l] * units[l]]
    BY <1>13
  <2>3. ByLine(lines, n, checks, bill)
    BY <1>7, <1>14, <2>1, <2>2, ItemsByLine, Zenon
  <2>4. QED
    BY <1>6, <1>13, <2>3, Zenon
<1>18. QED
  BY <1>3, <1>4, <1>5, <1>16, <1>17, SplitShares

\* Whatever is done at the till, the checks on it share out its bill.
LEMMA SplitsKeep == SplitsInv /\ [MoneyNext]_ticket => SplitsInv'
<1>1. ASSUME SplitsInv, UNCHANGED ticket PROVE SplitsInv'
  <2>1. MoneyInv'
    BY <1>1, MoneyKeeps DEF SplitsInv
  <2>2. LinePaise' = LinePaise
    BY <1>1 DEF LinePaise
  <2>3. ASSUME ticket'.how # "whole" PROVE \E n, subtotals : SharesOut(n, subtotals)'
    <3>1. PICK n, subtotals : SharesOut(n, subtotals)
      BY <1>1, <2>3 DEF SplitsInv
    <3>2. SharesOut(n, subtotals)'
      BY <1>1, <2>2, <3>1 DEF SharesOut
    <3>3. QED
      BY <3>2
  <2>4. QED
    BY <2>1, <2>3 DEF SplitsInv
<1>2. ASSUME SplitsInv, NEW price \in PriceLists, NEW units \in UnitLists, NEW service \in ServiceRules,
             RingUp(price, units, service)
      PROVE  SplitsInv'
  <2>1. MoneyInv'
    BY <1>2, MoneyKeeps DEF SplitsInv, MoneyNext
  <2>2. ticket'.how = "whole"
    BY <1>2 DEF RingUp, Rung
  <2>3. QED
    BY <2>1, <2>2 DEF SplitsInv
<1>3. ASSUME SplitsInv, NEW n \in 2 .. MaxParts, NEW discount \in Discounts,
             SplitEqual(n, discount) \/ SplitItems(n, discount)
      PROVE  SplitsInv'
  BY <1>3, EqualShares, ItemShares DEF SplitsInv
<1>4. QED
  BY <1>1, <1>2, <1>3 DEF MoneyNext

\* And so they lose and invent none of it.
LEMMA SplitsPromise == SplitsInv => SplitExact /\ SplitEven
<1> SUFFICES ASSUME SplitsInv, ticket.how # "whole" PROVE SplitExact /\ SplitEven
  BY DEF SplitExact, SplitEven
<1>1. PICK n, subtotals : SharesOut(n, subtotals)
  BY DEF SplitsInv
<1>2. n \in Nat /\ Checks = 1 .. n /\ subtotals = [c \in 1 .. n |-> TotalOf(ticket.checks[c])]
  BY <1>1 DEF SharesOut, Checks
<1>3. subtotals = [c \in Checks |-> SubtotalOf(c)]
  BY <1>2 DEF SubtotalOf
<1>4. TotalOf(subtotals) = Total(1 .. n, subtotals)
  <2>1. subtotals = [c \in 1 .. n |-> subtotals[c]] /\ \A c \in 1 .. n : subtotals[c] \in Int
    BY <1>1 DEF SharesOut
  <2>2. QED
    BY <1>2, <2>1, TotalOfIs
<1>5. TotalOf([c \in Checks |-> SubtotalOf(c)]) = TotalOf(LinePaise)
  BY <1>1, <1>3, <1>4, Zenon DEF SharesOut
<1>6. \A c \in Checks : SubtotalOf(c) = subtotals[c]
  BY <1>2 DEF SubtotalOf
<1>7. SplitExact
  <2>1. TotalOf(ticket.cuts) = Min({ticket.discount, TotalOf(LinePaise)})
    BY <1>1 DEF SharesOut
  <2>2. \A c \in Checks : ticket.cuts[c] <= SubtotalOf(c)
    BY <1>1, <1>2, <1>6 DEF SharesOut
  <2>3. QED
    BY <1>5, <2>1, <2>2, Zenon DEF SplitExact
<1>8. SplitEven
  BY <1>1, <1>2, <1>6 DEF SharesOut, SplitEven
<1>9. QED
  BY <1>7, <1>8

(* What the checks are to pay, and what the bill is. *)

\* the parts of ComputeBill
TaxableOf(paise, d) == TotalOf(paise) - Min({d, TotalOf(paise)})
ChargeOf(paise, d, service) == RoundedQuotient(TaxableOf(paise, d) * service.percent, Hundred)
RawTaxOf(paise) == TotalOf([l \in LinesOf |-> paise[l] * LineRates[l]])
TaxBaseOf(paise, d, service) == TaxableOf(paise, d) + (IF service.taxable THEN ChargeOf(paise, d, service) ELSE 0)
TaxOf(paise, d, service) ==
    IF TotalOf(paise) > 0 THEN RoundedQuotient(RawTaxOf(paise) * TaxBaseOf(paise, d, service), Hundred * TotalOf(paise)) ELSE 0
TaxedToo(service) == IF service.taxable THEN 1 ELSE 0

\* A bill comes to what is taxable, the charge and the tax.
LEMMA BillComes ==
    ASSUME NEW paise, NEW d, NEW service
    PROVE  ComputeBill(paise, d, service) = TaxableOf(paise, d) + ChargeOf(paise, d, service) + TaxOf(paise, d, service)
BY Zenon DEF ComputeBill, TaxableOf, ChargeOf, RawTaxOf, TaxBaseOf, TaxOf

\* The lines and their rates, none above the steepest.
LEMMA RatesOfLines ==
    /\ Len(LineRates) \in Nat /\ LinesOf = 1 .. Len(LineRates) /\ SteepestRate \in Nat
    /\ \A l \in LinesOf : LineRates[l] \in Nat /\ LineRates[l] <= SteepestRate
<1>1. PICK n \in Nat : n = Len(LineRates) /\ LinesOf = 1 .. n
  BY MoneyAssumption DEF LinesOf
<1>2. \A l \in LinesOf : LineRates[l] \in Nat
  BY MoneyAssumption DEF LinesOf
<1>3. PICK R : R = {LineRates[l] : l \in LinesOf}
  OBVIOUS
<1>4. IsFiniteSet(R)
  <2>1. PICK f : f = [l \in LinesOf |-> LineRates[l]]
    OBVIOUS
  <2>2. f \in Surjection(LinesOf, R)
    BY <1>3, <2>1 DEF Surjection
  <2>3. IsFiniteSet(LinesOf)
    BY <1>1, IntervalFinite
  <2>4. QED
    BY <2>2, <2>3, FS_Surjection
<1>5. PICK S : S = {0} \cup R /\ IsFiniteSet(S) /\ S \in SUBSET Nat
  <2>1. {0} \cup R = R \cup {0} /\ IsFiniteSet(R \cup {0})
    BY <1>4, FS_AddElement
  <2>2. {0} \cup R \in SUBSET Nat
    BY <1>2, <1>3
  <2>3. QED
    BY <2>1, <2>2
<1>6. Max(S) \in S /\ \A x \in S : x <= Max(S)
  <2>1. S \in SUBSET Int /\ S # {}
    BY <1>5
  <2>2. QED
    BY <1>5, <2>1, GreatestOf
<1>7. SteepestRate = Max(S)
  BY <1>3, <1>5, Zenon DEF SteepestRate
<1>8. \A l \in LinesOf : LineRates[l] \in S
  BY <1>3, <1>5
<1>9. QED
  BY <1>1, <1>2, <1>5, <1>6, <1>7, <1>8

\* The raw tax of some lines: no more than the steepest rate on their food.
LEMMA RawTaxIs ==
    ASSUME NEW paise \in [LinesOf -> Nat], NEW raws, raws = [l \in LinesOf |-> paise[l] * LineRates[l]]
    PROVE  /\ TotalOf(paise) = Total(LinesOf, paise) /\ TotalOf(paise) \in Nat
           /\ RawTaxOf(paise) = Total(LinesOf, raws) /\ RawTaxOf(paise) \in Nat
           /\ RawTaxOf(paise) <= SteepestRate * TotalOf(paise)
<1>1. PICK n \in Nat : LinesOf = 1 .. n
  BY RatesOfLines
<1>2. PICK r \in Nat : r = SteepestRate /\ \A l \in LinesOf : LineRates[l] \in Nat /\ LineRates[l] <= r
  BY RatesOfLines
<1>3. IsFiniteSet(LinesOf)
  BY <1>1, IntervalFinite
<1>4. \A x, y \in Nat : x * y \in Nat
  OBVIOUS
<1>5. PICK steep : steep = [l \in LinesOf |-> r * paise[l]]
  OBVIOUS
<1>6. PICK less : less = [l \in LinesOf |-> r * paise[l] - paise[l] * LineRates[l]]
  OBVIOUS
<1>7. \A l \in LinesOf : paise[l] \in Int /\ raws[l] \in Nat /\ less[l] \in Nat /\ steep[l] = r * paise[l]
  <2>1. ASSUME NEW l \in LinesOf PROVE paise[l] * LineRates[l] \in Nat /\ r * paise[l] - paise[l] * LineRates[l] \in Nat
    <3>1. PICK x \in Nat, y \in Nat : x = paise[l] /\ y = LineRates[l] /\ y <= r
      BY <1>2
    <3>2. x * y <= x * r
      BY <3>1, TimesKeeps
    <3>3. x * y \in Nat /\ x * r \in Nat /\ r * x = x * r
      BY <1>4
    <3>4. QED
      BY <3>1, <3>2, <3>3
  <2>2. QED
    BY <1>5, <1>6, <2>1
<1>8. \A l \in LinesOf : raws[l] \in Int /\ less[l] \in Int /\ steep[l] = raws[l] + less[l]
  <2>1. ASSUME NEW l \in LinesOf PROVE steep[l] = raws[l] + less[l]
    <3>1. PICK x \in Int, y \in Int : x = r * paise[l] /\ y = paise[l] * LineRates[l]
      <4>1. paise[l] \in Nat /\ LineRates[l] \in Nat
        BY <1>2
      <4>2. QED
        BY <4>1
    <3>2. QED
      BY <1>5, <1>6, <3>1
  <2>2. QED
    BY <1>7, <2>1
<1>9. TotalOf(paise) = Total(LinesOf, paise) /\ Total(LinesOf, paise) \in Nat
  <2>1. paise = [l \in 1 .. n |-> paise[l]] /\ \A l \in 1 .. n : paise[l] \in Int
    BY <1>1
  <2>2. TotalOf(paise) = Total(1 .. n, paise)
    BY <2>1, TotalOfIs
  <2>3. QED
    BY <1>1, <1>3, <2>2, TotalType
<1>10. RawTaxOf(paise) = Total(LinesOf, raws) /\ Total(LinesOf, raws) \in Nat /\ Total(LinesOf, less) \in Nat
  <2>1. raws = [l \in 1 .. n |-> raws[l]] /\ \A l \in 1 .. n : raws[l] \in Int
    BY <1>1, <1>8
  <2>2. TotalOf(raws) = Total(1 .. n, raws)
    BY <2>1, TotalOfIs
  <2>3. RawTaxOf(paise) = Total(LinesOf, raws)
    BY <1>1, <2>2, Zenon DEF RawTaxOf
  <2>4. QED
    BY <1>3, <1>7, <2>3, TotalType
<1>11. Total(LinesOf, steep) = Total(LinesOf, raws) + Total(LinesOf, less)
  BY <1>3, <1>8, TotalAdd
<1>12. Total(LinesOf, steep) = r * Total(LinesOf, paise)
  <2>1. r \in Int /\ \A l \in LinesOf : paise[l] \in Int /\ steep[l] = r * paise[l]
    BY <1>7
  <2>2. QED
    BY <1>3, <2>1, TotalTimes, Zenon
<1>13. Total(LinesOf, raws) <= r * Total(LinesOf, paise)
  BY <1>10, <1>11, <1>12
<1>14. QED
  BY <1>2, <1>9, <1>10, <1>13

\* ComputeBill charges and taxes as it should, half a paisa off at most.
LEMMA BillPriced ==
    ASSUME NEW paise \in [LinesOf -> Nat], NEW d \in Nat, NEW service \in ServiceRules
    PROVE  Priced(TotalOf(paise), TaxableOf(paise, d), RawTaxOf(paise), SteepestRate, service.percent,
                  TaxedToo(service), ChargeOf(paise, d, service), TaxOf(paise, d, service))
<1>1. PICK s \in Nat, raw \in Nat : s = TotalOf(paise) /\ raw = RawTaxOf(paise) /\ raw <= SteepestRate * s
  BY RawTaxIs
<1>2. PICK t \in Nat : t = TaxableOf(paise, d) /\ t <= s
  <2>1. Min({d, s}) \in Nat /\ Min({d, s}) <= s
    BY LesserOf
  <2>2. QED
    BY <1>1, <2>1 DEF TaxableOf
<1>3. PICK p \in Nat : p = service.percent
  BY MoneyAssumption
<1>4. \A x, y \in Nat : x * y \in Nat
  OBVIOUS
<1>5. PICK charge \in Nat : charge = ChargeOf(paise, d, service) /\ Near(Full * charge, t * p, Half)
  <2>1. PICK x \in Nat : x = t * p
    BY <1>4
  <2>2. Half \in Nat \ {0} /\ Full \in Nat /\ Full = 2 * Half /\ Hundred = Full
    BY DEF Full, Half, Hundred
  <2>3. (2 * x + Full) \div (2 * Full) \in Nat /\ Near(Full * ((2 * x + Full) \div (2 * Full)), x, Half)
    BY <2>2, HalfUp
  <2>4. ChargeOf(paise, d, service) = (2 * x + Full) \div (2 * Full)
    BY <1>2, <1>3, <2>1, <2>2 DEF ChargeOf, RoundedQuotient
  <2>5. QED
    BY <2>1, <2>3, <2>4
<1>6. PICK tau \in {0, 1} : tau = TaxedToo(service)
  BY DEF TaxedToo
<1>7. PICK base \in Nat : base = t + tau * charge /\ base = TaxBaseOf(paise, d, service)
  <2>1. CASE service.taxable
    BY <1>2, <1>5, <1>6, <2>1 DEF TaxBaseOf, TaxedToo
  <2>2. CASE ~service.taxable
    BY <1>2, <1>5, <1>6, <2>2 DEF TaxBaseOf, TaxedToo
  <2>3. QED
    BY <2>1, <2>2
<1>8. PICK tax \in Nat : tax = TaxOf(paise, d, service) /\ (s > 0 => Near((Full * s) * tax, raw * base, Half * s)) /\ (s = 0 => tax = 0)
  <2>1. CASE s = 0
    BY <1>1, <2>1 DEF TaxOf
  <2>2. CASE s > 0
    <3>1. PICK x \in Nat : x = raw * base
      BY <1>4
    <3>2. PICK h \in Nat \ {0}, b \in Nat : h = Half * s /\ b = Full * s /\ b = 2 * h /\ b = Hundred * s
      BY <2>2 DEF Full, Half, Hundred
    <3>3. (2 * x + b) \div (2 * b) \in Nat /\ Near(b * ((2 * x + b) \div (2 * b)), x, h)
      BY <3>2, HalfUp
    <3>4. TaxOf(paise, d, service) = (2 * x + b) \div (2 * b)
      BY <1>1, <1>7, <2>2, <3>1, <3>2 DEF TaxOf, RoundedQuotient
    <3>5. QED
      BY <2>2, <3>1, <3>2, <3>3, <3>4
  <2>3. QED
    BY <2>1, <2>2
<1>9. Priced(s, t, raw, SteepestRate, p, tau, charge, tax)
  BY <1>1, <1>2, <1>5, <1>7, <1>8 DEF Priced, Charged, Taxed
<1>10. QED
  BY <1>1, <1>2, <1>3, <1>5, <1>6, <1>8, <1>9, Zenon

\* The raw taxes of the checks add up to that of the bill, as the checks do on each line.
LEMMA RawTaxesAdd ==
    ASSUME NEW n \in Nat, NEW checks, NEW paise, ByLine(Len(LineRates), n, checks, paise),
           paise \in [LinesOf -> Nat]
    PROVE  Total(1 .. n, [c \in 1 .. n |-> RawTaxOf(checks[c])]) = RawTaxOf(paise)
<1>1. PICK m : m = [c \in 1 .. n |-> [l \in LinesOf |-> checks[c][l] * LineRates[l]]]
  OBVIOUS
<1>2. PICK across : across = [l \in LinesOf |-> [c \in 1 .. n |-> m[c][l]]]
  OBVIOUS
<1>3. PICK raws : raws = [l \in LinesOf |-> paise[l] * LineRates[l]]
  OBVIOUS
<1>4. PICK sums : sums = [c \in 1 .. n |-> RawTaxOf(checks[c])]
  OBVIOUS
<1>5. IsFiniteSet(1 .. n) /\ IsFiniteSet(LinesOf) /\ LinesOf = 1 .. Len(LineRates)
  BY RatesOfLines, IntervalFinite
<1>6. \A c \in 1 .. n : checks[c] \in [LinesOf -> Nat]
  BY <1>5 DEF ByLine
<1>7. \A c \in 1 .. n : sums[c] = Total(LinesOf, m[c])
  <2>1. ASSUME NEW c \in 1 .. n PROVE RawTaxOf(checks[c]) = Total(LinesOf, m[c])
    <3>1. m[c] = [l \in LinesOf |-> checks[c][l] * LineRates[l]]
      BY <1>1
    <3>2. QED
      BY <1>6, <3>1, RawTaxIs
  <2>2. QED
    BY <1>4, <2>1
<1>8. ASSUME NEW l \in LinesOf PROVE raws[l] = Total(1 .. n, across[l])
  <2>1. PICK k \in Nat : k = LineRates[l]
    BY RatesOfLines
  <2>2. PICK col : col = [c \in 1 .. n |-> checks[c][l]]
    OBVIOUS
  <2>3. \A c \in 1 .. n : col[c] \in Int /\ across[l][c] = k * col[c]
    <3>1. ASSUME NEW c \in 1 .. n PROVE checks[c][l] \in Int /\ checks[c][l] * k = k * checks[c][l]
      BY <1>6
    <3>2. QED
      BY <1>1, <1>2, <2>1, <2>2, <3>1
  <2>4. Total(1 .. n, across[l]) = k * Total(1 .. n, col)
    <3>1. k \in Int
      OBVIOUS
    <3>2. QED
      BY <1>5, <2>3, <3>1, TotalTimes, Zenon
  <2>5. Total(1 .. n, col) = paise[l]
    BY <1>5, <2>2 DEF ByLine
  <2>6. k * paise[l] = paise[l] * k
    OBVIOUS
  <2>7. QED
    BY <1>3, <2>1, <2>4, <2>5, <2>6
<1>9. \A c \in 1 .. n : \A l \in LinesOf : m[c][l] \in Int /\ across[l][c] = m[c][l]
  <2>1. ASSUME NEW c \in 1 .. n, NEW l \in LinesOf PROVE checks[c][l] * LineRates[l] \in Int
    <3>1. checks[c][l] \in Nat /\ LineRates[l] \in Nat
      BY <1>6, RatesOfLines
    <3>2. QED
      BY <3>1
  <2>2. QED
    BY <1>1, <1>2, <2>1
<1>10. Table(1 .. n, LinesOf, m, across, sums, raws)
  BY <1>7, <1>8, <1>9 DEF Table
<1>11. Total(1 .. n, sums) = Total(LinesOf, raws)
  BY <1>5, <1>10, TotalExchange
<1>12. RawTaxOf(paise) = Total(LinesOf, raws)
  BY <1>3, RawTaxIs
<1>13. QED
  BY <1>4, <1>11, <1>12

\* What is taxable of a check whose part of the discount is within a paisa of its share is
\* within a paisa of its share of what is taxable of the bill.
LEMMA PartOfBill ==
    ASSUME NEW S \in Nat, NEW D \in Nat, D <= S, NEW s \in Nat, NEW cut \in Nat, cut <= s,
           S * cut <= D * s + S, D * s <= S * cut + S
    PROVE  Part(S, S - D, s, s - cut, 1)
<1>1. PICK x \in Int, y \in Int, z \in Int : x = S * s /\ y = S * cut /\ z = D * s
  OBVIOUS
<1>2. S * (s - cut) = x - y
  BY <1>1
<1>3. (S - D) * s = x - z
  BY <1>1
<1>4. 1 * S = S /\ S - D \in Nat
  OBVIOUS
<1>5. Near(x - y, x - z, S)
  BY <1>1 DEF Near
<1>6. QED
  BY <1>2, <1>3, <1>4, <1>5 DEF Part

\* The amounts of the checks on the till, and of its bill.
CheckTotals == [c \in Checks |-> CheckTotal(c)]
Whole == ComputeBill(LinePaise, ticket.discount, ticket.service)

\* The till's checks are the parts of its bill.
LEMMA ChecksPay ==
    ASSUME SplitsInv, ticket.how # "whole", NEW n, NEW subtotals, SharesOut(n, subtotals)
    PROVE  /\ n \in Nat /\ Checks = 1 .. n /\ Len(ticket.checks) = n /\ Whole \in Nat
           /\ \A c \in Checks : CheckTotal(c) \in Nat
           /\ Near(Total(1 .. n, CheckTotals), Whole, Roundings(n))
<1>1. n \in Nat /\ Checks = 1 .. n /\ subtotals = [c \in 1 .. n |-> TotalOf(ticket.checks[c])]
  BY DEF SharesOut, Checks
<1>2. PICK service \in ServiceRules : service = ticket.service
  BY MoneyTyped DEF SplitsInv, MoneyTypeOK
<1>3. PICK paise \in [LinesOf -> Nat] : paise = LinePaise
  BY BillLines DEF SplitsInv
<1>4. PICK d \in Nat : d = ticket.discount
  BY MoneyTyped, MoneyAssumption DEF SplitsInv, MoneyTypeOK
<1>5. PICK r \in Nat : r = SteepestRate
  BY RatesOfLines
<1>6. PICK p \in Nat : p = service.percent
  BY MoneyAssumption
<1>7. PICK tau \in {0, 1} : tau = TaxedToo(service)
  BY DEF TaxedToo
<1>8. PICK checks : checks = ticket.checks
  OBVIOUS
<1>9. PICK cuts \in [1 .. n -> Nat] : cuts = ticket.cuts
  BY DEF SharesOut
<1>10. \A c \in 1 .. n : checks[c] \in [LinesOf -> Nat]
  BY <1>8, RatesOfLines DEF SharesOut, ByLine
<1>11. PICK s : s = [c \in 1 .. n |-> TotalOf(checks[c])]
  OBVIOUS
<1>12. PICK t : t = [c \in 1 .. n |-> TaxableOf(checks[c], cuts[c])]
  OBVIOUS
<1>13. PICK raw : raw = [c \in 1 .. n |-> RawTaxOf(checks[c])]
  OBVIOUS
<1>14. PICK charge : charge = [c \in 1 .. n |-> ChargeOf(checks[c], cuts[c], service)]
  OBVIOUS
<1>15. PICK tax : tax = [c \in 1 .. n |-> TaxOf(checks[c], cuts[c], service)]
  OBVIOUS
<1>16. PICK S \in Nat, T \in Nat, R \in Nat, K \in Nat, X \in Nat :
          /\ S = TotalOf(paise) /\ T = TaxableOf(paise, d) /\ R = RawTaxOf(paise)
          /\ K = ChargeOf(paise, d, service) /\ X = TaxOf(paise, d, service)
  BY BillPriced DEF Priced
<1>17. Priced(S, T, R, r, p, tau, K, X)
  BY <1>5, <1>6, <1>7, <1>16, BillPriced
<1>18. ASSUME NEW c \in 1 .. n PROVE Priced(s[c], t[c], raw[c], r, p, tau, charge[c], tax[c])
  <2>1. Priced(TotalOf(checks[c]), TaxableOf(checks[c], cuts[c]), RawTaxOf(checks[c]), SteepestRate, service.percent,
               TaxedToo(service), ChargeOf(checks[c], cuts[c], service), TaxOf(checks[c], cuts[c], service))
    BY <1>10, BillPriced
  <2>2. /\ s[c] = TotalOf(checks[c]) /\ t[c] = TaxableOf(checks[c], cuts[c]) /\ raw[c] = RawTaxOf(checks[c])
        /\ charge[c] = ChargeOf(checks[c], cuts[c], service) /\ tax[c] = TaxOf(checks[c], cuts[c], service)
    BY <1>11, <1>12, <1>13, <1>14, <1>15
  <2>3. QED
    BY <1>5, <1>6, <1>7, <2>1, <2>2, Zenon
<1>19. PICK D \in Nat : D = Min({d, S}) /\ D <= S /\ T = S - D
  <2>1. Min({d, S}) \in Nat /\ Min({d, S}) <= S
    BY LesserOf
  <2>2. QED
    BY <1>16, <2>1 DEF TaxableOf
<1>20. s \in [1 .. n -> Nat] /\ s = subtotals /\ \A c \in 1 .. n : cuts[c] <= s[c]
  BY <1>1, <1>8, <1>9, <1>11 DEF SharesOut
<1>21. \A c \in 1 .. n : t[c] = s[c] - cuts[c]
  <2>1. ASSUME NEW c \in 1 .. n PROVE TaxableOf(checks[c], cuts[c]) = s[c] - cuts[c]
    <3>1. PICK a \in Nat, b \in Nat : a = cuts[c] /\ b = s[c] /\ a <= b
      BY <1>20
    <3>2. Min({a, b}) = a
      <4>1. {a, b} \in SUBSET Nat /\ {a, b} # {}
        OBVIOUS
      <4>2. Min({a, b}) \in {a, b} /\ \A x \in {a, b} : Min({a, b}) <= x
        BY <4>1, MinIn
      <4>3. QED
        BY <3>1, <4>2
    <3>3. TotalOf(checks[c]) = b
      BY <1>11, <3>1
    <3>4. QED
      BY <3>1, <3>2, <3>3 DEF TaxableOf
  <2>2. QED
    BY <1>12, <2>1
<1>22. ASSUME NEW c \in 1 .. n PROVE Part(S, T, s[c], t[c], 1)
  <2>1. S * cuts[c] <= D * s[c] + S /\ D * s[c] <= S * cuts[c] + S
    BY <1>3, <1>4, <1>9, <1>16, <1>19, <1>20 DEF SharesOut, NearShares
  <2>2. s[c] \in Nat /\ cuts[c] \in Nat /\ cuts[c] <= s[c]
    BY <1>20
  <2>3. Part(S, S - D, s[c], s[c] - cuts[c], 1)
    BY <1>19, <2>1, <2>2, PartOfBill
  <2>4. QED
    BY <1>19, <1>21, <2>3
<1>23. Total(1 .. n, s) = S
  BY <1>3, <1>16, <1>20 DEF SharesOut
<1>24. PICK I : I = 1 .. n /\ IsFiniteSet(I)
  BY <1>1, IntervalFinite
<1>25. Total(1 .. n, t) = T
  <2>1. Total(I, cuts) = D
    <3>1. cuts = [c \in 1 .. n |-> cuts[c]] /\ \A c \in 1 .. n : cuts[c] \in Int
      OBVIOUS
    <3>2. TotalOf(cuts) = Total(1 .. n, cuts)
      BY <1>1, <3>1, TotalOfIs
    <3>3. QED
      BY <1>3, <1>4, <1>9, <1>16, <1>19, <1>24, <3>2 DEF SharesOut
  <2>2. \A c \in I : t[c] \in Int /\ cuts[c] \in Int /\ s[c] = t[c] + cuts[c]
    BY <1>20, <1>21, <1>24
  <2>3. Total(I, s) = Total(I, t) + Total(I, cuts)
    BY <1>24, <2>2, TotalAdd, Zenon
  <2>4. Total(I, t) \in Int
    BY <1>24, <2>2, TotalType
  <2>5. QED
    BY <1>19, <1>23, <1>24, <2>1, <2>3, <2>4
<1>26. Total(1 .. n, raw) = R
  <2>1. ByLine(Len(LineRates), n, checks, paise)
    BY <1>3, <1>8 DEF SharesOut
  <2>2. QED
    BY <1>1, <1>13, <1>16, <2>1, RawTaxesAdd
<1>27. PICK g : g = Full + tau * p
  OBVIOUS
<1>28. Rules(r, p, tau, g)
  BY <1>27 DEF Rules
<1>29. SplitBill(n, s, t, raw, charge, tax, S, T, R, K, X, r, p, tau, g)
  BY <1>1, <1>17, <1>18, <1>22, <1>23, <1>25, <1>26, <1>28, Zenon DEF SplitBill
<1>30. \A c \in 1 .. n : CheckTotals[c] = t[c] + charge[c] + tax[c] /\ CheckTotal(c) = t[c] + charge[c] + tax[c]
  <2>1. ASSUME NEW c \in 1 .. n PROVE CheckTotal(c) = t[c] + charge[c] + tax[c]
    <3>1. CheckTotal(c) = ComputeBill(checks[c], cuts[c], service)
      BY <1>2, <1>8, <1>9 DEF CheckTotal
    <3>2. ComputeBill(checks[c], cuts[c], service)
              = TaxableOf(checks[c], cuts[c]) + ChargeOf(checks[c], cuts[c], service) + TaxOf(checks[c], cuts[c], service)
      BY BillComes
    <3>3. QED
      BY <1>12, <1>14, <1>15, <3>1, <3>2
  <2>2. QED
    BY <1>1, <2>1 DEF CheckTotals
<1>31. Whole = T + K + X
  BY <1>2, <1>3, <1>4, <1>16, BillComes DEF Whole
<1>32. Near(Total(1 .. n, CheckTotals), T + K + X, RoundingRoom(n, r, p))
  <2>1. PICK due : due = [c \in 1 .. n |-> t[c] + charge[c] + tax[c]]
    OBVIOUS
  <2>2. Dues(n, t, charge, tax, due)
    BY <2>1 DEF Dues
  <2>3. Near(Total(1 .. n, due), T + K + X, RoundingRoom(n, r, p))
    BY <1>29, <2>2, DuesNear, Zenon
  <2>4. CheckTotals = due
    BY <1>1, <1>30, <2>1 DEF CheckTotals
  <2>5. QED
    BY <2>3, <2>4
<1>33. RoundingRoom(n, r, p) = Roundings(n)
  <2>1. Hundred = Full /\ HalfHundred = Half
    BY DEF Hundred, HalfHundred, Full, Half
  <2>2. QED
    BY <1>2, <1>5, <1>6, <2>1 DEF RoundingRoom, Roundings, Fine
<1>34. Near(Total(1 .. n, CheckTotals), Whole, Roundings(n))
  BY <1>31, <1>32, <1>33, Zenon
<1>35. \A c \in Checks : CheckTotal(c) \in Nat
  <2>1. \A c \in 1 .. n : t[c] \in Nat /\ charge[c] \in Nat /\ tax[c] \in Nat
    BY <1>18 DEF Priced
  <2>2. ASSUME NEW c \in 1 .. n PROVE CheckTotal(c) \in Nat
    <3>1. PICK x \in Nat, y \in Nat, z \in Nat : x = t[c] /\ y = charge[c] /\ z = tax[c]
      BY <2>1
    <3>2. CheckTotal(c) = x + y + z
      BY <1>30, <3>1
    <3>3. QED
      BY <3>2
  <2>3. QED
    BY <1>1, <2>2
<1>36. Len(ticket.checks) = n
  BY DEF SharesOut
<1>37. QED
  BY <1>1, <1>31, <1>34, <1>35, <1>36

\* A total rounded off to whole rupees moves by half a rupee at most.
LEMMA RoundOffNear ==
    ASSUME NEW x \in Nat
    PROVE  RoundOff(x) \in Nat /\ Near(RoundOff(x), x, 50)
<1>1. PICK q : q = (2 * x + 100) \div (2 * 100)
  OBVIOUS
<1>2. q \in Nat /\ Near(100 * q, x, 50)
  <2>1. 50 \in Nat \ {0} /\ 100 = 2 * 50
    OBVIOUS
  <2>2. QED
    BY <1>1, <2>1, HalfUp
<1>3. RoundOff(x) = q * 100
  BY <1>1 DEF RoundOff, RoundedQuotient
<1>4. q * 100 = 100 * q /\ 100 * q \in Nat
  BY <1>2
<1>5. QED
  BY <1>2, <1>3, <1>4

\* The roundings of n checks are a number of paise.
LEMMA RoundingsCount ==
    ASSUME MoneyTypeOK, NEW n \in Nat
    PROVE  Roundings(n) \in Nat
<1>1. PICK r \in Nat, p \in Nat : r = SteepestRate /\ p = ticket.service.percent
  BY RatesOfLines, MoneyAssumption DEF MoneyTypeOK
<1>2. PICK m \in Nat : m = n * (Full + Half + p) + Half
  BY <1>1 DEF Full, Half
<1>3. PICK y \in Nat : y = r * m
  <2>1. r * m \in Nat
    BY <1>1, <1>2
  <2>2. QED
    BY <2>1
<1>4. y \div (Full * Full) \in Nat
  BY DEF Full
<1>5. Roundings(n) = n + 1 + y \div (Full * Full)
  <2>1. Hundred = Full /\ HalfHundred = Half
    BY DEF Hundred, HalfHundred, Full, Half
  <2>2. QED
    BY <1>1, <1>2, <1>3, <2>1 DEF Roundings
<1>6. QED
  BY <1>4, <1>5

\* The guests of a split bill pay it together, but for the roundings.
LEMMA SplitsPay == SplitsInv => SplitPaysTheBill
<1> SUFFICES ASSUME SplitsInv, ticket.how # "whole" PROVE SplitPaysTheBill
  BY DEF SplitPaysTheBill
<1>1. PICK n, subtotals : SharesOut(n, subtotals)
  BY DEF SplitsInv
<1>2. n \in Nat /\ Checks = 1 .. n /\ Len(ticket.checks) = n
  BY <1>1, ChecksPay
<1>3. PICK whole \in Nat : whole = Whole
  BY <1>1, ChecksPay
<1>4. PICK due : due = CheckTotals
  OBVIOUS
<1>5. due = [c \in 1 .. n |-> CheckTotal(c)] /\ \A c \in 1 .. n : due[c] \in Nat
  BY <1>1, <1>2, <1>4, ChecksPay DEF CheckTotals
<1>6. PICK k \in Nat : k = Roundings(n)
  BY <1>2, MoneyTyped, RoundingsCount DEF SplitsInv
<1>7. Near(Total(1 .. n, due), whole, k)
  BY <1>1, <1>3, <1>4, <1>6, ChecksPay
<1>8. TotalOf(due) = Total(1 .. n, due)
  <2>1. due = [c \in 1 .. n |-> due[c]] /\ \A c \in 1 .. n : due[c] \in Int
    BY <1>5
  <2>2. QED
    BY <1>2, <2>1, TotalOfIs
<1>9. PICK off : off = [c \in 1 .. n |-> RoundOff(CheckTotal(c))]
  OBVIOUS
<1>10. \A c \in 1 .. n : off[c] \in Int /\ due[c] \in Int /\ Near(off[c], due[c], 50)
  <2>1. ASSUME NEW c \in 1 .. n PROVE off[c] \in Int /\ due[c] \in Int /\ Near(off[c], due[c], 50)
    <3>1. PICK x \in Nat : x = CheckTotal(c) /\ x = due[c]
      BY <1>5
    <3>2. RoundOff(x) \in Nat /\ Near(RoundOff(x), x, 50)
      BY RoundOffNear
    <3>3. off[c] = RoundOff(x)
      BY <1>9, <3>1
    <3>4. QED
      BY <3>1, <3>2, <3>3
  <2>2. QED
    BY <2>1
<1>11. PICK I : I = 1 .. n /\ IsFiniteSet(I) /\ Cardinality(I) = n
  BY <1>2, IntervalFinite
<1>12. Near(Total(I, off), Total(I, due), 50 * Cardinality(I))
  <2>1. 50 \in Nat /\ IsFiniteSet(I)
    BY <1>11
  <2>2. \A c \in I : off[c] \in Int /\ due[c] \in Int /\ Near(off[c], due[c], 50)
    BY <1>10, <1>11
  <2>3. QED
    BY <2>1, <2>2, NearTotal
<1>13. TotalOf(off) = Total(1 .. n, off)
  <2>1. off = [c \in 1 .. n |-> off[c]] /\ \A c \in 1 .. n : off[c] \in Int
    BY <1>9, <1>10
  <2>2. QED
    BY <1>2, <2>1, TotalOfIs
<1>14. PICK a \in Int, b \in Int : a = Total(I, off) /\ b = Total(I, due)
  BY <1>10, <1>11, TotalType
<1>15. PICK rounded \in Nat : rounded = RoundOff(whole) /\ Near(rounded, whole, 50)
  BY <1>3, RoundOffNear
<1>16. Apart(a, rounded, k + 50 * (n + 1)) /\ Apart(b, whole, k)
  <2>1. Near(a, b, 50 * n)
    BY <1>11, <1>12, <1>14
  <2>2. Near(b, whole, k)
    BY <1>7, <1>11, <1>14
  <2>3. QED
    BY <1>2, <1>15, <2>1, <2>2 DEF Near, Apart
<1>17. Apart(TotalOf([c \in Checks |-> CheckTotal(c)]), Whole, Roundings(n))
  BY <1>2, <1>3, <1>5, <1>6, <1>8, <1>11, <1>14, <1>16
<1>18. Apart(TotalOf([c \in Checks |-> RoundOff(CheckTotal(c))]), RoundOff(Whole), Roundings(n) + 50 * (n + 1))
  BY <1>2, <1>3, <1>6, <1>9, <1>11, <1>13, <1>14, <1>15, <1>16
<1>19. QED
  BY <1>2, <1>17, <1>18 DEF SplitPaysTheBill, Whole

(* The counter and the floor together. *)

\* What every component at the counter and on the floor keeps.
CounterInv ==
    TenderInv /\ CashInv /\ CollectInv /\ ScanInv /\ TableInv /\ BookInv /\ MoneyInv

\* A step at the counter is a step of one component that leaves the others alone.
LEMMA CounterSteps ==
    ASSUME [CounterNext]_counterVars
    PROVE  /\ [TenderNext]_tenderVars /\ [CashNext]_cashVars /\ [CollectNext]_collectVars
           /\ [ScanNext]_scanVars /\ [TableNext]_tableVars /\ [BookNext]_bookVars /\ [MoneyNext]_ticket
<1>1. CASE CounterNext
  BY <1>1 DEF CounterNext
<1>2. CASE UNCHANGED counterVars
  BY <1>2 DEF counterVars
<1>3. QED
  BY <1>1, <1>2

\* So what each of them keeps, they keep together.
LEMMA CounterKeeps == CounterInv /\ [CounterNext]_counterVars => CounterInv'
BY CounterSteps, TenderStep, CashStep, CollectStep, ScanKeeps, TableKeeps, HostsKeep, MoneyKeeps DEF CounterInv

\* And it holds when the day begins.
LEMMA CounterStarts == CounterInit => CounterInv
<1>1. CollectInit => CollectInv
  BY DEF CollectInit, CollectInv, CollectTypeOK, CaptureWins, CaptureEvidence
<1>2. QED
  BY <1>1, TenderStarts, CashStarts, ScanStarts, TableStarts, BookStarts, MoneyStarts DEF CounterInit, CounterInv

(* Theorems. *)

\* However accepts and rejects of scan-order.service.ts race and die between their
\* statements, a request is punched once, and a token is shared by no more requests
\* than calls can overlap.
THEOREM ScanCorrect == ScanSpec => [](ScanTypeOK /\ ScanSound)
BY ScanStarts, ScanKeeps, ScanPromises, PTL DEF ScanSpec

\* Whoever works the waitlist, the calls, the parked carts and the displays at the
\* same time (foh services, parked.service.ts), each is served once.
THEOREM ServiceCorrect == TableSpec => [](TableTypeOK /\ ServedOnce)
BY TableStarts, TableKeeps, TablePromises, PTL DEF TableSpec

\* reservations.service.ts promises no table twice for the same time, but for parties
\* seated by hand, and its calls do not wait for each other's rows in a circle.
THEOREM BookingsCorrect == BookSpec => [](BookTypeOK /\ BookingsSound)
BY BookStarts, HostsKeep, BookPromises, PTL DEF BookSpec

\* The rows, locks, calls and bills of the services at the counter and on the floor
\* keep their types, whichever of them runs.
THEOREM CounterTypes == CounterSpec => []CounterTypeOK
<1>1. TenderInv /\ CashInv /\ CollectInv => TenderTypeOK /\ CashTypeOK /\ CollectTypeOK
  BY DEF TenderInv, CashInv, CollectInv
<1>2. CounterInv => CounterTypeOK
  BY <1>1, ScanPromises, TablePromises, BookPromises, MoneyTyped DEF CounterInv, CounterTypeOK
<1>3. QED
  BY <1>2, CounterStarts, CounterKeeps, PTL DEF CounterSpec

\* packages/shared/src/billing.ts splits a bill without losing or inventing money, whatever
\* its lines, rates, prices, discount and service charge, percentages with two decimals
\* included: splitLinesEqually and the checks by item add up to it to the paisa, and equal
\* checks are within a paisa of each other; allocatePaise gives the whole discount away,
\* none of the checks more than it has food; and what computeBill makes the guests pay
\* together is the bill but for its roundings.
THEOREM MoneyCorrect == MoneySpec => [](MoneyTypeOK /\ MoneySound)
<1>1. MoneyInit => SplitsInv
  <2>1. MoneyInit => ticket.how = "whole"
    BY DEF MoneyInit, Rung
  <2>2. QED
    BY <2>1, MoneyStarts DEF SplitsInv
<1>2. SplitsInv => MoneyTypeOK /\ MoneySound
  BY MoneyTyped, SplitsPromise, SplitsPay DEF SplitsInv, MoneySound
<1>3. QED
  BY <1>1, <1>2, SplitsKeep, PTL DEF MoneySpec

\* Where guests and staff race for the same request, guest, cart, call or table, the
\* services of the floor serve each of them once (FloorSound).
THEOREM FloorCorrect == CounterSpec => []FloorSound
<1>1. CounterInv => FloorSound
  BY ScanPromises, TablePromises, BookPromises DEF CounterInv, FloorSound
<1>2. QED
  BY <1>1, CounterStarts, CounterKeeps, PTL DEF CounterSpec
=============================================================================

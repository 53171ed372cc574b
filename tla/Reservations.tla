---------------------------- MODULE Reservations ----------------------------
(***************************************************************************)
(* Table bookings.                                                         *)
(* Source: apps/api/src/foh/reservations.service.ts, with the transitions  *)
(* and the overlap test of packages/shared/src/foh.ts.                     *)
(*                                                                         *)
(* A booking is checked and written in one transaction that first locks    *)
(* the rows it depends on: its own row, then the tables in id order.       *)
(* Statements of two transactions interleave; each reads what committed.   *)
(***************************************************************************)
EXTENDS Naturals, FiniteSets, FiniteSetsExt

CONSTANTS
    Bookings,       \* reservations that can be made, as numbers
    Tables,         \* dining tables, as other numbers
    Wishes,         \* what a caller may ask for: [start, minutes, tables]
    MaxDuration,    \* the longest booking accepted
    Hosts           \* concurrent calls

ASSUME ReservationAssumption ==
    /\ Bookings \cup Tables \subseteq Nat /\ Bookings \cap Tables = {}
    /\ MaxDuration \in Nat /\ IsFiniteSet(Hosts) /\ "nobody" \notin Hosts
    /\ Wishes \subseteq [start : Nat, minutes : 1 .. MaxDuration, tables : SUBSET Tables]

VARIABLES
    booking,    \* reservations: status, time, tables, and the tables added by
                \* seating the party elsewhere (also in .tables)
    running,    \* the tables with a running order
    bookLock,   \* holder of each reservation's and each table's row lock
    host        \* each call's progress

bookVars == <<booking, running, bookLock, host>>

BLOCKING == {"BOOKED", "CONFIRMED", "SEATED"}
TRANSITIONS == [BOOKED |-> {"CONFIRMED", "SEATED", "NO_SHOW", "CANCELLED"},
                CONFIRMED |-> {"BOOKED", "SEATED", "NO_SHOW", "CANCELLED"},
                SEATED |-> {}, NO_SHOW |-> {"BOOKED"}, CANCELLED |-> {"BOOKED"}]

NoHost == [at |-> "idle"]
Nobody == "nobody"
NotMade == [status |-> "NONE", start |-> 0, minutes |-> 0, tables |-> {}, walked |-> {}]

BookTypeOK ==
    /\ \A b \in Bookings :
        /\ booking[b].status \in {"NONE"} \cup DOMAIN TRANSITIONS
        /\ booking[b].walked \subseteq booking[b].tables /\ booking[b].tables \subseteq Tables
    /\ running \subseteq Tables
    /\ bookLock \in [Bookings \cup Tables -> Hosts \cup {Nobody}]
    /\ \A h \in Hosts : host[h].at \in {"idle", "row", "tables", "check", "write"}

BookInit ==
    /\ booking = [b \in Bookings |-> NotMade]
    /\ running = {}
    /\ bookLock = [x \in Bookings \cup Tables |-> Nobody]
    /\ host = [h \in Hosts |-> NoHost]

-----------------------------------------------------------------------------
\* Half-open intervals: a booking that ends at 20:00 leaves 20:00 free.
IntervalsOverlap(a, b) == a.start < b.start + b.minutes /\ b.start < a.start + a.minutes

\* The candidates a query finds: blocking, on one of the tables, and starting in
\* a window that is as wide as the longest booking.
Candidates(b, want) ==
    {c \in Bookings \ {b} :
        /\ booking[c].status \in BLOCKING
        /\ booking[c].tables \cap want.tables # {}
        /\ booking[c].start + MaxDuration > want.start
        /\ booking[c].start < want.start + want.minutes}

Clashes(b, want) == \E c \in Candidates(b, want) : IntervalsOverlap(want, booking[c])

Waits(h, at, op) == host' = [host EXCEPT ![h] = [op EXCEPT !.at = at]]
Ends(h) ==
    /\ host' = [host EXCEPT ![h] = NoHost]
    /\ bookLock' = [x \in DOMAIN bookLock |-> IF bookLock[x] = h THEN Nobody ELSE bookLock[x]]

\* A call on reservation b: what it does, the time and tables it will hold.
Call(kind, at, b, want, to) ==
    [kind |-> kind, at |-> at, b |-> b, want |-> want, to |-> to, need |-> want.tables]

\* Ids are given out in order.  A party that names no table has nothing to lock or check.
Unmade == {b \in Bookings : /\ booking[b].status = "NONE"
                            /\ \A k \in Hosts : host[k] # NoHost => host[k].b # b}

BeginBooking(h, b, want) ==
    /\ host[h] = NoHost
    /\ b \in Unmade /\ b = Min(Unmade)
    /\ LET at == IF want.tables = {} THEN "write" ELSE "tables" IN
       host' = [host EXCEPT ![h] = Call("create", at, b, want, "BOOKED")]
    /\ UNCHANGED <<booking, running, bookLock>>

\* update, setStatus and seat start by locking the reservation's own row.
BeginChange(h, b, kind, want, to) ==
    /\ host[h] = NoHost
    /\ booking[b].status # "NONE"
    /\ host' = [host EXCEPT ![h] = Call(kind, "row", b, want, to)]
    /\ UNCHANGED <<booking, running, bookLock>>

\* What the locked row allows, and the tables to lock next; a refusal ends the call.
Editable(b) == booking[b].status \in BLOCKING \ {"SEATED"}
Held(b) == [start |-> booking[b].start, minutes |-> booking[b].minutes, tables |-> booking[b].tables]

RowAllows(op) ==
    CASE op.kind = "update" -> Editable(op.b)
      [] op.kind = "seat" -> booking[op.b].status \in {"BOOKED", "CONFIRMED"}
      [] op.kind = "status" -> op.to \in TRANSITIONS[booking[op.b].status]

\* Reinstating claims the reservation's tables again; other moves claim none.
Reinstates(op) == op.kind = "status" /\ op.to = "BOOKED" /\ booking[op.b].status \notin BLOCKING

LockRow(h) ==
    /\ host[h].at = "row"
    /\ LET op == host[h] IN
       /\ bookLock[op.b] = Nobody
       /\ \/ /\ ~RowAllows(op)
             /\ host' = [host EXCEPT ![h] = NoHost]
             /\ UNCHANGED bookLock
          \/ /\ RowAllows(op)
             /\ bookLock' = [bookLock EXCEPT ![op.b] = h]
             /\ LET want == IF op.kind = "status" THEN Held(op.b) ELSE op.want
                    need == IF op.kind # "status" \/ Reinstates(op) THEN want.tables ELSE {}
                IN Waits(h, IF need = {} THEN "write" ELSE "tables",
                         [op EXCEPT !.want = want, !.need = need])
    /\ UNCHANGED <<booking, running>>

TableLock(h, t) ==
    /\ bookLock[t] = Nobody
    /\ bookLock' = [bookLock EXCEPT ![t] = h]

LockNextTable(h) ==
    /\ host[h].at = "tables"
    /\ LET t == Min(host[h].need)
           rest == host[h].need \ {t}
       IN /\ TableLock(h, t)
          /\ Waits(h, IF rest = {} THEN "check" ELSE "tables", [host[h] EXCEPT !.need = rest])
    /\ UNCHANGED <<booking, running>>

\* lockAndCheck looks for an overlapping booking; assertTableFree, which seating
\* uses instead, only for a running order on the table.
Refused(op) ==
    IF op.kind = "seat" THEN op.want.tables \cap running # {} ELSE Clashes(op.b, op.want)

CheckTables(h) ==
    /\ host[h].at = "check"
    /\ \/ Refused(host[h]) /\ Ends(h)
       \/ ~Refused(host[h]) /\ Waits(h, "write", host[h]) /\ UNCHANGED bookLock
    /\ UNCHANGED <<booking, running>>

Written(op) ==
    LET old == booking[op.b] IN
    CASE op.kind = "create" ->
            [status |-> "BOOKED", start |-> op.want.start, minutes |-> op.want.minutes,
             tables |-> op.want.tables, walked |-> {}]
      [] op.kind = "update" ->
            [old EXCEPT !.start = op.want.start, !.minutes = op.want.minutes, !.tables = op.want.tables]
      [] op.kind = "status" -> [old EXCEPT !.status = op.to]
      [] op.kind = "seat" ->
            [old EXCEPT !.status = "SEATED", !.tables = @ \cup op.want.tables,
                        !.walked = op.want.tables \ old.tables]

WriteBooking(h) ==
    /\ host[h].at = "write"
    /\ booking' = [booking EXCEPT ![host[h].b] = Written(host[h])]
    /\ Ends(h)
    /\ UNCHANGED running

-----------------------------------------------------------------------------
\* The table's orders come and go (module Bills), under the table's row lock.
OrderOnTable(t) ==
    /\ bookLock[t] = Nobody
    /\ running' = IF t \in running THEN running \ {t} ELSE running \cup {t}
    /\ UNCHANGED <<booking, bookLock, host>>

\* A call dies: its transaction rolls back and its locks are released.
HostDies(h) ==
    /\ host[h] # NoHost
    /\ Ends(h)
    /\ UNCHANGED <<booking, running>>

BookNext ==
    \/ \E h \in Hosts, b \in Bookings :
        \/ \E w \in Wishes : BeginBooking(h, b, w) \/ BeginChange(h, b, "update", w, "BOOKED")
        \/ \E s \in DOMAIN TRANSITIONS \ {"SEATED"} : BeginChange(h, b, "status", Held(b), s)
        \/ \E t \in Tables : BeginChange(h, b, "seat", [Held(b) EXCEPT !.tables = {t}], "SEATED")
    \/ \E h \in Hosts :
        \/ LockRow(h)
        \/ LockNextTable(h)
        \/ CheckTables(h)
        \/ WriteBooking(h)
        \/ HostDies(h)
    \/ \E t \in Tables : OrderOnTable(t)

BookSpec == BookInit /\ [][BookNext]_bookVars

-----------------------------------------------------------------------------
(* No table is promised twice for the same time: two blocking bookings     *)
(* that overlap share a table only if one party was seated at it by hand   *)
(* (seat checks for a running order, not for the table's bookings).        *)
NoDoubleBooking ==
    \A b, c \in Bookings :
        b # c /\ {booking[b].status, booking[c].status} \subseteq BLOCKING
              /\ IntervalsOverlap(booking[b], booking[c])
        => (booking[b].tables \cap booking[c].tables) \subseteq (booking[b].walked \cup booking[c].walked)

\* However many calls wait for each other's rows, they never wait in a circle.
HostWaitsFor(h, k) ==
    \/ host[h].at = "row" /\ bookLock[host[h].b] = k
    \/ host[h].at = "tables" /\ bookLock[Min(host[h].need)] = k
HostCycle(C) == C # {} /\ \A h \in C : \E k \in C : HostWaitsFor(h, k)
HostsDoNotDeadlock == \A C \in SUBSET Hosts : ~HostCycle(C)

\* What the booking desk promises.
BookingsSound == NoDoubleBooking /\ HostsDoNotDeadlock
=============================================================================

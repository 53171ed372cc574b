---------------------------- MODULE TableService ----------------------------
(***************************************************************************)
(* Small desks of the floor that several people work at once: calls from a *)
(* table, the waitlist, parked carts and customer-facing displays.         *)
(* Sources: apps/api/src/foh/server-calls.service.ts, the waitlist of      *)
(* foh/reservations.service.ts, billing/parked.service.ts,                 *)
(* foh/cfd.service.ts.                                                     *)
(*                                                                         *)
(* Each desk settles its races with one conditional statement or one row   *)
(* lock.  Only what is read before that statement interleaves with others. *)
(***************************************************************************)
EXTENDS Naturals, FiniteSets

CONSTANTS
    CallIds,        \* server calls that can be raised, all for one table and type
    Taps,           \* concurrent taps on "call the waiter"
    Guests,         \* waitlist entries
    MaxNotices,     \* bound on messages to one waiting guest
    Carts,          \* parked carts
    Displays,       \* display sessions
    Terminals       \* concurrent staff calls

ASSUME TableAssumption == "nobody" \notin Taps /\ MaxNotices \in Nat /\ IsFiniteSet(Terminals)

VARIABLES
    tableCall,  \* server_calls: status of each call
    tapLock,    \* holder of the table's row lock
    tap,        \* each tap's progress
    waiting,    \* waitlist_entries: status, messages sent, times seated
    cart,       \* parked_carts: none, parked, or taken; how often it was taken
    display,    \* cfd_sessions: state, how often it was claimed
    work        \* what each terminal read and is about to write

tableVars == <<tableCall, tapLock, tap, waiting, cart, display, work>>

ACTIVE == {"OPEN", "ACKNOWLEDGED"}

WAITS == {"WAITING", "NOTIFIED"}

NoWork == [at |-> "idle"]

TableTypeOK ==
    /\ tableCall \in [CallIds -> {"NONE", "OPEN", "ACKNOWLEDGED", "RESOLVED"}]
    /\ tapLock \in Taps \cup {"nobody"}
    /\ tap \in [Taps -> {"idle", "locked", "create"}]
    /\ waiting \in [Guests -> [status: {"NONE", "LEFT", "SEATED"} \cup WAITS,
                               told: 0 .. MaxNotices, seated: Nat]]
    /\ cart \in [Carts -> [parked: BOOLEAN, made: BOOLEAN, taken: Nat]]
    /\ display \in [Displays -> [state: {"NONE", "UNPAIRED", "PAIRED", "GONE"}, claimed: Nat]]
    /\ \A w \in Terminals : work[w] = NoWork \/ work[w].at \in {"tell", "claim", "pair"}

TableInit ==
    /\ tableCall = [c \in CallIds |-> "NONE"]
    /\ tapLock = "nobody"
    /\ tap = [t \in Taps |-> "idle"]
    /\ waiting = [g \in Guests |-> [status |-> "NONE", told |-> 0, seated |-> 0]]
    /\ cart = [c \in Carts |-> [parked |-> FALSE, made |-> FALSE, taken |-> 0]]
    /\ display = [d \in Displays |-> [state |-> "NONE", claimed |-> 0]]
    /\ work = [w \in Terminals |-> NoWork]

Begins(w, at, what) == work[w] = NoWork /\ work' = [work EXCEPT ![w] = [at |-> at, of |-> what]]

Finished(w) == work' = [work EXCEPT ![w] = NoWork]

-----------------------------------------------------------------------------

\* Server calls.
TableRowLock(t) == tapLock = "nobody" /\ tapLock' = t

\* raise: under the table's row lock ...
TapLocks(t) ==
    /\ tap[t] = "idle"
    /\ TableRowLock(t)
    /\ tap' = [tap EXCEPT ![t] = "locked"]
    /\ UNCHANGED <<tableCall, waiting, cart, display, work>>

TapEnds(t) ==
    /\ tapLock' = IF tapLock = t THEN "nobody" ELSE tapLock

\* ... an active call of the table is returned as it is, or one is created.
TapReads(t) ==
    /\ tap[t] = "locked"
    /\ IF \E c \in CallIds : tableCall[c] \in ACTIVE
       THEN tap' = [tap EXCEPT ![t] = "idle"] /\ TapEnds(t)
       ELSE tap' = [tap EXCEPT ![t] = "create"] /\ UNCHANGED tapLock
    /\ UNCHANGED <<tableCall, waiting, cart, display, work>>

TapCreates(t, c) ==
    /\ tap[t] = "create"
    /\ tableCall[c] = "NONE"
    /\ tableCall' = [tableCall EXCEPT ![c] = "OPEN"]
    /\ tap' = [tap EXCEPT ![t] = "idle"]
    /\ TapEnds(t)
    /\ UNCHANGED <<waiting, cart, display, work>>

TapRollsBack(t) ==
    /\ tap[t] # "idle"
    /\ tap' = [tap EXCEPT ![t] = "idle"]
    /\ TapEnds(t)
    /\ UNCHANGED <<tableCall, waiting, cart, display, work>>

\* transition: one conditional update.
MoveCall(c, from, to) ==
    /\ tableCall[c] \in from
    /\ tableCall' = [tableCall EXCEPT ![c] = to]
    /\ UNCHANGED <<tapLock, tap, waiting, cart, display, work>>

AcknowledgeCall(c) == MoveCall(c, {"OPEN"}, "ACKNOWLEDGED")

ResolveCall(c) == MoveCall(c, ACTIVE, "RESOLVED")

-----------------------------------------------------------------------------

\* The waitlist.
JoinWaitlist(g) ==
    /\ waiting[g].status = "NONE"
    /\ waiting' = [waiting EXCEPT ![g].status = "WAITING"]
    /\ UNCHANGED <<tableCall, tapLock, tap, cart, display, work>>

\* notify: the entry is read, the message goes out ...
TellGuest(w, g) ==
    /\ waiting[g].status \in WAITS
    /\ waiting[g].told < MaxNotices
    /\ waiting' = [waiting EXCEPT ![g].told = @ + 1]
    /\ Begins(w, "tell", g)
    /\ UNCHANGED <<tableCall, tapLock, tap, cart, display>>

\* ... and the entry becomes NOTIFIED by id, whatever it is by now.
GuestTold(w) ==
    /\ work[w].at = "tell"
    /\ waiting' = [waiting EXCEPT ![work[w].of].status = "NOTIFIED"]
    /\ Finished(w)
    /\ UNCHANGED <<tableCall, tapLock, tap, cart, display>>

StillWaiting(g) == waiting[g].status \in WAITS

\* seatFromWaitlist: one transaction under the entry's and the table's row locks;
\* a table with a running order refuses it.
SeatGuest(g) ==
    /\ StillWaiting(g)
    /\ waiting' = [waiting EXCEPT ![g].status = "SEATED", ![g].seated = @ + 1]
    /\ UNCHANGED <<tableCall, tapLock, tap, cart, display, work>>

LeaveWaitlist(g) ==
    /\ waiting[g].status \in WAITS
    /\ waiting' = [waiting EXCEPT ![g].status = "LEFT"]
    /\ UNCHANGED <<tableCall, tapLock, tap, cart, display, work>>

-----------------------------------------------------------------------------

\* Parked carts.
ParkCart(c) ==
    /\ ~cart[c].made
    /\ cart' = [cart EXCEPT ![c].made = TRUE, ![c].parked = TRUE]
    /\ UNCHANGED <<tableCall, tapLock, tap, waiting, display, work>>

\* claim (resume and discard): the cart is read, and its deletion decides.
ReadCart(w, c) ==
    /\ cart[c].parked
    /\ Begins(w, "claim", c)
    /\ UNCHANGED <<tableCall, tapLock, tap, waiting, cart, display>>

CartDeleted(c) == cart[c].parked

ClaimCart(w) ==
    /\ work[w].at = "claim"
    /\ LET c == work[w].of IN
       cart' = IF CartDeleted(c) THEN [cart EXCEPT ![c].parked = FALSE, ![c].taken = @ + 1] ELSE cart
    /\ Finished(w)
    /\ UNCHANGED <<tableCall, tapLock, tap, waiting, display>>

-----------------------------------------------------------------------------

\* Customer-facing displays.
StartDisplay(d) ==
    /\ display[d].state = "NONE"
    /\ display' = [display EXCEPT ![d].state = "UNPAIRED"]
    /\ UNCHANGED <<tableCall, tapLock, tap, waiting, cart, work>>

\* pair: the session of a code is read; a conditional update claims it.
ReadCode(w, d) ==
    /\ display[d].state = "UNPAIRED"
    /\ Begins(w, "pair", d)
    /\ UNCHANGED <<tableCall, tapLock, tap, waiting, cart, display>>

PairDisplay(w) ==
    /\ work[w].at = "pair"
    /\ LET d == work[w].of IN
       display' = IF display[d].state = "UNPAIRED"
                  THEN [display EXCEPT ![d].state = "PAIRED", ![d].claimed = @ + 1] ELSE display
    /\ Finished(w)
    /\ UNCHANGED <<tableCall, tapLock, tap, waiting, cart>>

\* unpair, or a session that expired is deleted when another display starts.
DropDisplay(d) ==
    /\ display[d].state \in {"UNPAIRED", "PAIRED"}
    /\ display' = [display EXCEPT ![d].state = "GONE"]
    /\ UNCHANGED <<tableCall, tapLock, tap, waiting, cart, work>>

\* A terminal's request dies between its read and its write.
WorkDies(w) ==
    /\ work[w] # NoWork
    /\ Finished(w)
    /\ UNCHANGED <<tableCall, tapLock, tap, waiting, cart, display>>

TableNext ==
    \/ \E t \in Taps : TapLocks(t) \/ TapReads(t) \/ TapRollsBack(t) \/ \E c \in CallIds : TapCreates(t, c)
    \/ \E c \in CallIds : AcknowledgeCall(c) \/ ResolveCall(c)
    \/ \E g \in Guests : JoinWaitlist(g) \/ SeatGuest(g) \/ LeaveWaitlist(g)
    \/ \E c \in Carts : ParkCart(c)
    \/ \E d \in Displays : StartDisplay(d) \/ DropDisplay(d)
    \/ \E w \in Terminals :
        \/ \E g \in Guests : TellGuest(w, g)
        \/ \E c \in Carts : ReadCart(w, c)
        \/ \E d \in Displays : ReadCode(w, d)
        \/ GuestTold(w) \/ ClaimCart(w) \/ PairDisplay(w) \/ WorkDies(w)

TableSpec == TableInit /\ [][TableNext]_tableVars

-----------------------------------------------------------------------------

\* A diner who taps repeatedly has one call of a kind on the floor.
OneActiveCall == Cardinality({c \in CallIds : tableCall[c] \in ACTIVE}) <= 1

\* A waiting party is given one table; a message under way while it is seated
\* (or leaves) puts it back on the list, at most once per message.
GuestSeatedOnce == \A g \in Guests : waiting[g].seated <= 1 + waiting[g].told

\* A parked cart is resumed (or discarded) on one terminal only.
CartTakenOnce == \A c \in Carts : cart[c].taken <= 1

\* A display's code pairs it with one outlet only.
DisplayClaimedOnce == \A d \in Displays : display[d].claimed <= 1

\* Whoever works a desk of the floor at the same time, a call, a guest, a
\* cart and a display are each served once.
ServedOnce == OneActiveCall /\ GuestSeatedOnce /\ CartTakenOnce /\ DisplayClaimedOnce
=============================================================================

------------------------------ MODULE CashBook ------------------------------
(***************************************************************************)
(* Cash drawers, the expense book and the day book: cash.service.ts        *)
(* (openDrawer, closeDrawer, addMovement, report), finance.service.ts      *)
(* (createExpense, voidExpense, dayBook), giveAdvance of payroll.service,  *)
(* and the cash side of settle, edge ingestion, refund and gift card       *)
(* issue.  Every amount is one unit, all on one day.                       *)
(***************************************************************************)
EXTENDS Integers, FiniteSets, FiniteSetsExt

CONSTANTS
    Tills,      \* concurrent requests
    Sessions,   \* cash_sessions rows that may come to exist
    Expenses,   \* expenses rows that may come to exist
    MaxMoves    \* bound on movements and off-drawer cash

ASSUME CashAssumption ==
    /\ Sessions \subseteq Nat \ {0} /\ MaxMoves \in Nat /\ "free" \notin Tills
    /\ IsFiniteSet(Sessions) /\ IsFiniteSet(Expenses) /\ IsFiniteSet(Tills)

VARIABLES
    session,   \* drawers: status and their movements by kind
    expense,   \* expense rows: status and the drawer they were paid from (0: none)
    offDrawer, \* net cash of sales, refunds and gift cards booked while no drawer was open
    till,      \* requests under way
    sessLock,  \* holder of each session row
    expLock    \* holder of each expense row

cashVars == <<session, expense, offDrawer, till, sessLock, expLock>>

\* Movements are told apart by what dayBook does with them.  DRAWER_EXPENSE is
\* an EXPENSE of addMovement, EXPENSE one of createExpense.
InKinds == {"SALE", "PAY_IN", "GIFT_CARD_SALE", "EXPENSE_VOID"}
OutKinds == {"REFUND", "PAY_OUT", "SALARY_ADVANCE", "DRAWER_EXPENSE", "EXPENSE"}
Kinds == InKinds \cup OutKinds
Unlocked == {"SALE", "REFUND", "GIFT_CARD_SALE", "PAY_IN", "PAY_OUT", "DRAWER_EXPENSE"}
Payouts == {"EXPENSE", "SALARY_ADVANCE"}
NoMoves == [k \in Kinds |-> 0]
Idle == [op |-> "idle", session |-> 0, expense |-> 0]

Drawer == [status : {"none", "OPEN", "CLOSED"}, moves : [Kinds -> Nat]]
Expense == [status : {"none", "booked", "voided"}, session : Sessions \cup {0}]
CashRequest == [op : Kinds \cup {"idle", "open", "close", "void"},
                session : Sessions \cup {0}, expense : Expenses \cup {0}]

CashTypeOK ==
    /\ session \in [Sessions -> Drawer] /\ expense \in [Expenses -> Expense]
    /\ offDrawer \in Int /\ till \in [Tills -> CashRequest]
    /\ sessLock \in [Sessions -> Tills \cup {"free"}]
    /\ expLock \in [Expenses -> Tills \cup {"free"}]

CashInit ==
    /\ session = [s \in Sessions |-> [status |-> "none", moves |-> NoMoves]]
    /\ expense = [e \in Expenses |-> [status |-> "none", session |-> 0]]
    /\ offDrawer = 0
    /\ till = [t \in Tills |-> Idle]
    /\ sessLock = [s \in Sessions |-> "free"]
    /\ expLock = [e \in Expenses |-> "free"]

OpenSessions == {s \in Sessions : session[s].status = "OPEN"}
Moved == MapThenSumSet(LAMBDA s : MapThenSumSet(LAMBDA k : session[s].moves[k], Kinds), Sessions)
CashOpen == Moved < MaxMoves /\ offDrawer = 0
Begin(t, op, s) == till[t] = Idle /\ till' = [till EXCEPT ![t] = [Idle EXCEPT !.op = op, !.session = s]]
EndRequest(t) == till' = [till EXCEPT ![t] = Idle]
AddMove(s, k) == session' = [session EXCEPT ![s].moves[k] = @ + 1]
\* findFirst of the OPEN session, no lock, no order: any of them, or 0 for none
FoundSession == IF OpenSessions = {} THEN {0} ELSE OpenSessions

----------------------------------------------------------------------------
(* Drawers. *)

NoneOpen == OpenSessions = {}

OpenDrawer(t) ==
    \/ /\ NoneOpen /\ Begin(t, "open", 0)
       /\ UNCHANGED <<session, expense, offDrawer, sessLock, expLock>>
    \/ /\ till[t].op = "open"
       /\ \E s \in Sessions :
             /\ session[s].status = "none" /\ \A r \in Sessions : r < s => session[r].status # "none"
             /\ session' = [session EXCEPT ![s].status = "OPEN"]
       /\ EndRequest(t)
       /\ UNCHANGED <<expense, offDrawer, sessLock, expLock>>

\* the session is read, and closed whatever became of it since
CloseDrawer(t) ==
    \/ /\ \E s \in OpenSessions : Begin(t, "close", s)
       /\ UNCHANGED <<session, expense, offDrawer, sessLock, expLock>>
    \/ /\ till[t].op = "close" /\ sessLock[till[t].session] = "free"
       /\ session' = [session EXCEPT ![till[t].session].status = "CLOSED"]
       /\ EndRequest(t)
       /\ UNCHANGED <<expense, offDrawer, sessLock, expLock>>

----------------------------------------------------------------------------
(* Movements whose drawer is read without a lock. *)

\* a sale, refund or gift card needs no drawer, addMovement does
ReadDrawer(t, k) ==
    /\ \E s \in FoundSession : (s = 0 => k \in {"SALE", "REFUND", "GIFT_CARD_SALE"}) /\ Begin(t, k, s)
    /\ UNCHANGED <<session, expense, offDrawer, sessLock, expLock>>

Signed(k) == IF k \in InKinds THEN 1 ELSE -1

\* recordDrawerExpenseTx writes the expense in the movement's transaction
BookDrawerExpense(k, s) ==
    IF k = "DRAWER_EXPENSE"
    THEN \E e \in Expenses : /\ expense[e].status = "none"
                             /\ expense' = [expense EXCEPT ![e] = [status |-> "booked", session |-> s]]
    ELSE UNCHANGED expense

WriteMove(t) ==
    LET k == till[t].op  s == till[t].session
    IN  /\ k \in Unlocked
        /\ IF s = 0 THEN offDrawer' = offDrawer + Signed(k) /\ UNCHANGED <<session, expense>>
           ELSE AddMove(s, k) /\ BookDrawerExpense(k, s) /\ UNCHANGED offDrawer
        /\ EndRequest(t)
        /\ UNCHANGED <<sessLock, expLock>>

----------------------------------------------------------------------------
(* Payouts that lock the drawer, and their cancellation. *)

\* variant: the open session is read without FOR UPDATE
LockOpenSessionsUnlocked(t) == UNCHANGED sessLock

\* SELECT ... WHERE status = 'OPEN' FOR UPDATE locks every open session
LockOpenSessions(t) ==
    /\ \A s \in OpenSessions : sessLock[s] = "free"
    /\ sessLock' = [s \in Sessions |-> IF s \in OpenSessions THEN t ELSE sessLock[s]]

\* createExpense and giveAdvance from the drawer
LockDrawer(t, k) ==
    /\ \E s \in OpenSessions : Begin(t, k, s)
    /\ LockOpenSessions(t)
    /\ UNCHANGED <<session, expense, offDrawer, expLock>>

FreeSessions(t) == sessLock' = [s \in Sessions |-> IF sessLock[s] = t THEN "free" ELSE sessLock[s]]
FreeExpenses(t) == expLock' = [e \in Expenses |-> IF expLock[e] = t THEN "free" ELSE expLock[e]]

PayOut(t) ==
    LET k == till[t].op  s == till[t].session
    IN  /\ k \in Payouts
        /\ AddMove(s, k)
        /\ IF k = "EXPENSE"
           THEN \E e \in Expenses : /\ expense[e].status = "none"
                                    /\ expense' = [expense EXCEPT ![e] = [status |-> "booked", session |-> s]]
           ELSE UNCHANGED expense
        /\ EndRequest(t) /\ FreeSessions(t)
        /\ UNCHANGED <<offDrawer, expLock>>

\* createExpense paid from the bank: no drawer, no movement
PayFromBank(e) ==
    /\ expense[e].status = "none"
    /\ expense' = [expense EXCEPT ![e].status = "booked"]
    /\ UNCHANGED <<session, offDrawer, till, sessLock, expLock>>

\* variant: the expense row is not locked
ExpenseFreeAlways(e) == TRUE

ExpenseFree(e) == expLock[e] = "free"

\* voidExpense locks the expense; the session's status is read without a lock
LockExpense(t, e) ==
    /\ expense[e].status = "booked" /\ ExpenseFree(e)
    /\ till[t] = Idle
    /\ till' = [till EXCEPT ![t] = [op |-> "void", expense |-> e,
                   session |-> IF expense[e].session \in OpenSessions THEN expense[e].session ELSE 0]]
    /\ expLock' = [expLock EXCEPT ![e] = t]
    /\ UNCHANGED <<session, expense, offDrawer, sessLock>>

VoidExpense(t) ==
    /\ till[t].op = "void"
    /\ IF till[t].session = 0 THEN UNCHANGED session ELSE AddMove(till[t].session, "EXPENSE_VOID")
    /\ expense' = [expense EXCEPT ![till[t].expense].status = "voided"]
    /\ EndRequest(t) /\ FreeExpenses(t)
    /\ UNCHANGED <<offDrawer, sessLock>>

\* the request dies or its transaction is rolled back
CashFail(t) ==
    /\ till[t] # Idle
    /\ EndRequest(t) /\ FreeSessions(t) /\ FreeExpenses(t)
    /\ UNCHANGED <<session, expense, offDrawer>>

----------------------------------------------------------------------------

CashNext ==
    \/ \E t \in Tills :
          \/ OpenDrawer(t) \/ CloseDrawer(t)
          \/ \E k \in Unlocked : CashOpen /\ ReadDrawer(t, k)
          \/ WriteMove(t)
          \/ \E k \in Payouts : CashOpen /\ LockDrawer(t, k)
          \/ PayOut(t)
          \/ \E e \in Expenses : LockExpense(t, e)
          \/ VoidExpense(t)
          \/ CashFail(t)
    \/ \E e \in Expenses : PayFromBank(e)

CashSpec == CashInit /\ [][CashNext]_cashVars

----------------------------------------------------------------------------
(* What the reports say. *)

\* expectedCash of toSessionDto, less the opening float
ExpectedCash(s) ==
    LET m == session[s].moves
    IN  (m["SALE"] + m["PAY_IN"] + m["GIFT_CARD_SALE"] + m["EXPENSE_VOID"])
        - (m["REFUND"] + m["PAY_OUT"] + m["SALARY_ADVANCE"] + m["DRAWER_EXPENSE"] + m["EXPENSE"])
DrawerCash == MapThenSumSet(ExpectedCash, Sessions)

DrawerExpenses(status) == {e \in Expenses : expense[e].status = status /\ expense[e].session # 0}

\* dayBook, mode CASH: order payments, refunds and gift cards whatever their
\* drawer, expenses that are not voided, and PAY_IN and PAY_OUT movements except
\* gift cards and advances, which their own tables report
DayBookMoves(s) ==
    LET m == session[s].moves
    IN  (m["SALE"] + m["GIFT_CARD_SALE"] + m["PAY_IN"] + m["EXPENSE_VOID"])
        - (m["REFUND"] + m["PAY_OUT"] + m["SALARY_ADVANCE"])
DayBookCash ==
    (offDrawer + MapThenSumSet(DayBookMoves, Sessions)) - Cardinality(DrawerExpenses("booked"))

----------------------------------------------------------------------------
(* Properties. *)

\* A payout that locks its drawer (createExpense, giveAdvance) is never added to
\* a closed one, so the closing report cannot miss it, however payouts and
\* closings overlap.
PayoutsBeforeClose ==
    [][\A s \in Sessions, k \in Payouts :
          session[s].status = "CLOSED" => session'[s].moves[k] = session[s].moves[k]]_cashVars

\* A drawer pays each expense once and gets the cash of a voided one back at most
\* once, however voids overlap.
ExpensesOnce ==
    \A s \in Sessions :
        LET m == session[s].moves
            from == {e \in Expenses : expense[e].session = s}
        IN  /\ m["DRAWER_EXPENSE"] + m["EXPENSE"] = Cardinality(from)
            /\ m["EXPENSE_VOID"] <= Cardinality({e \in from : expense[e].status = "voided"})

\* While no drawer expense is voided, the day book and the drawers differ by the
\* cash no drawer was open for: sales, refunds, advances, gift cards and expenses
\* are counted once each.  (A void has no entry of its own in the day book, which
\* drops the expense and counts the cash that comes back.)
DayBookAgrees == DrawerExpenses("voided") = {} => DayBookCash = DrawerCash + offDrawer

\* Movements, expenses and day book tell the same story of the drawers' cash.
CashSound == ExpensesOnce /\ DayBookAgrees
=============================================================================

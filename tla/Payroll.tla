------------------------------ MODULE Payroll ------------------------------
(***************************************************************************)
(* Salary advances and monthly payroll runs: payroll.service.ts of         *)
(* apps/api/src/staff.                                                     *)
(*                                                                         *)
(* Every operation on a run holds the run's row lock; finalising also      *)
(* locks the advances it recovers from, member by member.  What a payslip  *)
(* recovers was computed when the draft was, from advances read without a  *)
(* lock, and other months may be finalised in between.  Attendance, rates  *)
(* and statutory deductions come down to what a payslip leaves for the     *)
(* recovery of advances.  The drawer that pays an advance is in CashBook.  *)
(***************************************************************************)
EXTENDS Naturals, FiniteSets, FiniteSetsExt

CONSTANTS
    Months,     \* months of an outlet, as numbers
    Members,    \* staff members
    Advances,   \* advances, as numbers
    MaxAdvance, \* largest advance, in units
    Payers      \* concurrent requests

ASSUME PayrollAssumption ==
    /\ Months \subseteq Nat /\ IsFiniteSet(Months) /\ Months # {} /\ Members # {}
    /\ Advances \subseteq Nat /\ IsFiniteSet(Advances) /\ MaxAdvance \in Nat \ {0}
    /\ "no payer" \notin Payers

VARIABLES
    adv,      \* the advances
    payRun,   \* each month's run: status, and due and recovery of each payslip
    runLock,  \* holder of each run's row lock
    advLock,  \* holder of each advance's row lock
    payer     \* requests under way

payVars == <<adv, payRun, runLock, advLock, payer>>

Nobody == "no payer"
PayerIdle == [at |-> "idle"]
Units == 0 .. MaxAdvance
NoAdvance == [status |-> "NONE", owner |-> CHOOSE p \in Members : TRUE, since |-> Min(Months),
              amount |-> 0, monthly |-> 0, recovered |-> 0]
NoRun == [status |-> "NONE", slips |-> {}, due |-> [p \in Members |-> 0], recovery |-> [p \in Members |-> 0]]
Owed == 0 .. MaxAdvance * Cardinality(Advances)

PayTypeOK ==
    /\ adv \in [Advances -> [status: {"NONE", "OPEN", "CLOSED"}, owner: Members, since: Months,
                             amount: Units, monthly: Units, recovered: Units]]
    /\ payRun \in [Months -> [status: {"NONE", "DRAFT", "FINALISED"}, slips: SUBSET Members,
                              due: [Members -> Owed], recovery: [Members -> Owed]]]
    /\ runLock \in [Months -> Payers \cup {Nobody}]
    /\ advLock \in [Advances -> Payers \cup {Nobody}]
    /\ \A c \in Payers : payer[c].at \in {"idle", "draft", "finalise"}

PayInit ==
    /\ adv = [a \in Advances |-> NoAdvance]
    /\ payRun = [m \in Months |-> NoRun]
    /\ runLock = [m \in Months |-> Nobody] /\ advLock = [a \in Advances |-> Nobody]
    /\ payer = [c \in Payers |-> PayerIdle]

----------------------------------------------------------------------------
GiveAdvance(a, p, m) ==
    /\ adv[a].status = "NONE"
    /\ \E amount \in Units \ {0} : \E monthly \in 1 .. amount :
          adv' = [adv EXCEPT ![a] = [status |-> "OPEN", owner |-> p, since |-> m,
                                     amount |-> amount, monthly |-> monthly, recovered |-> 0]]
    /\ UNCHANGED <<payRun, runLock, advLock, payer>>

Outstanding(a) == adv[a].amount - adv[a].recovered
OpenAdvances(p) == {a \in Advances : adv[a].status = "OPEN" /\ adv[a].owner = p}

\* what this month's payslip should recover: one instalment of each advance
AdvanceDue(p, m) ==
    MapThenSumSet(LAMBDA a : Min({adv[a].monthly, Outstanding(a)}),
                  {a \in OpenAdvances(p) : adv[a].since <= m})

\* computePayslip: the recovery is cut to what the pay leaves for it
AdvanceRecovery(due, left) == Min({due, left})

LockRun(c, m) == runLock[m] = Nobody /\ runLock' = [runLock EXCEPT ![m] = c]

\* computeDraft creates or locks the run and reads the open advances
BeginDraft(c, m, active) ==
    /\ payer[c] = PayerIdle
    /\ LockRun(c, m)
    /\ payRun[m].status # "FINALISED"
    /\ payer' = [payer EXCEPT ![c] = [at |-> "draft", run |-> m, slips |-> active,
                                      due |-> [p \in Members |-> IF p \in active THEN AdvanceDue(p, m) ELSE 0]]]
    /\ UNCHANGED <<adv, payRun, advLock>>

Released(c) == /\ runLock' = [m \in Months |-> IF runLock[m] = c THEN Nobody ELSE runLock[m]]
               /\ advLock' = [a \in Advances |-> IF advLock[a] = c THEN Nobody ELSE advLock[a]]
               /\ payer' = [payer EXCEPT ![c] = PayerIdle]

\* a payslip per active member, the others' deleted
CommitDraft(c) ==
    /\ payer[c].at = "draft"
    /\ \E left \in [payer[c].slips -> Units] :
          payRun' = [payRun EXCEPT ![payer[c].run] =
              [status |-> "DRAFT", slips |-> payer[c].slips, due |-> payer[c].due,
               recovery |-> [p \in Members |-> IF p \in payer[c].slips
                                               THEN AdvanceRecovery(payer[c].due[p], left[p]) ELSE 0]]]
    /\ Released(c)
    /\ UNCHANGED adv

\* updatePayslip recomputes from the snapshot, with other adjustments
UpdatePayslip(m, p) ==
    /\ runLock[m] = Nobody /\ payRun[m].status = "DRAFT" /\ p \in payRun[m].slips
    /\ \E left \in Units :
          payRun' = [payRun EXCEPT ![m].recovery[p] = AdvanceRecovery(payRun[m].due[p], left)]
    /\ UNCHANGED <<adv, runLock, advLock, payer>>

DeleteDraft(m) ==
    /\ runLock[m] = Nobody /\ payRun[m].status = "DRAFT"
    /\ payRun' = [payRun EXCEPT ![m] = NoRun]
    /\ UNCHANGED <<adv, runLock, advLock, payer>>

----------------------------------------------------------------------------
(* finalise *)

BeginFinalise(c, m) ==
    /\ payer[c] = PayerIdle
    /\ LockRun(c, m)
    /\ payRun[m].status = "DRAFT" /\ payRun[m].slips # {}
    /\ payer' = [payer EXCEPT ![c] = [at |-> "finalise", run |-> m, recovery |-> payRun[m].recovery,
                                      todo |-> {p \in payRun[m].slips : payRun[m].recovery[p] > 0},
                                      take |-> [a \in Advances |-> 0]]]
    /\ UNCHANGED <<adv, payRun, advLock>>

Older(a, b) == \/ adv[a].since < adv[b].since
               \/ adv[a].since = adv[b].since /\ a < b

\* the oldest advance first, each up to what is outstanding on it
TakeFrom(a, rows, amount) ==
    LET before == MapThenSumSet(Outstanding, {b \in rows : Older(b, a)})
    IN  IF before >= amount THEN 0 ELSE Min({Outstanding(a), amount - before})

\* the next payslip's advances are locked and read; what they cannot cover
\* fails the whole run (RollBack)
RecoverFrom(c, p) ==
    /\ payer[c].at = "finalise" /\ p \in payer[c].todo
    /\ \A a \in OpenAdvances(p) : advLock[a] \in {Nobody, c}
    /\ payer[c].recovery[p] <= MapThenSumSet(Outstanding, OpenAdvances(p))
    /\ advLock' = [a \in Advances |-> IF a \in OpenAdvances(p) THEN c ELSE advLock[a]]
    /\ payer' = [payer EXCEPT
          ![c].todo = @ \ {p},
          ![c].take = [a \in Advances |-> IF a \in OpenAdvances(p)
                                          THEN TakeFrom(a, OpenAdvances(p), payer[c].recovery[p]) ELSE @[a]]]
    /\ UNCHANGED <<adv, payRun, runLock>>

Booked(a, taken) ==
    IF taken = 0 THEN adv[a]
    ELSE [adv[a] EXCEPT !.recovered = @ + taken,
                        !.status = IF adv[a].recovered + taken >= adv[a].amount THEN "CLOSED" ELSE "OPEN"]

CommitFinalise(c) ==
    /\ payer[c].at = "finalise" /\ payer[c].todo = {}
    /\ adv' = [a \in Advances |-> Booked(a, payer[c].take[a])]
    /\ payRun' = [payRun EXCEPT ![payer[c].run].status = "FINALISED"]
    /\ Released(c)

\* an error, a timeout, a deadlock or a crash
RollBack(c) ==
    /\ payer[c] # PayerIdle
    /\ Released(c)
    /\ UNCHANGED <<adv, payRun>>

PayNext ==
    \/ \E a \in Advances, p \in Members, m \in Months : GiveAdvance(a, p, m)
    \/ \E c \in Payers, m \in Months : (\E active \in SUBSET Members : BeginDraft(c, m, active)) \/ BeginFinalise(c, m)
    \/ \E m \in Months : DeleteDraft(m) \/ \E p \in Members : UpdatePayslip(m, p)
    \/ \E c \in Payers : CommitDraft(c) \/ CommitFinalise(c) \/ RollBack(c) \/ \E p \in Members : RecoverFrom(c, p)

PaySpec == PayInit /\ [][PayNext]_payVars

----------------------------------------------------------------------------
\* What finalised payslips recovered from a member is what was booked on the
\* member's advances: no deduction without its booking, none booked twice, though
\* months are finalised at once and drafts are older than the advances.
RecoveriesBooked ==
    \A p \in Members :
        MapThenSumSet(LAMBDA a : adv[a].recovered, {a \in Advances : adv[a].owner = p})
          = MapThenSumSet(LAMBDA m : payRun[m].recovery[p], {m \in Months : payRun[m].status = "FINALISED"})

\* An advance is closed exactly when all of it, and never more, is recovered.
NeverOverRecovered ==
    \A a \in Advances : /\ adv[a].recovered <= adv[a].amount
                        /\ adv[a].status = "CLOSED" <=> adv[a].status # "NONE" /\ adv[a].recovered = adv[a].amount

\* Payslips and advances add up.
PayrollSound == RecoveriesBooked /\ NeverOverRecovered
============================================================================

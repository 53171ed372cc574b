--------------------------- MODULE RefundsProofs ---------------------------
(***************************************************************************)
(* For any number of refunds, workers, keys and captured payments: types   *)
(* are kept, a refund row never claims an outcome the provider did not     *)
(* reach, and money sent out stays within what was captured.               *)
(***************************************************************************)
EXTENDS Refunds, SumProofs

\* A row is PENDING exactly when a captured payment was picked for it.
LEMMA NewRowFacts ==
    ASSUME NEW amount \in Amounts, NEW mode \in {"CASH", "GIFT_CARD", "UPI"}, NEW key \in Keys
    PROVE  /\ NewRow(amount, mode, key) \in RefundRow
           /\ NewRow(amount, mode, key).payment # NoPayment =>
                 NewRow(amount, mode, key).status = "PENDING"
<1> DEFINE fits == IF mode = "UPI" THEN Fitting(amount) ELSE {}
<1>1. fits \in SUBSET Nat /\ fits \subseteq Payments
  BY RefundsAssumption DEF Fitting
<1>2. fits # {} => Min(fits) \in Payments
  BY <1>1, MinIn
<1>3. fits # {} => mode = "UPI"
  OBVIOUS
<1>4. NewRow(amount, mode, key) =
        [amount |-> amount, mode |-> mode, key |-> key,
         payment |-> IF fits = {} THEN NoPayment ELSE Min(fits),
         status |-> IF mode # "UPI" THEN "PROCESSED"
                    ELSE IF fits = {} THEN "MANUAL" ELSE "PENDING"]
  BY DEF NewRow
<1> HIDE DEF fits
<1>5. QED
  BY <1>2, <1>3, <1>4 DEF RefundRow, Unresolved, Terminal

\* Initially there is no refund and no task.
LEMMA InitAgrees == Init => AgreeInv
BY RefundsAssumption DEF Init, AgreeInv, TypeOK, AgreesWithProvider, AnswersHold, RefundRow, Absent,
      Task, Idle, Answers, ProviderStatus, Unresolved, Terminal, Events, Tasks

\* what AgreeInv says of the tasks
TasksOK ==
    /\ task \in [Tasks -> Task]
    /\ \A i \in Refunds : task[i].pc # "idle" => task[i].refund = i
    /\ \A a \in Tasks : task[a].pc # "idle" => task[a].refund \in Refunds

\* a task record that a may move to
Fit(a, t) ==
    /\ t \in Task
    /\ t.pc # "idle" => t.refund \in Refunds /\ (a \in Refunds => t.refund = a)
    /\ t.pc = "write" /\ t.answer \in {"processed", "failed"} => provider[t.refund] = t.answer

\* Moving one task to a fit record keeps the tasks in order and their answers true.
LEMMA TaskMoved ==
    ASSUME AgreeInv, NEW a \in Tasks, NEW t, Fit(a, t), task' = [task EXCEPT ![a] = t],
           UNCHANGED provider
    PROVE  TasksOK' /\ AnswersHold'
<1>1. task \in [Tasks -> Task] /\ t \in Task
  BY DEF AgreeInv, TypeOK, Fit
<1>2. \A b \in Tasks : task'[b] = IF b = a THEN t ELSE task[b]
  BY <1>1
<1>3. task' \in [Tasks -> Task]
  BY <1>1
<1>4. QED
  BY <1>2, <1>3 DEF AgreeInv, TypeOK, TasksOK, Fit, AnswersHold, Tasks

\* The records tasks move to are fit.
LEMMA FitRecords ==
    ASSUME AgreeInv, NEW a \in Tasks
    PROVE  /\ Fit(a, Idle)
           /\ task[a].pc # "idle" =>
                 \A answer \in Answers :
                    (answer \in {"processed", "failed"} => provider[task[a].refund] = answer) =>
                       Fit(a, [task[a] EXCEPT !.pc = "write", !.answer = answer])
           /\ \A i \in Refunds : (a \in Refunds => a = i) =>
                 /\ Fit(a, [task[a] EXCEPT !.pc = "wait", !.refund = i])
                 /\ \A s \in Unresolved :
                       Fit(a, [Idle EXCEPT !.pc = "find", !.refund = i, !.from = s])
<1>1. /\ task[a] \in Task
      /\ task[a].pc # "idle" => task[a].refund \in Refunds /\ (a \in Refunds => task[a].refund = a)
  BY DEF AgreeInv, TypeOK
<1>2. Idle \in Task /\ Idle.pc = "idle"
  BY DEF Idle, Task, Unresolved, Answers
<1>3. ASSUME NEW answer \in Answers, task[a].pc # "idle",
             answer \in {"processed", "failed"} => provider[task[a].refund] = answer
      PROVE  Fit(a, [task[a] EXCEPT !.pc = "write", !.answer = answer])
  <2> DEFINE t == [task[a] EXCEPT !.pc = "write", !.answer = answer]
  <2>1. t \in Task /\ t.refund = task[a].refund /\ t.answer = answer
    BY <1>1 DEF Task
  <2>2. QED
    BY <1>1, <1>3, <2>1 DEF Fit
<1>4. ASSUME NEW i \in Refunds, a \in Refunds => a = i
      PROVE  Fit(a, [task[a] EXCEPT !.pc = "wait", !.refund = i])
  <2> DEFINE t == [task[a] EXCEPT !.pc = "wait", !.refund = i]
  <2>1. t \in Task /\ t.refund = i /\ t.pc = "wait"
    BY <1>1 DEF Task
  <2>2. QED
    BY <1>4, <2>1 DEF Fit
<1>5. ASSUME NEW i \in Refunds, a \in Refunds => a = i, NEW s \in Unresolved
      PROVE  Fit(a, [Idle EXCEPT !.pc = "find", !.refund = i, !.from = s])
  <2> DEFINE t == [Idle EXCEPT !.pc = "find", !.refund = i, !.from = s]
  <2>1. t \in Task /\ t.refund = i /\ t.pc = "find"
    BY <1>2 DEF Task
  <2>2. QED
    BY <1>5, <2>1 DEF Fit
<1>6. Fit(a, Idle)
  BY <1>2 DEF Fit
<1>7. QED
  BY <1>3, <1>4, <1>5, <1>6

\* Answered, Submit and ending a task move it to a fit record.
LEMMA TaskMoves ==
    ASSUME AgreeInv, NEW a \in Tasks, UNCHANGED provider,
           \/ task' = [task EXCEPT ![a] = Idle]
           \/ /\ task[a].pc # "idle"
              /\ \E answer \in Answers :
                    /\ answer \in {"processed", "failed"} => provider[task[a].refund] = answer
                    /\ Answered(a, answer)
           \/ \E i \in Refunds : (a \in Refunds => a = i) /\ Submit(a, i)
           \/ \E i \in Refunds, s \in Unresolved :
                 /\ a \in Refunds => a = i
                 /\ task' = [task EXCEPT ![a] = [Idle EXCEPT !.pc = "find", !.refund = i, !.from = s]]
    PROVE  TasksOK' /\ AnswersHold'
<1>1. task \in [Tasks -> Task]
  BY DEF AgreeInv, TypeOK
<1>2. CASE task' = [task EXCEPT ![a] = Idle]
  BY <1>2, FitRecords, TaskMoved
<1>3. ASSUME NEW answer \in Answers, task[a].pc # "idle", Answered(a, answer),
             answer \in {"processed", "failed"} => provider[task[a].refund] = answer
      PROVE  TasksOK' /\ AnswersHold'
  <2>1. PICK t : t = [task[a] EXCEPT !.pc = "write", !.answer = answer]
    OBVIOUS
  <2>2. task' = [task EXCEPT ![a] = t]
    BY <1>1, <1>3, <2>1 DEF Answered
  <2>3. Fit(a, t)
    BY <1>3, <2>1, FitRecords
  <2>4. QED
    BY <2>2, <2>3, TaskMoved
<1>4. ASSUME NEW i \in Refunds, a \in Refunds => a = i, Submit(a, i)
      PROVE  TasksOK' /\ AnswersHold'
  <2>1. PICK t : t = [task[a] EXCEPT !.pc = "wait", !.refund = i]
    OBVIOUS
  <2>2. task' = [task EXCEPT ![a] = t]
    BY <1>1, <1>4, <2>1 DEF Submit
  <2>3. Fit(a, t)
    BY <1>4, <2>1, FitRecords
  <2>4. QED
    BY <2>2, <2>3, TaskMoved
<1>5. ASSUME NEW i \in Refunds, a \in Refunds => a = i, NEW s \in Unresolved,
             task' = [task EXCEPT ![a] = [Idle EXCEPT !.pc = "find", !.refund = i, !.from = s]]
      PROVE  TasksOK' /\ AnswersHold'
  BY <1>5, FitRecords, TaskMoved
<1>6. QED
  BY <1>2, <1>3, <1>4, <1>5

\* Reserving writes a row the provider has not confirmed.
LEMMA ReserveStep ==
    ASSUME AgreeInv, NEW amount \in Amounts, NEW mode \in {"CASH", "GIFT_CARD", "UPI"},
           NEW key \in Keys, Reserve(amount, mode, key)
    PROVE  AgreeInv'
<1>1. PICK i, row : /\ i = Min(Refunds \ Rows) /\ row = NewRow(amount, mode, key)
                    /\ refunds' = [refunds EXCEPT ![i] = row]
                    /\ IF row.status = "PENDING" THEN Submit(i, i) ELSE UNCHANGED <<task, wire>>
  BY DEF Reserve
<1>2. i \in Refunds
  <2>1. Refunds \ Rows # {} /\ Refunds \ Rows \in SUBSET Nat
    BY RefundsAssumption DEF Reserve, Rows
  <2>2. QED
    BY <1>1, <2>1, MinIn
<1>3. row \in RefundRow /\ (row.payment # NoPayment => row.status = "PENDING")
  BY <1>1, NewRowFacts
<1>4. ledger' \in [cash : Nat, credit : Nat] /\ UNCHANGED <<provider, seen>>
  <2>1. amount \in Nat /\ ledger.cash \in Nat /\ ledger.credit \in Nat
    BY RefundsAssumption DEF AgreeInv, TypeOK
  <2>2. PICK open \in BOOLEAN :
           ledger' = [cash |-> ledger.cash + IF mode = "CASH" /\ open THEN amount ELSE 0,
                      credit |-> ledger.credit + IF mode = "GIFT_CARD" THEN amount ELSE 0]
    BY DEF Reserve
  <2>3. /\ ledger.cash + (IF mode = "CASH" /\ open THEN amount ELSE 0) \in Nat
        /\ ledger.credit + (IF mode = "GIFT_CARD" THEN amount ELSE 0) \in Nat
    BY <2>1
  <2>4. QED
    BY <2>2, <2>3 DEF Reserve
<1>5. TasksOK' /\ AnswersHold' /\ wire' \subseteq Refunds
  <2>1. CASE UNCHANGED <<task, wire>>
    BY <1>4, <2>1 DEF AgreeInv, TypeOK, TasksOK, AnswersHold
  <2>2. CASE Submit(i, i)
    BY <1>2, <1>4, <2>2, TaskMoves DEF Submit, Tasks, AgreeInv, TypeOK
  <2>3. QED
    BY <1>1, <2>1, <2>2
<1>6. refunds' \in [Refunds -> RefundRow]
  BY <1>1, <1>3 DEF AgreeInv, TypeOK
<1>7. AgreesWithProvider'
  BY <1>1, <1>3, <1>4 DEF AgreeInv, TypeOK, AgreesWithProvider
<1>8. QED
  BY <1>4, <1>5, <1>6, <1>7 DEF AgreeInv, TypeOK, TasksOK

\* A task that moves on writes no refund, and was answered what the provider has.
LEMMA TaskStep ==
    ASSUME AgreeInv, NEW a \in Tasks, Answer(a) \/ TimeOut(a) \/ Crash(a)
    PROVE  AgreeInv'
<1>1. UNCHANGED <<refunds, ledger, wire, provider, seen>>
  BY DEF Answer, TimeOut, Crash
<1>2. provider[task[a].refund] # "none" /\ task[a].pc # "idle" => provider[task[a].refund] \in Answers
  BY DEF AgreeInv, TypeOK, Answers
<1>3. TasksOK' /\ AnswersHold'
  <2>1. CASE Answer(a)
    BY <1>1, <1>2, <2>1, TaskMoves DEF Answer
  <2>2. CASE TimeOut(a)
    BY <1>1, <2>2, TaskMoves DEF TimeOut, Answers
  <2>3. CASE Crash(a)
    BY <1>1, <2>3, TaskMoves DEF Crash
  <2>4. QED
    BY <2>1, <2>2, <2>3
<1>4. QED
  BY <1>1, <1>3 DEF AgreeInv, TypeOK, TasksOK, AgreesWithProvider

\* A refund whose row takes a status the provider's state allows still agrees.
LEMMA StatusWritten ==
    ASSUME AgreeInv, NEW i \in Refunds, NEW s \in Unresolved \cup Terminal,
           refunds' = [refunds EXCEPT ![i].status = s], UNCHANGED provider,
           s = "FAILED" => provider[i] = "failed", s = "PROCESSED" => provider[i] = "processed"
    PROVE  refunds' \in [Refunds -> RefundRow] /\ AgreesWithProvider'
<1>1. refunds[i] \in RefundRow /\ refunds \in [Refunds -> RefundRow]
  BY DEF AgreeInv, TypeOK
<1>2. PICK row : row = [refunds[i] EXCEPT !.status = s]
  OBVIOUS
<1>3. row \in RefundRow /\ row.status = s /\ row.payment = refunds[i].payment
  BY <1>1, <1>2 DEF RefundRow, Unresolved, Terminal
<1>4. refunds' = [refunds EXCEPT ![i] = row]
  BY <1>1, <1>2
<1>5. refunds' \in [Refunds -> RefundRow]
  BY <1>1, <1>3, <1>4
<1>6. AgreesWithProvider'
  BY <1>1, <1>3, <1>4 DEF AgreeInv, AgreesWithProvider
<1>7. QED
  BY <1>5, <1>6

\* A provider status, mapped by StatusOf, is one the provider's state allows.
LEMMA StatusOfTrue ==
    ASSUME NEW s \in ProviderStatus, NEW p, s \in {"processed", "failed"} => p = s
    PROVE  /\ StatusOf(s) \in Unresolved \cup Terminal
           /\ StatusOf(s) = "FAILED" => p = "failed"
           /\ StatusOf(s) = "PROCESSED" => p = "processed"
BY DEF StatusOf, ProviderStatus, Unresolved, Terminal

\* A conditional update to a true provider status keeps rows typed and agreeing.
LEMMA ResolveStep ==
    ASSUME AgreeInv, NEW i \in Refunds, NEW s \in ProviderStatus, UNCHANGED provider, Resolve(i, s),
           s \in {"processed", "failed"} => provider[i] = s
    PROVE  refunds' \in [Refunds -> RefundRow] /\ AgreesWithProvider'
<1>1. PICK st : st = StatusOf(s)
  OBVIOUS
<1>2. CASE refunds' = [refunds EXCEPT ![i].status = st]
  BY <1>1, <1>2, StatusOfTrue, StatusWritten
<1>3. CASE refunds' = refunds
  BY <1>3 DEF AgreeInv, TypeOK, AgreesWithProvider
<1>4. QED
  BY <1>1, <1>2, <1>3 DEF Resolve

\* The API's write, although unconditional, is true to the provider.
LEMMA WriteApiStep ==
    ASSUME AgreeInv, NEW i \in Refunds, WriteApi(i)
    PROVE  AgreeInv'
<1>1. /\ i \in Tasks /\ task[i].pc = "write" /\ task[i].refund = i /\ task[i].answer \in Answers
      /\ UNCHANGED <<ledger, wire, provider, seen>> /\ task' = [task EXCEPT ![i] = Idle]
  BY DEF AgreeInv, TypeOK, WriteApi, Tasks, Task
<1>2. TasksOK' /\ AnswersHold'
  BY <1>1, TaskMoves
<1>3. PICK answer : answer = task[i].answer
  OBVIOUS
<1>4. answer \in {"processed", "failed"} => provider[i] = answer
  BY <1>1, <1>3 DEF AgreeInv, AnswersHold
<1>5. PICK s : s = IF answer \in ProviderStatus THEN StatusOf(answer) ELSE "UNKNOWN"
  OBVIOUS
<1>6. /\ s \in Unresolved \cup Terminal
      /\ s = "FAILED" => provider[i] = "failed"
      /\ s = "PROCESSED" => provider[i] = "processed"
  BY <1>4, <1>5, StatusOfTrue DEF Unresolved
<1>7. refunds' = [refunds EXCEPT ![i].status = s]
  BY <1>3, <1>5 DEF WriteApi
<1>8. refunds' \in [Refunds -> RefundRow] /\ AgreesWithProvider'
  BY <1>1, <1>6, <1>7, StatusWritten
<1>9. QED
  BY <1>1, <1>2, <1>8 DEF AgreeInv, TypeOK, TasksOK

\* The provider moves a refund only forward, so what rows and answers say holds.
LEMMA ProviderStep ==
    ASSUME AgreeInv, NEW i \in Refunds, Accept(i) \/ Lose(i) \/ PayOut(i)
    PROVE  AgreeInv'
<1>1. UNCHANGED <<refunds, ledger, task, seen>> /\ wire' \subseteq wire
  BY DEF Accept, Lose, PayOut
<1>2. /\ provider' \in [Refunds -> ProviderStatus \cup {"none"}]
      /\ \A j \in Refunds : provider[j] \in {"processed", "failed"} => provider'[j] = provider[j]
  BY DEF AgreeInv, TypeOK, Accept, Lose, PayOut, ProviderStatus
<1>3. AgreesWithProvider' /\ AnswersHold'
  BY <1>1, <1>2 DEF AgreeInv, TypeOK, AgreesWithProvider, AnswersHold
<1>4. QED
  BY <1>1, <1>2, <1>3 DEF AgreeInv, TypeOK

\* Webhook events were true when they were sent, and still are.
LEMMA EventStep ==
    ASSUME AgreeInv, NEW e \in Events, HandleEvent(e) \/ DropEvent(e)
    PROVE  AgreeInv'
<1>1. UNCHANGED <<ledger, task, wire, provider>> /\ seen' \subseteq Events
  BY DEF AgreeInv, TypeOK, HandleEvent, DropEvent
<1>2. PICK i \in Refunds, s \in ProviderStatus : e.refund = i /\ e.status = s
  BY DEF Events
<1>3. s \in {"processed", "failed"} => provider[i] = s
  BY <1>2 DEF HandleEvent, DropEvent, Sent
<1>4. refunds' \in [Refunds -> RefundRow] /\ AgreesWithProvider'
  <2>1. CASE HandleEvent(e)
    BY <1>1, <1>2, <1>3, <2>1, ResolveStep DEF HandleEvent
  <2>2. CASE DropEvent(e)
    BY <1>1, <2>2 DEF DropEvent, AgreeInv, TypeOK, AgreesWithProvider
  <2>3. QED
    BY <2>1, <2>2
<1>5. QED
  BY <1>1, <1>4 DEF AgreeInv, TypeOK, AnswersHold

\* Recovery reads, looks up, submits and gives up without writing a row.
LEMMA RecoverySteps ==
    ASSUME AgreeInv, NEW w \in Workers,
           FindRefund(w) \/ FindFails(w) \/ Refuse(w) \/ \E i \in Refunds : StartReconcile(w, i)
    PROVE  AgreeInv'
<1>1. w \in Tasks /\ w \notin Refunds
  BY RefundsAssumption DEF Tasks
<1>2. UNCHANGED <<refunds, ledger, provider, seen>>
  BY DEF FindRefund, FindFails, Refuse, StartReconcile
<1>3. task[w].pc # "idle" => task[w].refund \in Refunds /\ provider[task[w].refund] \in Answers \cup {"none"}
  BY <1>1 DEF AgreeInv, TypeOK, Answers
<1>4. TasksOK' /\ AnswersHold' /\ wire' \subseteq Refunds
  <2>1. wire \subseteq Refunds
    BY DEF AgreeInv, TypeOK
  <2>2. CASE FindRefund(w)
    <3>1. task[w].pc # "idle"
      BY <2>2 DEF FindRefund
    <3>2. CASE provider[task[w].refund] = "none"
      BY <1>1, <1>2, <1>3, <2>1, <2>2, <3>1, <3>2, TaskMoves DEF FindRefund, Submit
    <3>3. CASE provider[task[w].refund] # "none"
      BY <1>1, <1>2, <1>3, <2>1, <2>2, <3>1, <3>3, TaskMoves DEF FindRefund
    <3>4. QED
      BY <3>2, <3>3
  <2>3. CASE FindFails(w)
    BY <1>1, <1>2, <2>1, <2>3, TaskMoves DEF FindFails, Answers
  <2>4. CASE Refuse(w)
    BY <1>1, <1>2, <2>1, <2>4, TaskMoves DEF Refuse, Answers
  <2>5. ASSUME NEW i \in Refunds, StartReconcile(w, i)
        PROVE  TasksOK' /\ AnswersHold' /\ wire' \subseteq Refunds
    BY <1>1, <1>2, <2>1, <2>5, TaskMoves DEF StartReconcile
  <2>6. QED
    BY <2>2, <2>3, <2>4, <2>5
<1>5. QED
  BY <1>2, <1>4 DEF AgreeInv, TypeOK, TasksOK, AgreesWithProvider

\* Recovery writes a true answer, or marks the refund uncertain.
LEMMA RecoveryWrites ==
    ASSUME AgreeInv, NEW w \in Workers, WriteRecovered(w) \/ WriteUncertain(w)
    PROVE  AgreeInv'
<1>1. /\ w \in Tasks /\ task[w].pc = "write" /\ task[w].refund \in Refunds
      /\ UNCHANGED <<ledger, wire, provider, seen>> /\ task' = [task EXCEPT ![w] = Idle]
  BY DEF AgreeInv, TypeOK, WriteRecovered, WriteUncertain, Tasks
<1>2. TasksOK' /\ AnswersHold'
  BY <1>1, TaskMoves
<1>3. PICK i \in Refunds : i = task[w].refund
  BY <1>1
<1>4. refunds' \in [Refunds -> RefundRow] /\ AgreesWithProvider'
  <2>1. CASE WriteRecovered(w)
    <3>1. PICK s \in ProviderStatus : s = task[w].answer
      BY <2>1 DEF WriteRecovered
    <3>2. s \in {"processed", "failed"} => provider[i] = s
      BY <1>1, <1>3, <3>1 DEF AgreeInv, AnswersHold
    <3>3. QED
      BY <1>1, <1>3, <2>1, <3>1, <3>2, ResolveStep DEF WriteRecovered
  <2>2. CASE WriteUncertain(w)
    <3>1. CASE refunds' = refunds
      BY <1>1, <3>1 DEF AgreeInv, TypeOK, AgreesWithProvider
    <3>2. CASE refunds' = [refunds EXCEPT ![i].status = "UNKNOWN"]
      BY <1>1, <3>2, StatusWritten DEF Unresolved
    <3>3. QED
      BY <1>3, <2>2, <3>1, <3>2 DEF WriteUncertain
  <2>3. QED
    BY <2>1, <2>2
<1>5. QED
  BY <1>1, <1>2, <1>4 DEF AgreeInv, TypeOK, TasksOK

\* Every step keeps the inductive invariant.
LEMMA NextAgrees == AgreeInv /\ [Next]_vars => AgreeInv'
<1> SUFFICES ASSUME AgreeInv, [Next]_vars PROVE AgreeInv'
  OBVIOUS
<1>1. CASE UNCHANGED vars
  BY <1>1 DEF vars, AgreeInv, TypeOK, AgreesWithProvider, AnswersHold
<1>2. CASE Next
  BY <1>2, ReserveStep, TaskStep, WriteApiStep, ProviderStep, EventStep, RecoverySteps,
     RecoveryWrites DEF Next
<1>3. QED
  BY <1>1, <1>2

\* Refund rows, tasks and provider answers keep their types in every behaviour
\* of CashService.refund, the refund webhook and the recovery worker.
THEOREM RefundTypes == Spec => []TypeOK
<1>1. AgreeInv => TypeOK
  BY DEF AgreeInv
<1>2. QED
  BY <1>1, InitAgrees, NextAgrees, PTL DEF Spec

\* A refund is FAILED, and its amount free to be refunded again, only if the
\* provider failed it, and PROCESSED only if the provider paid it: no order of
\* timeouts, late answers, webhooks, crashes and recovery ticks makes a row lie.
THEOREM RefundNeverLies == Spec => []AgreesWithProvider
<1>1. AgreeInv => AgreesWithProvider
  BY DEF AgreeInv
<1>2. QED
  BY <1>1, InitAgrees, NextAgrees, PTL DEF Spec

----------------------------------------------------------------------------
(* Money: what is still reserved bounds what may yet be paid out.           *)

\* the amounts of the refunds rows, and their sum over S
AmountsIn(rows) == [i \in Refunds |-> rows[i].amount]
AmountSum(rows, S) == MapThenSumSet(LAMBDA i : rows[i].amount, S)

\* The amounts of a set of refunds are a sum.
LEMMA AmountTotal ==
    ASSUME NEW rows, NEW S \in SUBSET Refunds, IsFiniteSet(S)
    PROVE  AmountSum(rows, S) = Total(S, AmountsIn(rows))
<1>1. PICK h : h = AmountsIn(rows)
  OBVIOUS
<1> DEFINE Sums(g) == g = [s \in SUBSET S |-> IF s = {} THEN 0 ELSE rows[Chosen(s)].amount + g[s \ {Chosen(s)}]]
<1>2. AmountSum(rows, S) = (CHOOSE g : Sums(g))[S]
  BY DEF AmountSum, MapThenSumSet, MapThenFoldSet, Chosen
<1>3. ASSUME NEW g PROVE Sums(g) <=> SumsUp(S, h, g)
  <2>1. \A s \in SUBSET S : s # {} => h[Chosen(s)] = rows[Chosen(s)].amount
    BY <1>1 DEF Chosen, AmountsIn
  <2>2. [s \in SUBSET S |-> IF s = {} THEN 0 ELSE rows[Chosen(s)].amount + g[s \ {Chosen(s)}]]
          = [s \in SUBSET S |-> IF s = {} THEN 0 ELSE h[Chosen(s)] + g[s \ {Chosen(s)}]]
    BY <2>1
  <2>3. QED
    BY <2>2 DEF SumsUp
<1> HIDE DEF Sums
<1>4. \E g : Sums(g)
  BY <1>3, SumExists
<1>5. PICK f : f = CHOOSE g : Sums(g)
  OBVIOUS
<1>6. Sums(f)
  BY <1>4, <1>5
<1>7. SumsUp(S, h, f)
  BY <1>3, <1>6
<1>8. Total(S, h) = f[S]
  BY <1>7, TotalIs
<1>9. QED
  BY <1>1, <1>2, <1>5, <1>8

\* Fewer refunds, whose amounts stay, are no more money.
LEMMA AmountPart ==
    ASSUME NEW rows, NEW rows2, NEW T \in SUBSET Refunds, IsFiniteSet(T), NEW S \in SUBSET T,
           \A i \in T : rows[i].amount \in Nat, \A i \in S : rows2[i].amount = rows[i].amount
    PROVE  /\ IsFiniteSet(S) /\ AmountSum(rows2, S) \in Nat /\ AmountSum(rows, T) \in Nat
           /\ AmountSum(rows2, S) <= AmountSum(rows, T)
<1>1. PICK h : h = AmountsIn(rows)
  OBVIOUS
<1>2. PICK h2 : h2 = AmountsIn(rows2)
  OBVIOUS
<1>3. \A i \in T : h[i] = rows[i].amount /\ h[i] \in Nat
  BY <1>1 DEF AmountsIn
<1>4. \A i \in S : h2[i] = h[i]
  BY <1>1, <1>2 DEF AmountsIn
<1>5. IsFiniteSet(S) /\ S \in SUBSET Refunds
  BY FS_Subset
<1>6. AmountSum(rows, T) = Total(T, h) /\ AmountSum(rows2, S) = Total(S, h2)
  BY <1>1, <1>2, <1>5, AmountTotal
<1>7. Total(S, h2) = Total(S, h)
  BY <1>4, <1>5, TotalSame
<1>8. Total(S, h) \in Nat /\ Total(T, h) \in Nat /\ Total(S, h) <= Total(T, h)
  BY <1>3, TotalPart
<1>9. QED
  BY <1>5, <1>6, <1>7, <1>8

\* One refund more adds its amount.
LEMMA AmountAdded ==
    ASSUME NEW rows, NEW rows2, NEW S \in SUBSET Refunds, IsFiniteSet(S), NEW j \in Refunds, j \notin S,
           \A i \in S : rows[i].amount \in Nat /\ rows2[i].amount = rows[i].amount,
           rows2[j].amount \in Nat
    PROVE  /\ AmountSum(rows, S) \in Nat
           /\ AmountSum(rows2, S \cup {j}) = AmountSum(rows, S) + rows2[j].amount
<1>1. PICK h : h = AmountsIn(rows)
  OBVIOUS
<1>2. PICK h2 : h2 = AmountsIn(rows2)
  OBVIOUS
<1>3. PICK U \in SUBSET Refunds : U = S \cup {j}
  OBVIOUS
<1>4. IsFiniteSet(U)
  BY <1>3, FS_AddElement
<1>5. AmountSum(rows, S) = Total(S, h) /\ AmountSum(rows2, U) = Total(U, h2)
  BY <1>1, <1>2, <1>4, AmountTotal
<1>6. /\ \A i \in S : h2[i] = h[i] /\ h[i] \in Nat
      /\ h2[j] = rows2[j].amount
  BY <1>1, <1>2 DEF AmountsIn
<1>7. Total(U, h2) = h2[j] + Total(S, h2)
  <2>1. \A i \in S \cup {j} : h2[i] \in Int
    BY <1>6
  <2>2. QED
    BY <1>3, <2>1, TotalInsert
<1>8. Total(S, h2) = Total(S, h) /\ Total(S, h) \in Nat
  BY <1>6, TotalSame, TotalType
<1>9. QED
  BY <1>3, <1>5, <1>6, <1>7, <1>8

\* what was handed out over the counter, and is not up to the provider
Handed == {i \in Rows : refunds[i].payment = NoPayment}

\* only refunds of a captured payment are ever open, and only they have tasks
PaymentRows ==
    \A i \in Refunds : IF refunds[i].payment = NoPayment
                       THEN refunds[i].status \in {"NONE", "MANUAL", "PROCESSED"}
                       ELSE refunds[i].status \in Unresolved \cup Terminal
TasksPaid == \A a \in Tasks : task[a].pc # "idle" => refunds[task[a].refund].payment # NoPayment

\* the ledger is backed by rows, which the limit covers
LedgerBacked == /\ ledger.cash + ledger.credit <= AmountOf(Handed)
                /\ AmountOf(Handed) <= Limit

\* The inductive invariant: OutflowWithinLimit and what it rests on.
MoneyInv == /\ IsFiniteSet(Rows) /\ PaymentRows /\ TasksPaid
            /\ LedgerBacked /\ OutflowWithinLimit

\* what a step other than a reservation may do to a row and to a task
RowQuiet(i) ==
    \/ refunds'[i] = refunds[i]
    \/ /\ refunds[i].payment # NoPayment
       /\ \E s \in Unresolved \cup Terminal : refunds'[i] = [refunds[i] EXCEPT !.status = s]
TaskQuiet(a) ==
    \/ task'[a].pc = "idle"
    \/ task[a].pc # "idle" /\ task'[a].refund = task[a].refund
    \/ refunds[task'[a].refund].payment # NoPayment
Quiet == /\ \A i \in Refunds : RowQuiet(i)
         /\ \A a \in Tasks : TaskQuiet(a)
         /\ \A i \in Refunds : provider[i] = "failed" => provider'[i] = "failed"
         /\ UNCHANGED ledger

\* A step that reserves nothing can only lower what may yet be paid out.
LEMMA QuietStep ==
    ASSUME AgreeInv, MoneyInv, AgreeInv', Quiet
    PROVE  MoneyInv'
<1>1. refunds \in [Refunds -> RefundRow] /\ PaymentRows /\ TasksPaid /\ IsFiniteSet(Rows)
  BY DEF AgreeInv, TypeOK, MoneyInv
<1>2. \A i \in Refunds : /\ refunds'[i].amount = refunds[i].amount /\ refunds'[i].key = refunds[i].key
                         /\ refunds'[i].payment = refunds[i].payment
                         /\ refunds'[i].status = "NONE" <=> refunds[i].status = "NONE"
                         /\ \/ refunds'[i].status = refunds[i].status
                            \/ /\ refunds[i].payment # NoPayment
                               /\ refunds'[i].status \in Unresolved \cup Terminal
  <2> TAKE i \in Refunds
  <2>1. CASE refunds'[i] = refunds[i]
    BY <2>1
  <2>2. ASSUME NEW s \in Unresolved \cup Terminal, refunds'[i] = [refunds[i] EXCEPT !.status = s],
               refunds[i].payment # NoPayment
        PROVE  /\ refunds'[i].amount = refunds[i].amount /\ refunds'[i].key = refunds[i].key
               /\ refunds'[i].payment = refunds[i].payment
               /\ refunds'[i].status = s /\ s # "NONE" /\ refunds[i].status # "NONE"
    <3>1. refunds[i] \in RefundRow
      BY <1>1
    <3>2. refunds[i].status # "NONE"
      BY <1>1, <2>2 DEF PaymentRows, Unresolved, Terminal
    <3>3. QED
      BY <2>2, <3>1, <3>2 DEF RefundRow, Unresolved, Terminal
  <2>3. QED
    BY <2>1, <2>2 DEF Quiet, RowQuiet
<1>3. Rows' = Rows /\ Handed' = Handed
  BY <1>2 DEF Rows, Handed
<1>4. PICK R \in SUBSET Refunds : R = Rows /\ IsFiniteSet(R)
  BY <1>1 DEF Rows
<1>5. \A i \in Refunds : refunds[i].amount \in Nat
  <2>1. \A i \in Refunds : refunds[i].amount \in Amounts \cup {0}
    BY <1>1 DEF RefundRow
  <2>2. \A x \in Amounts \cup {0} : x \in Nat
    BY RefundsAssumption
  <2>3. QED
    BY <2>1, <2>2
<1>6. PaymentRows'
  BY <1>1, <1>2 DEF PaymentRows
<1>7. TasksPaid'
  <2>1. ASSUME NEW a \in Tasks, task'[a].pc # "idle" PROVE refunds'[task'[a].refund].payment # NoPayment
    <3>1. task'[a].refund \in Refunds
      BY <2>1 DEF AgreeInv, TypeOK
    <3>2. TaskQuiet(a)
      BY DEF Quiet
    <3>3. refunds[task'[a].refund].payment # NoPayment
      BY <1>1, <2>1, <3>2 DEF TaskQuiet, TasksPaid
    <3>4. QED
      BY <1>2, <3>1, <3>3
  <2>2. QED
    BY <2>1 DEF TasksPaid
<1>8. ASSUME NEW S \in SUBSET R, NEW T \in SUBSET R, S \subseteq T
      PROVE  /\ AmountSum(refunds', S) \in Nat /\ AmountSum(refunds, T) \in Nat
             /\ AmountSum(refunds', S) <= AmountSum(refunds, T)
  <2>1. IsFiniteSet(T) /\ T \in SUBSET Refunds /\ S \in SUBSET T
    BY <1>4, <1>8, FS_Subset
  <2>2. PICK rows2 : rows2 = refunds'
    OBVIOUS
  <2>3. \A i \in S : rows2[i].amount = refunds[i].amount
    BY <1>2, <2>1, <2>2
  <2>4. QED
    BY <1>5, <2>1, <2>2, <2>3, AmountPart
<1>9. LedgerBacked'
  <2>1. PICK H \in SUBSET R : H = Handed /\ H = Handed'
    BY <1>3, <1>4 DEF Handed
  <2>2. AmountOf(Handed) = AmountSum(refunds, H) /\ AmountOf(Handed)' = AmountSum(refunds', H)
    BY <2>1 DEF AmountOf, AmountSum, MapThenSumSet, MapThenFoldSet
  <2>3. AmountSum(refunds', H) = AmountSum(refunds, H)
    <3>1. PICK rows2 : rows2 = refunds'
      OBVIOUS
    <3>2. IsFiniteSet(H) /\ H \in SUBSET Refunds
      BY <1>4, FS_Subset
    <3>3. PICK h : h = AmountsIn(refunds)
      OBVIOUS
    <3>4. PICK h2 : h2 = AmountsIn(rows2)
      OBVIOUS
    <3>5. \A i \in H : h2[i] = h[i]
      BY <1>2, <3>1, <3>2, <3>3, <3>4 DEF AmountsIn
    <3>6. Total(H, h2) = Total(H, h)
      BY <3>2, <3>5, TotalSame
    <3>7. QED
      BY <3>1, <3>2, <3>3, <3>4, <3>6, AmountTotal
  <2>4. ledger' = ledger
    BY DEF Quiet
  <2>5. QED
    BY <2>2, <2>3, <2>4 DEF MoneyInv, LedgerBacked
<1>10. OutflowWithinLimit'
  <2>1. Outstanding' \subseteq Outstanding /\ Outstanding \subseteq R
    BY <1>3, <1>4 DEF Outstanding, Rows, Quiet
  <2>2. PICK S \in SUBSET R, T \in SUBSET R : S = Outstanding' /\ T = Outstanding /\ S \subseteq T
    BY <2>1
  <2>3. AmountOf(Outstanding)' <= Limit
    <3>1. AmountOf(Outstanding)' = AmountSum(refunds', S) /\ AmountOf(Outstanding) = AmountSum(refunds, T)
      BY <2>2 DEF AmountOf, AmountSum, MapThenSumSet, MapThenFoldSet
    <3>2. AmountOf(Outstanding) <= Limit
      BY DEF MoneyInv, OutflowWithinLimit
    <3>3. QED
      BY <1>8, <2>2, <3>1, <3>2, RefundsAssumption
  <2>4. ASSUME NEW g \in Payments
        PROVE  AmountOf({i \in Outstanding : refunds[i].payment = g})' <= Captured[g]
    <3>1. PICK Sg \in SUBSET R, Tg \in SUBSET R :
             /\ Sg = {i \in Outstanding : refunds[i].payment = g}'
             /\ Tg = {i \in Outstanding : refunds[i].payment = g}
             /\ Sg \subseteq Tg
      <4>1. {i \in Outstanding : refunds[i].payment = g}' \subseteq {i \in Outstanding : refunds[i].payment = g}
        BY <1>2, <1>4, <2>1
      <4>2. {i \in Outstanding : refunds[i].payment = g} \subseteq R
        BY <2>1
      <4>3. QED
        BY <4>1, <4>2
    <3>2. /\ AmountOf({i \in Outstanding : refunds[i].payment = g})' = AmountSum(refunds', Sg)
          /\ AmountOf({i \in Outstanding : refunds[i].payment = g}) = AmountSum(refunds, Tg)
      BY <3>1 DEF AmountOf, AmountSum, MapThenSumSet, MapThenFoldSet
    <3>3. AmountOf({i \in Outstanding : refunds[i].payment = g}) <= Captured[g] /\ Captured[g] \in Nat
      BY RefundsAssumption DEF MoneyInv, OutflowWithinLimit
    <3>4. QED
      BY <1>8, <3>1, <3>2, <3>3
  <2>5. ledger'.cash + ledger'.credit <= Limit
    BY DEF Quiet, MoneyInv, OutflowWithinLimit
  <2>6. QED
    BY <2>3, <2>4, <2>5 DEF OutflowWithinLimit
<1>11. IsFiniteSet(Rows)'
  BY <1>1, <1>3
<1>12. QED
  BY <1>6, <1>7, <1>9, <1>10, <1>11 DEF MoneyInv

\* The same amounts are the same sum.
LEMMA AmountSame ==
    ASSUME NEW rows, NEW rows2, NEW S \in SUBSET Refunds, IsFiniteSet(S),
           \A i \in S : rows2[i].amount = rows[i].amount
    PROVE  AmountSum(rows2, S) = AmountSum(rows, S)
<1>1. PICK h : h = AmountsIn(rows)
  OBVIOUS
<1>2. PICK h2 : h2 = AmountsIn(rows2)
  OBVIOUS
<1>3. \A i \in S : h2[i] = h[i]
  BY <1>1, <1>2 DEF AmountsIn
<1>4. Total(S, h2) = Total(S, h)
  BY <1>3, TotalSame
<1>5. QED
  BY <1>1, <1>2, <1>4, AmountTotal

\* With one refund more the sum is at most its amount larger.
LEMMA AmountBound ==
    ASSUME NEW rows, NEW rows2, NEW T \in SUBSET Refunds, IsFiniteSet(T), NEW j \in Refunds, j \notin T,
           NEW S \in SUBSET Refunds, S \subseteq T \cup {j},
           \A i \in T : rows[i].amount \in Nat /\ rows2[i].amount = rows[i].amount,
           rows2[j].amount \in Nat
    PROVE  /\ AmountSum(rows, T) \in Nat /\ AmountSum(rows2, S) \in Nat
           /\ AmountSum(rows2, S) <= AmountSum(rows, T) + rows2[j].amount
<1>1. PICK U \in SUBSET Refunds : U = T \cup {j}
  OBVIOUS
<1>2. IsFiniteSet(U) /\ S \in SUBSET U
  BY <1>1, FS_AddElement
<1>3. \A i \in U : rows2[i].amount \in Nat
  BY <1>1
<1>4. AmountSum(rows2, S) \in Nat /\ AmountSum(rows2, S) <= AmountSum(rows2, U)
  BY <1>2, <1>3, AmountPart
<1>5. AmountSum(rows, T) \in Nat /\ AmountSum(rows2, U) = AmountSum(rows, T) + rows2[j].amount
  <2>1. AmountSum(rows, T) \in Nat
    BY AmountPart
  <2>2. PICK V : V = T
    OBVIOUS
  <2>3. V \in SUBSET Refunds /\ IsFiniteSet(V) /\ j \notin V
    BY <2>2
  <2>4. \A i \in V : rows[i].amount \in Nat /\ rows2[i].amount = rows[i].amount
    BY <2>2
  <2>5. AmountSum(rows2, V \cup {j}) = AmountSum(rows, V) + rows2[j].amount
    BY ONLY <2>3, <2>4, AmountAdded, j \in Refunds, rows2[j].amount \in Nat
  <2>6. QED
    BY <1>1, <2>1, <2>2, <2>5
<1>6. QED
  BY <1>4, <1>5

\* What the provider may still pay is reserved.
LEMMA OutstandingReserved ==
    ASSUME AgreeInv, MoneyInv
    PROVE  Outstanding \subseteq Reserved /\ Handed \subseteq Reserved
<1>1. PaymentRows /\ AgreesWithProvider
  BY DEF AgreeInv, MoneyInv
<1>2. ASSUME NEW i \in Rows, provider[i] # "failed" \/ refunds[i].payment = NoPayment
      PROVE  refunds[i].status # "FAILED"
  <2>1. i \in Refunds
    BY DEF Rows
  <2>2. QED
    BY <1>1, <1>2, <2>1 DEF PaymentRows, AgreesWithProvider
<1>3. QED
  BY <1>2 DEF Outstanding, Handed, Reserved

\* A reservation adds one row, which fits under the limit and its payment.
LEMMA ReserveMoney ==
    ASSUME AgreeInv, MoneyInv, AgreeInv', NEW amount \in Amounts,
           NEW mode \in {"CASH", "GIFT_CARD", "UPI"}, NEW key \in Keys, Reserve(amount, mode, key)
    PROVE  MoneyInv'
<1>1. PICK i, row : /\ i = Min(Refunds \ Rows) /\ row = NewRow(amount, mode, key)
                    /\ refunds' = [refunds EXCEPT ![i] = row]
                    /\ IF row.status = "PENDING" THEN Submit(i, i) ELSE UNCHANGED <<task, wire>>
  BY DEF Reserve
<1>2. i \in Refunds /\ i \notin Rows
  <2>1. Refunds \ Rows # {} /\ Refunds \ Rows \in SUBSET Nat
    BY RefundsAssumption DEF Reserve, Rows
  <2>2. QED
    BY <1>1, <2>1, MinIn
<1>3. refunds \in [Refunds -> RefundRow] /\ task \in [Tasks -> Task] /\ PaymentRows /\ TasksPaid /\ IsFiniteSet(Rows)
  BY DEF AgreeInv, TypeOK, MoneyInv
<1>4. amount \in Nat /\ Limit \in Nat /\ Captured \in [Payments -> Nat]
  BY RefundsAssumption
<1>5. /\ row.amount = amount /\ row.key = key
      /\ row.payment = NoPayment => row.status \in {"MANUAL", "PROCESSED"}
      /\ row.payment # NoPayment => row.status = "PENDING" /\ row.payment \in Fitting(amount) /\ mode = "UPI"
  <2>1. PICK fits \in SUBSET Nat : /\ fits = IF mode = "UPI" THEN Fitting(amount) ELSE {}
                                   /\ fits \subseteq Payments
    BY RefundsAssumption DEF Fitting
  <2>2. row = [amount |-> amount, mode |-> mode, key |-> key,
               payment |-> IF fits = {} THEN NoPayment ELSE Min(fits),
               status |-> IF mode # "UPI" THEN "PROCESSED"
                          ELSE IF fits = {} THEN "MANUAL" ELSE "PENDING"]
    BY <1>1, <2>1 DEF NewRow
  <2>3. fits # {} => Min(fits) \in fits
    BY <2>1, MinIn
  <2>4. fits # {} => mode = "UPI" /\ fits = Fitting(amount) /\ Min(fits) # NoPayment
    BY <2>1, <2>3, RefundsAssumption
  <2>5. QED
    BY <2>2, <2>3, <2>4
<1>6. refunds'[i] = row /\ \A j \in Refunds \ {i} : refunds'[j] = refunds[j]
  BY <1>1, <1>2, <1>3
<1>7. Rows' = Rows \cup {i}
  BY <1>2, <1>5, <1>6 DEF Rows
<1>8. IsFiniteSet(Rows)'
  BY <1>3, <1>7, FS_AddElement
<1>9. PaymentRows'
  <2>1. ASSUME NEW j \in Refunds
        PROVE  IF refunds'[j].payment = NoPayment THEN refunds'[j].status \in {"NONE", "MANUAL", "PROCESSED"}
               ELSE refunds'[j].status \in Unresolved \cup Terminal
    <3>1. CASE j = i
      BY <1>5, <1>6, <3>1 DEF Unresolved
    <3>2. CASE j # i
      BY <1>3, <1>6, <3>2 DEF PaymentRows
    <3>3. QED
      BY <3>1, <3>2
  <2>2. QED
    BY <2>1 DEF PaymentRows
<1>10. TasksPaid'
  <2>1. ASSUME NEW a \in Tasks, task'[a].pc # "idle" PROVE refunds'[task'[a].refund].payment # NoPayment
    <3>1. CASE task'[a] = task[a]
      <4>1. PICK j \in Refunds : j = task[a].refund /\ refunds[j].payment # NoPayment
        BY <1>3, <2>1, <3>1 DEF AgreeInv, TypeOK, TasksPaid
      <4>2. j # i
        BY <1>2, <1>3, <4>1 DEF PaymentRows, Rows, Unresolved, Terminal
      <4>3. QED
        BY <1>6, <3>1, <4>1, <4>2
    <3>2. CASE task'[a] # task[a]
      <4>1. row.status = "PENDING" /\ Submit(i, i)
        BY <1>1, <3>2
      <4>2. task'[a].refund = i
        BY <1>3, <3>2, <4>1 DEF Submit, Task
      <4>3. QED
        BY <1>5, <1>6, <4>1, <4>2
    <3>3. QED
      BY <3>1, <3>2
  <2>2. QED
    BY <2>1 DEF TasksPaid
<1>11. PICK R \in SUBSET Refunds : R = Rows /\ IsFiniteSet(R) /\ i \notin R
  BY <1>2, <1>3 DEF Rows
<1>12. \A j \in R : refunds[j].amount \in Nat /\ refunds'[j].amount = refunds[j].amount
  <2>1. \A j \in R : refunds[j].amount \in Amounts \cup {0}
    BY <1>3 DEF RefundRow
  <2>2. \A x \in Amounts \cup {0} : x \in Nat
    BY RefundsAssumption
  <2>3. QED
    BY <1>6, <1>11, <2>1, <2>2
<1>13. PICK rows2 : rows2 = refunds'
  OBVIOUS
<1>14. ASSUME NEW S \in SUBSET Refunds, NEW T \in SUBSET R, S \subseteq T \cup {i}
       PROVE  /\ AmountSum(refunds, T) \in Nat /\ AmountSum(rows2, S) \in Nat
              /\ AmountSum(rows2, S) <= AmountSum(refunds, T) + amount
              /\ S = T \cup {i} => AmountSum(rows2, S) = AmountSum(refunds, T) + amount
              /\ S \subseteq T => AmountSum(rows2, S) <= AmountSum(refunds, T)
              /\ S = T => AmountSum(rows2, S) = AmountSum(refunds, T)
  <2>1. T \in SUBSET Refunds /\ IsFiniteSet(T) /\ i \notin T
    BY <1>11, FS_Subset
  <2>2. /\ \A j \in T : refunds[j].amount \in Nat /\ rows2[j].amount = refunds[j].amount
        /\ rows2[i].amount = amount
    BY <1>5, <1>6, <1>12, <1>13
  <2>3. /\ AmountSum(refunds, T) \in Nat /\ AmountSum(rows2, S) \in Nat
        /\ AmountSum(rows2, S) <= AmountSum(refunds, T) + amount
    BY <1>2, <1>4, <1>14, <2>1, <2>2, AmountBound
  <2>4. S = T \cup {i} => AmountSum(rows2, S) = AmountSum(refunds, T) + amount
    BY <1>2, <1>4, <2>1, <2>2, AmountAdded
  <2>5. S \subseteq T => AmountSum(rows2, S) <= AmountSum(refunds, T)
    BY <2>1, <2>2, AmountPart
  <2>6. S = T => AmountSum(rows2, S) = AmountSum(refunds, T)
    BY <2>1, <2>2, AmountSame
  <2>7. QED
    BY <2>3, <2>4, <2>5, <2>6
<1>15. PICK Res \in SUBSET R : Res = Reserved
  BY <1>11 DEF Reserved
<1>16. AmountSum(refunds, Res) + amount <= Limit
  BY <1>15 DEF Reserve, AmountOf, AmountSum, MapThenSumSet, MapThenFoldSet
<1>17. PICK H \in SUBSET R, O \in SUBSET R : H = Handed /\ O = Outstanding /\ H \subseteq Res /\ O \subseteq Res
  BY <1>11, <1>15, OutstandingReserved DEF Handed, Outstanding
<1>18. AmountSum(refunds, H) + amount <= Limit
  <2>1. IsFiniteSet(Res) /\ Res \in SUBSET Refunds
    BY <1>11, FS_Subset
  <2>2. /\ AmountSum(refunds, H) \in Nat /\ AmountSum(refunds, Res) \in Nat
        /\ AmountSum(refunds, H) <= AmountSum(refunds, Res)
    BY <1>12, <1>17, <2>1, AmountPart
  <2>3. QED
    BY <1>4, <1>16, <2>2
<1>19. ledger.cash + ledger.credit <= AmountSum(refunds, H) /\ ledger.cash \in Nat /\ ledger.credit \in Nat
  <2>1. AmountOf(Handed) = AmountSum(refunds, H)
    BY <1>17 DEF AmountOf, AmountSum, MapThenSumSet, MapThenFoldSet
  <2>2. QED
    BY <2>1 DEF MoneyInv, LedgerBacked, AgreeInv, TypeOK
<1>20. PICK open \in BOOLEAN :
         ledger' = [cash |-> ledger.cash + IF mode = "CASH" /\ open THEN amount ELSE 0,
                    credit |-> ledger.credit + IF mode = "GIFT_CARD" THEN amount ELSE 0]
  BY DEF Reserve
<1>21. LedgerBacked' /\ ledger'.cash + ledger'.credit <= Limit
  <2>1. PICK H2 \in SUBSET Refunds : H2 = Handed'
    BY DEF Handed, Rows
  <2>2. AmountOf(Handed)' = AmountSum(rows2, H2)
    BY <1>13, <2>1 DEF AmountOf, AmountSum, MapThenSumSet, MapThenFoldSet
  <2>3. CASE row.payment = NoPayment
    <3>1. H2 = H \cup {i}
      BY <1>6, <1>7, <1>11, <1>17, <2>1, <2>3 DEF Handed
    <3>2. AmountSum(rows2, H2) = AmountSum(refunds, H) + amount /\ AmountSum(refunds, H) \in Nat
      BY <1>14, <3>1
    <3>3. ledger'.cash + ledger'.credit <= ledger.cash + ledger.credit + amount
      BY <1>4, <1>19, <1>20
    <3>4. ledger'.cash \in Nat /\ ledger'.credit \in Nat
      BY <1>4, <1>19, <1>20
    <3>5. /\ ledger'.cash + ledger'.credit <= AmountSum(rows2, H2)
          /\ AmountSum(rows2, H2) <= Limit
          /\ ledger'.cash + ledger'.credit <= Limit
      BY <1>4, <1>18, <1>19, <3>2, <3>3, <3>4
    <3>6. QED
      BY <2>2, <3>5 DEF LedgerBacked
  <2>4. CASE row.payment # NoPayment
    <3>1. H2 = H
      BY <1>6, <1>7, <1>11, <1>17, <2>1, <2>4 DEF Handed
    <3>2. AmountSum(rows2, H2) = AmountSum(refunds, H) /\ AmountSum(refunds, H) \in Nat
      BY <1>14, <3>1
    <3>3. ledger'.cash = ledger.cash /\ ledger'.credit = ledger.credit
      BY <1>5, <1>19, <1>20, <2>4
    <3>4. /\ ledger'.cash + ledger'.credit <= AmountSum(rows2, H2)
          /\ AmountSum(rows2, H2) <= Limit
          /\ ledger'.cash + ledger'.credit <= Limit
      BY <1>4, <1>18, <1>19, <3>2, <3>3
    <3>5. QED
      BY <2>2, <3>4 DEF LedgerBacked
  <2>5. QED
    BY <2>3, <2>4
<1>22. UNCHANGED provider
  BY DEF Reserve
<1>23. PICK O2 \in SUBSET Refunds : O2 = Outstanding' /\ O2 \subseteq O \cup {i} /\ O2 \subseteq Rows'
  <2>1. Outstanding' = {j \in Rows' : provider'[j] # "failed"}
    BY DEF Outstanding
  <2>2. Outstanding' = {j \in Rows \cup {i} : provider[j] # "failed"}
    BY <1>7, <1>22, <2>1
  <2>3. O = {j \in Rows : provider[j] # "failed"}
    BY <1>17 DEF Outstanding
  <2>4. Outstanding' \subseteq O \cup {i} /\ Outstanding' \subseteq Rows'
    BY <2>1, <2>2, <2>3
  <2>5. O \cup {i} \in SUBSET Refunds
    BY <1>2, <1>11, <1>17
  <2>6. QED
    BY <2>4, <2>5
<1>24. AmountOf(Outstanding)' <= Limit
  <2>1. AmountOf(Outstanding)' = AmountSum(rows2, O2)
    BY <1>13, <1>23 DEF AmountOf, AmountSum, MapThenSumSet, MapThenFoldSet
  <2>2. O2 \subseteq Res \cup {i}
    BY <1>17, <1>23
  <2>3. /\ AmountSum(rows2, O2) <= AmountSum(refunds, Res) + amount
        /\ AmountSum(rows2, O2) \in Nat /\ AmountSum(refunds, Res) \in Nat
    BY <1>14, <2>2
  <2>4. QED
    BY <1>4, <1>16, <2>1, <2>3
<1>25. ASSUME NEW g \in Payments
       PROVE  AmountOf({j \in Outstanding : refunds[j].payment = g})' <= Captured[g]
  <2>1. Captured[g] \in Nat
    BY <1>4
  <2>2. PICK S \in SUBSET Refunds : S = {j \in O2 : rows2[j].payment = g}
    OBVIOUS
  <2>3. AmountOf({j \in Outstanding : refunds[j].payment = g})' = AmountSum(rows2, S)
    BY <1>13, <1>23, <2>2 DEF AmountOf, AmountSum, MapThenSumSet, MapThenFoldSet
  <2>4. CASE row.payment = g
    <3>1. PICK T \in SUBSET R : T = {j \in Reserved : refunds[j].payment = g}
      BY <1>15
    <3>2. g \in Fitting(amount)
      BY <1>5, <2>4, RefundsAssumption
    <3>3. AmountSum(refunds, T) + amount <= Captured[g]
      BY <3>1, <3>2 DEF Fitting, AmountOf, AmountSum, MapThenSumSet, MapThenFoldSet
    <3>4. S \subseteq T \cup {i}
      BY <1>6, <1>13, <1>15, <1>17, <1>23, <2>2, <3>1
    <3>5. /\ AmountSum(rows2, S) <= AmountSum(refunds, T) + amount
          /\ AmountSum(rows2, S) \in Nat /\ AmountSum(refunds, T) \in Nat
      BY <1>14, <3>4
    <3>6. QED
      BY <1>4, <2>1, <2>3, <3>3, <3>5
  <2>5. CASE row.payment # g
    <3>1. PICK T \in SUBSET R : T = {j \in Outstanding : refunds[j].payment = g}
      BY <1>17
    <3>2. AmountSum(refunds, T) <= Captured[g]
      <4>1. AmountOf({j \in Outstanding : refunds[j].payment = g}) <= Captured[g]
        BY DEF MoneyInv, OutflowWithinLimit
      <4>2. QED
        BY <3>1, <4>1 DEF AmountOf, AmountSum, MapThenSumSet, MapThenFoldSet
    <3>3. S \subseteq T
      BY <1>6, <1>13, <1>17, <1>23, <2>2, <2>5, <3>1
    <3>4. /\ AmountSum(rows2, S) <= AmountSum(refunds, T)
          /\ AmountSum(rows2, S) \in Nat /\ AmountSum(refunds, T) \in Nat
      BY <1>14, <3>3
    <3>5. QED
      BY <2>1, <2>3, <3>2, <3>4
  <2>6. QED
    BY <2>4, <2>5
<1>26. OutflowWithinLimit'
  BY <1>21, <1>24, <1>25 DEF OutflowWithinLimit
<1>27. QED
  BY <1>8, <1>9, <1>10, <1>21, <1>26 DEF MoneyInv

\* Moving one task to a record that is idle, or for a refund it already has or
\* may have, is quiet.
LEMMA TaskKept ==
    ASSUME AgreeInv, NEW a \in Tasks, NEW t, task' = [task EXCEPT ![a] = t],
           \/ t.pc = "idle"
           \/ task[a].pc # "idle" /\ t.refund = task[a].refund
           \/ refunds[t.refund].payment # NoPayment
    PROVE  \A b \in Tasks : TaskQuiet(b)
<1> TAKE b \in Tasks
<1>1. task'[b] = IF b = a THEN t ELSE task[b]
  BY DEF AgreeInv, TypeOK
<1>2. QED
  BY <1>1 DEF TaskQuiet

\* Writing a status on the row of a captured payment is quiet.
LEMMA StatusQuiet ==
    ASSUME AgreeInv, NEW i \in Refunds, NEW s \in Unresolved \cup Terminal,
           refunds' = [refunds EXCEPT ![i].status = s], refunds[i].payment # NoPayment
    PROVE  \A j \in Refunds : RowQuiet(j)
<1> TAKE j \in Refunds
<1>1. refunds'[j] = IF j = i THEN [refunds[i] EXCEPT !.status = s] ELSE refunds[j]
  BY DEF AgreeInv, TypeOK
<1>2. QED
  BY <1>1 DEF RowQuiet

\* So is resolving a refund that is open.
LEMMA ResolveQuiet ==
    ASSUME AgreeInv, MoneyInv, NEW i \in Refunds, NEW s \in ProviderStatus, Resolve(i, s)
    PROVE  \A j \in Refunds : RowQuiet(j)
<1>1. PICK st \in Unresolved \cup Terminal : st = StatusOf(s)
  BY DEF StatusOf, ProviderStatus, Unresolved, Terminal
<1>2. CASE refunds[i].status \in Unresolved /\ refunds' = [refunds EXCEPT ![i].status = st]
  <2>1. refunds[i].payment # NoPayment
    BY <1>2 DEF MoneyInv, PaymentRows, Unresolved
  <2>2. QED
    BY <1>2, <2>1, StatusQuiet
<1>3. CASE refunds' = refunds
  BY <1>3 DEF RowQuiet
<1>4. QED
  BY <1>1, <1>2, <1>3 DEF Resolve

\* Every step but a reservation is quiet: answers, webhooks, recovery and the
\* API's own write only resolve rows of captured payments.
LEMMA TaskStepsQuiet ==
    ASSUME AgreeInv, MoneyInv, NEW a \in Tasks,
           \/ Answer(a) \/ TimeOut(a) \/ Crash(a)
           \/ a \in Workers /\ (FindRefund(a) \/ FindFails(a) \/ Refuse(a) \/ \E i \in Refunds : StartReconcile(a, i))
    PROVE  Quiet
<1>1. UNCHANGED <<refunds, ledger, provider>>
  BY DEF Answer, TimeOut, Crash, FindRefund, FindFails, Refuse, StartReconcile
<1>2. (\A i \in Refunds : RowQuiet(i)) /\ (\A i \in Refunds : provider[i] = "failed" => provider'[i] = "failed")
  BY <1>1 DEF RowQuiet
<1>3. task \in [Tasks -> Task]
  BY DEF AgreeInv, TypeOK
<1>4. ASSUME NEW answer, task[a].pc # "idle", Answered(a, answer) PROVE \A b \in Tasks : TaskQuiet(b)
  <2>1. PICK t : t = [task[a] EXCEPT !.pc = "write", !.answer = answer]
    OBVIOUS
  <2>2. task' = [task EXCEPT ![a] = t]
    BY <1>3, <1>4, <2>1 DEF Answered
  <2>3. t.refund = task[a].refund
    BY <1>3, <2>1 DEF Task
  <2>4. QED
    BY <1>4, <2>2, <2>3, TaskKept
<1>5. ASSUME task[a].pc # "idle", Submit(a, task[a].refund) PROVE \A b \in Tasks : TaskQuiet(b)
  <2>1. PICK i : i = task[a].refund
    OBVIOUS
  <2>2. PICK t : t = [task[a] EXCEPT !.pc = "wait", !.refund = i]
    OBVIOUS
  <2>3. task' = [task EXCEPT ![a] = t]
    BY <1>3, <1>5, <2>1, <2>2 DEF Submit
  <2>4. t.refund = i
    BY <1>3, <2>2 DEF Task
  <2>5. QED
    BY <1>5, <2>1, <2>3, <2>4, TaskKept
<1>6. \A b \in Tasks : TaskQuiet(b)
  <2>1. CASE Answer(a) \/ TimeOut(a) \/ FindFails(a) \/ Refuse(a)
    BY <1>4, <2>1 DEF Answer, TimeOut, FindFails, Refuse
  <2>2. CASE Crash(a)
    BY <2>2, TaskKept DEF Crash, Idle
  <2>3. CASE FindRefund(a)
    BY <1>4, <1>5, <2>3 DEF FindRefund
  <2>4. ASSUME NEW i \in Refunds, StartReconcile(a, i) PROVE \A b \in Tasks : TaskQuiet(b)
    <3>1. refunds[i].payment # NoPayment
      BY <2>4 DEF StartReconcile, MoneyInv, PaymentRows, Unresolved
    <3>2. PICK t : t = [Idle EXCEPT !.pc = "find", !.refund = i, !.from = refunds[i].status]
      OBVIOUS
    <3>3. t.refund = i /\ task' = [task EXCEPT ![a] = t]
      BY <2>4, <3>2 DEF StartReconcile, Idle
    <3>4. QED
      BY <3>1, <3>3, TaskKept
  <2>5. QED
    BY <2>1, <2>2, <2>3, <2>4
<1>7. QED
  BY <1>1, <1>2, <1>6 DEF Quiet

\* The provider, webhooks and the writers of an answer likewise.
LEMMA WritesQuiet ==
    ASSUME AgreeInv, MoneyInv,
           \/ \E i \in Refunds : WriteApi(i) \/ Accept(i) \/ Lose(i) \/ PayOut(i)
           \/ \E e \in Events : HandleEvent(e) \/ DropEvent(e)
           \/ \E w \in Workers : WriteRecovered(w) \/ WriteUncertain(w)
    PROVE  Quiet
<1>1. UNCHANGED ledger
  BY DEF WriteApi, Accept, Lose, PayOut, HandleEvent, DropEvent, WriteRecovered, WriteUncertain
<1>2. ASSUME UNCHANGED task PROVE \A b \in Tasks : TaskQuiet(b)
  BY <1>2 DEF TaskQuiet
<1>3. ASSUME UNCHANGED refunds PROVE \A j \in Refunds : RowQuiet(j)
  BY <1>3 DEF RowQuiet
<1>4. ASSUME NEW a \in Tasks, task' = [task EXCEPT ![a] = Idle] PROVE \A b \in Tasks : TaskQuiet(b)
  BY <1>4, TaskKept DEF Idle
<1>5. ASSUME NEW a \in Tasks, task[a].pc = "write"
      PROVE  task[a].refund \in Refunds /\ refunds[task[a].refund].payment # NoPayment
  BY <1>5 DEF AgreeInv, TypeOK, MoneyInv, TasksPaid
<1>6. ASSUME NEW i \in Refunds, WriteApi(i) PROVE Quiet
  <2>1. i \in Tasks /\ task[i].refund = i /\ task' = [task EXCEPT ![i] = Idle] /\ UNCHANGED provider
    BY <1>6 DEF Tasks, WriteApi, AgreeInv, TypeOK
  <2>2. refunds[i].payment # NoPayment
    BY <1>5, <1>6, <2>1 DEF WriteApi
  <2>3. PICK s : s = IF task[i].answer \in ProviderStatus THEN StatusOf(task[i].answer) ELSE "UNKNOWN"
    OBVIOUS
  <2>4. s \in Unresolved \cup Terminal
    BY <2>3 DEF StatusOf, Unresolved, Terminal
  <2>5. refunds' = [refunds EXCEPT ![i].status = s]
    BY <1>6, <2>3 DEF WriteApi
  <2>6. \A j \in Refunds : RowQuiet(j)
    BY <2>2, <2>4, <2>5, StatusQuiet
  <2>7. QED
    BY <1>1, <1>4, <2>1, <2>6 DEF Quiet
<1>7. ASSUME NEW i \in Refunds, Accept(i) \/ Lose(i) \/ PayOut(i) PROVE Quiet
  <2>1. UNCHANGED <<refunds, task>>
    BY <1>7 DEF Accept, Lose, PayOut
  <2>2. \A j \in Refunds : provider[j] = "failed" => provider'[j] = "failed"
    BY <1>7 DEF Accept, Lose, PayOut, AgreeInv, TypeOK
  <2>3. QED
    BY <1>1, <1>2, <1>3, <2>1, <2>2 DEF Quiet
<1>8. ASSUME NEW e \in Events, HandleEvent(e) \/ DropEvent(e) PROVE Quiet
  <2>1. UNCHANGED <<task, provider>>
    BY <1>8 DEF HandleEvent, DropEvent
  <2>2. PICK i \in Refunds, s \in ProviderStatus : e.refund = i /\ e.status = s
    BY DEF Events
  <2>3. \A j \in Refunds : RowQuiet(j)
    <3>1. CASE HandleEvent(e)
      BY <2>2, <3>1, ResolveQuiet DEF HandleEvent
    <3>2. CASE DropEvent(e)
      BY <1>3, <3>2 DEF DropEvent
    <3>3. QED
      BY <1>8, <3>1, <3>2
  <2>4. QED
    BY <1>1, <1>2, <2>1, <2>3 DEF Quiet
<1>9. ASSUME NEW w \in Workers, WriteRecovered(w) \/ WriteUncertain(w) PROVE Quiet
  <2>1. w \in Tasks /\ task[w].pc = "write" /\ task' = [task EXCEPT ![w] = Idle] /\ UNCHANGED provider
    BY <1>9 DEF Tasks, WriteRecovered, WriteUncertain
  <2>2. PICK i \in Refunds : i = task[w].refund /\ refunds[i].payment # NoPayment
    BY <1>5, <2>1
  <2>3. \A j \in Refunds : RowQuiet(j)
    <3>1. CASE WriteRecovered(w)
      <4>1. PICK s \in ProviderStatus : s = task[w].answer
        BY <3>1 DEF WriteRecovered
      <4>2. QED
        BY <2>2, <3>1, <4>1, ResolveQuiet DEF WriteRecovered
    <3>2. CASE WriteUncertain(w)
      <4>1. "UNKNOWN" \in Unresolved \cup Terminal
        BY DEF Unresolved
      <4>2. refunds' = refunds \/ refunds' = [refunds EXCEPT ![i].status = "UNKNOWN"]
        BY <2>2, <3>2 DEF WriteUncertain
      <4>3. QED
        BY <1>3, <2>2, <4>1, <4>2, StatusQuiet
    <3>3. QED
      BY <1>9, <3>1, <3>2
  <2>4. QED
    BY <1>1, <1>4, <2>1, <2>3 DEF Quiet
<1>10. QED
  BY <1>6, <1>7, <1>8, <1>9

\* Every step keeps the money in order.
LEMMA NextMoney == AgreeInv /\ MoneyInv /\ [Next]_vars => MoneyInv'
<1> SUFFICES ASSUME AgreeInv, MoneyInv, [Next]_vars PROVE MoneyInv'
  OBVIOUS
<1>1. AgreeInv'
  BY NextAgrees
<1>2. CASE \E amount \in Amounts, mode \in {"CASH", "GIFT_CARD", "UPI"}, key \in Keys : Reserve(amount, mode, key)
  BY <1>1, <1>2, ReserveMoney
<1>3. ASSUME NEW a \in Tasks,
             \/ Answer(a) \/ TimeOut(a) \/ Crash(a)
             \/ a \in Workers /\ (FindRefund(a) \/ FindFails(a) \/ Refuse(a) \/ \E i \in Refunds : StartReconcile(a, i))
      PROVE  MoneyInv'
  BY <1>1, <1>3, TaskStepsQuiet, QuietStep
<1>4. CASE \/ \E i \in Refunds : WriteApi(i) \/ Accept(i) \/ Lose(i) \/ PayOut(i)
           \/ \E e \in Events : HandleEvent(e) \/ DropEvent(e)
           \/ \E w \in Workers : WriteRecovered(w) \/ WriteUncertain(w)
  BY <1>1, <1>4, WritesQuiet, QuietStep
<1>5. CASE UNCHANGED vars
  <2>1. Quiet
    BY <1>5 DEF vars, Quiet, RowQuiet, TaskQuiet
  <2>2. QED
    BY <1>1, <2>1, QuietStep
<1>6. Workers \subseteq Tasks
  BY DEF Tasks
<1>7. QED
  BY <1>2, <1>3, <1>4, <1>5, <1>6 DEF Next

\* There is no refund at first.
LEMMA InitMoney == Init => MoneyInv
<1> SUFFICES ASSUME Init PROVE MoneyInv
  OBVIOUS
<1>1. Rows = {} /\ Handed = {} /\ Outstanding = {}
  BY DEF Init, Rows, Absent, Handed, Outstanding
<1>2. PICK E \in SUBSET Refunds : E = {}
  OBVIOUS
<1>3. IsFiniteSet(E)
  BY <1>2, FS_EmptySet
<1>4. AmountSum(refunds, E) = 0
  <2>1. PICK h : h = AmountsIn(refunds)
    OBVIOUS
  <2>2. Total(E, h) = 0
    BY <1>2, <1>3, TotalStep
  <2>3. QED
    BY <1>3, <2>1, <2>2, AmountTotal
<1>5. AmountOf({}) = 0
  BY <1>2, <1>4 DEF AmountOf, AmountSum, MapThenSumSet, MapThenFoldSet
<1>6. \A g \in Payments : {i \in Outstanding : refunds[i].payment = g} = {}
  BY <1>1
<1>7. Limit \in Nat /\ \A g \in Payments : Captured[g] \in Nat
  BY RefundsAssumption
<1>8. ledger.cash = 0 /\ ledger.credit = 0
  BY DEF Init
<1>9. LedgerBacked
  BY <1>1, <1>5, <1>7, <1>8 DEF LedgerBacked
<1>10. OutflowWithinLimit
  BY <1>1, <1>5, <1>6, <1>7, <1>8 DEF OutflowWithinLimit
<1>11. PaymentRows /\ TasksPaid
  BY <1>1 DEF Init, Absent, Idle, PaymentRows, TasksPaid
<1>12. QED
  BY <1>1, <1>2, <1>3, <1>9, <1>10, <1>11 DEF MoneyInv

\* In every state both invariants hold.
LEMMA MoneyHolds == Spec => [](AgreeInv /\ MoneyInv)
BY InitAgrees, InitMoney, NextAgrees, NextMoney, PTL DEF Spec

\* Money out never exceeds the order's limit nor what a captured payment holds,
\* whatever the provider may still decide on refunds that are uncertain.
THEOREM OutflowBounded == Spec => []OutflowWithinLimit
<1>1. MoneyInv => OutflowWithinLimit
  BY DEF MoneyInv
<1>2. QED
  BY <1>1, MoneyHolds, PTL
=============================================================================

------------------------ MODULE BillingCycleProofs ------------------------
(***************************************************************************)
(* Theorems about the billing cycle, for any set of customers and          *)
(* payments, any number of months, any length of a month and any mix of    *)
(* requests and failures.                                                  *)
(***************************************************************************)
EXTENDS BillingCycle, TLAPS

-----------------------------------------------------------------------------
(* Type correctness.                                                       *)

LEMMA CalendarFacts ==
    /\ LastMonth \in Nat
    /\ LastReminderDay \in Nat /\ LastReminderDay >= 1
    /\ DaysInMonth \in Nat /\ DaysInMonth > LastReminderDay
BY CalendarAssumption

(* A goroutine that moves on keeps the shape of the jobs. *)
LEMMA JobMoves ==
    ASSUME job \in [Runner -> Job], NEW r \in Runner
    PROVE  /\ \A phase \in Phase, todo, doing \in SUBSET InvoiceId :
                 Continue(r, phase, todo, doing) => job' \in [Runner -> Job]
           /\ \A phase \in Phase, m \in BilledMonth, todo \in SUBSET InvoiceId :
                 Start(r, phase, m, todo) => job' \in [Runner -> Job]
           /\ Rest(r) => job' \in [Runner -> Job]
<1>1. Idle \in Job
  BY CalendarFacts DEF Idle, Job, Phase, BilledMonth
<1>2. QED
  BY <1>1 DEF Continue, Start, Rest, Job

(* The rows the statements write are rows. *)
LEMMA InvoiceWrites ==
    ASSUME today \in Date, invoice \in [InvoiceId -> InvoiceRow(Payment)], NEW i \in InvoiceId
    PROVE  /\ \A s \in InvoiceStatus :
                 [invoice EXCEPT ![i].status = s] \in [InvoiceId -> InvoiceRow(Payment)]
           /\ [invoice EXCEPT ![i].billSentAt = TRUE] \in [InvoiceId -> InvoiceRow(Payment)]
           /\ [invoice EXCEPT ![i].suspendedAt = TRUE] \in [InvoiceId -> InvoiceRow(Payment)]
           /\ [invoice EXCEPT ![i] = Reminded(invoice[i])] \in [InvoiceId -> InvoiceRow(Payment)]
           /\ \A p \in Payment : SettledOnline(p, i) \in [InvoiceId -> InvoiceRow(Payment)]
           /\ NoInvoice \in InvoiceRow(Payment)
           /\ FreshInvoice \in InvoiceRow(Payment)
<1> USE DEF InvoiceRow, InvoiceStatus, PaidStatus
<1>1. \A s \in InvoiceStatus :
          [invoice EXCEPT ![i].status = s] \in [InvoiceId -> InvoiceRow(Payment)]
  OBVIOUS
<1>2. /\ [invoice EXCEPT ![i].billSentAt = TRUE] \in [InvoiceId -> InvoiceRow(Payment)]
      /\ [invoice EXCEPT ![i].suspendedAt = TRUE] \in [InvoiceId -> InvoiceRow(Payment)]
  OBVIOUS
<1>3. [invoice EXCEPT ![i] = Reminded(invoice[i])] \in [InvoiceId -> InvoiceRow(Payment)]
  <2>1. invoice[i] \in InvoiceRow(Payment)
    OBVIOUS
  <2>2. Reminded(invoice[i]) \in InvoiceRow(Payment)
    <3>1. invoice[i].reminderCount \in Nat /\ invoice[i].reminderCount + 1 \in Nat
      BY <2>1
    <3> DEFINE n == invoice[i].reminderCount + 1
    <3> HIDE DEF n
    <3>2. [invoice[i] EXCEPT !.lastReminderOn = today, !.reminderCount = n] \in InvoiceRow(Payment)
      BY <2>1, <3>1 DEF n
    <3>3. QED
      BY <3>2 DEF Reminded, n
  <2> HIDE DEF InvoiceRow
  <2>3. QED
    BY <2>2
<1>4. ASSUME NEW p \in Payment
      PROVE  SettledOnline(p, i) \in [InvoiceId -> InvoiceRow(Payment)]
  BY DEF SettledOnline
<1>5. NoInvoice \in InvoiceRow(Payment) /\ FreshInvoice \in InvoiceRow(Payment)
  BY DEF NoInvoice, FreshInvoice
<1>6. QED
  BY <1>1, <1>2, <1>3, <1>4, <1>5

LEMMA CustomerWrites ==
    ASSUME customer \in [Customer -> CustomerRow], NEW c \in Customer
    PROVE  /\ \A s \in LiveStatus : SetStatus(c, s) => customer' \in [Customer -> CustomerRow]
           /\ NoCustomer \in CustomerRow
           /\ \A i \in InvoiceId : ResumeIfSuspended(i) \in [Customer -> CustomerRow]
  BY DEF CustomerRow, CustomerStatus, LiveStatus, SetStatus, NoCustomer, ResumeIfSuspended,
         Restored

LEMMA CounterWrites ==
    /\ \A i \in InvoiceId : \A f \in [InvoiceId -> Nat] :
          [f EXCEPT ![i] = @ + 1] \in [InvoiceId -> Nat]
    /\ \A p \in Payment : \A f \in [Payment -> Nat] :
          [f EXCEPT ![p] = @ + 1] \in [Payment -> Nat]
OBVIOUS

(* One step of a goroutine that bills. *)
LEMMA RunnerTyped ==
    ASSUME TypeOK, NEW r \in Runner, RunnerStep(r)
    PROVE  /\ customer' = customer /\ today' = today /\ billable' = billable
           /\ invoice' \in [InvoiceId -> InvoiceRow(Payment)]
           /\ BillRunTypeOK'
<1> USE DEF BillRunTypeOK, tables
<1>1. /\ job \in [Runner -> Job] /\ invoice \in [InvoiceId -> InvoiceRow(Payment)]
      /\ job[r].todo \subseteq InvoiceId /\ job[r].doing \subseteq InvoiceId
      /\ today \in Date
  BY DEF TypeOK, Job
<1>2. /\ \A phase \in Phase, todo, doing \in SUBSET InvoiceId :
            Continue(r, phase, todo, doing) => job' \in [Runner -> Job]
      /\ Rest(r) => job' \in [Runner -> Job]
  BY <1>1, JobMoves
<1>3. CASE InsertInvoices(r)
  <2>1. invoice' \in [InvoiceId -> InvoiceRow(Payment)]
    BY <1>1, <1>3, InvoiceWrites DEF InsertInvoices
  <2>2. job' \in [Runner -> Job]
    BY <1>1, <1>2, <1>3 DEF InsertInvoices, Phase
  <2>3. QED
    BY <1>3, <2>1, <2>2 DEF InsertInvoices, TypeOK
<1>4. CASE GenerateFails(r)
  BY <1>1, <1>2, <1>4 DEF GenerateFails, TypeOK
<1>5. CASE notifyFreshInvoices(r)
  <2>1. job' \in [Runner -> Job]
    BY <1>1, <1>2, <1>5 DEF notifyFreshInvoices, Phase
  <2>2. QED
    BY <1>1, <1>5, <2>1 DEF notifyFreshInvoices, TypeOK
<1>6. ASSUME NEW i \in InvoiceId, notifyBill(r, i)
      PROVE  /\ UNCHANGED <<customer, today, billable, invoice>>
             /\ BillRunTypeOK'
  <2>1. job' \in [Runner -> Job]
    <3>1. Continue(r, "sending", job[r].todo \ {i}, job[r].doing \cup {i})
      BY <1>6 DEF notifyBill
    <3>2. /\ job[r].todo \ {i} \in SUBSET InvoiceId
          /\ job[r].doing \cup {i} \in SUBSET InvoiceId
      BY <1>1
    <3>3. QED
      BY <1>2, <3>1, <3>2 DEF Phase
  <2>2. billsSent' \in [InvoiceId -> Nat]
    BY <1>6, CounterWrites DEF notifyBill, TypeOK
  <2>3. QED
    BY <1>1, <1>6, <2>1, <2>2 DEF notifyBill, TypeOK
<1>7. ASSUME NEW i \in InvoiceId, MarkBillSent(r, i)
      PROVE  /\ UNCHANGED <<customer, today, billable>>
             /\ invoice' \in [InvoiceId -> InvoiceRow(Payment)]
             /\ BillRunTypeOK'
  <2>1. job' \in [Runner -> Job]
    <3>1. Continue(r, "sending", job[r].todo, job[r].doing \ {i})
      BY <1>7 DEF MarkBillSent
    <3>2. job[r].todo \in SUBSET InvoiceId /\ job[r].doing \ {i} \in SUBSET InvoiceId
      BY <1>1
    <3>3. QED
      BY <1>2, <3>1, <3>2 DEF Phase
  <2>2. invoice' \in [InvoiceId -> InvoiceRow(Payment)]
    BY <1>1, <1>7, InvoiceWrites DEF MarkBillSent
  <2>3. QED
    BY <1>7, <2>1, <2>2 DEF MarkBillSent, TypeOK
<1>8. ASSUME NEW i \in InvoiceId, SendFails(r, i)
      PROVE  /\ UNCHANGED <<customer, today, billable, invoice>>
             /\ BillRunTypeOK'
  <2>1. job' \in [Runner -> Job]
    <3>1. Continue(r, "sending", job[r].todo \ {i}, job[r].doing \ {i})
      BY <1>8 DEF SendFails
    <3>2. /\ job[r].todo \ {i} \in SUBSET InvoiceId
          /\ job[r].doing \ {i} \in SUBSET InvoiceId
      BY <1>1
    <3>3. QED
      BY <1>2, <3>1, <3>2 DEF Phase
  <2>2. QED
    BY <1>8, <2>1 DEF SendFails, TypeOK
<1>9. CASE recordBillRun(r)
  BY <1>1, <1>2, <1>9 DEF recordBillRun, TypeOK
<1>10. QED
  BY <1>1, <1>3, <1>4, <1>5, <1>6, <1>7, <1>8, <1>9 DEF RunnerStep, SendStep, TypeOK

(* The rest of billing: the sweeper's tally, the admin's runs, corrections. *)
LEMMA BillingTyped == TypeOK /\ BillingStep => TypeOK'
<1> SUFFICES ASSUME TypeOK, BillingStep PROVE TypeOK'
  OBVIOUS
<1> USE DEF TypeOK, BillRunTypeOK, tables
<1>1. UNCHANGED <<dunningVars, paymentVars, accountVars>>
  BY DEF BillingStep
<1>2. DunningTypeOK' /\ PaymentsTypeOK' /\ AccountsTypeOK'
  BY <1>1 DEF dunningVars, paymentVars, accountVars, DunningTypeOK, PaymentsTypeOK,
              AccountsTypeOK
<1>3. CASE dunningGenerate
  <2>1. job["sweeper"].month \in BilledMonth /\ "sweeper" \in Runner
    BY DEF Job, Runner
  <2>2. Tallies(job["sweeper"].month) \in SUBSET InvoiceId
    BY DEF Tallies
  <2>3. job' \in [Runner -> Job]
    <3>1. Continue("sweeper", "tallied", Tallies(job["sweeper"].month), {})
      BY <1>3 DEF dunningGenerate
    <3>2. "tallied" \in Phase /\ {} \in SUBSET InvoiceId
      BY DEF Phase
    <3>3. QED
      BY <2>1, <2>2, <3>1, <3>2, JobMoves
  <2>4. QED
    BY <1>2, <1>3, <2>3 DEF dunningGenerate
<1>4. ASSUME NEW m \in BilledMonth, Generate(m)
      PROVE  TypeOK'
  <2>1. Tallies(m) \in SUBSET InvoiceId /\ "admin" \in Runner
    BY DEF Tallies, Runner
  <2>2. job' \in [Runner -> Job]
    BY <1>4, <2>1, JobMoves DEF Generate, Phase
  <2>3. QED
    BY <1>2, <1>4, <2>2 DEF Generate
<1>5. ASSUME NEW r \in Runner, RunnerStep(r)
      PROVE  TypeOK'
  BY <1>2, <1>5, RunnerTyped
<1>6. ASSUME NEW c \in Customer, FinalInvoice(c)
      PROVE  TypeOK'
  <2> DEFINE i == <<c, today[1]>>
  <2>1. i \in InvoiceId
    BY <1>6 DEF FinalInvoice
  <2>2. FreshInvoice \in InvoiceRow(Payment)
    BY <2>1, InvoiceWrites
  <2>3. invoice' \in [InvoiceId -> InvoiceRow(Payment)]
    BY <1>6, <2>1, <2>2 DEF FinalInvoice
  <2>4. customer' \in [Customer -> CustomerRow]
    BY <1>6 DEF FinalInvoice, CustomerRow, CustomerStatus, LiveStatus
  <2>5. billsSent' \in [InvoiceId -> Nat]
    BY <1>6, <2>1, CounterWrites DEF FinalInvoice
  <2>6. QED
    BY <1>2, <1>6, <2>3, <2>4, <2>5 DEF FinalInvoice
<1>7. ASSUME NEW i \in InvoiceId, LateDelivery(i)
      PROVE  TypeOK'
  BY <1>2, <1>7 DEF LateDelivery
<1>8. QED
  BY <1>3, <1>4, <1>5, <1>6, <1>7 DEF BillingStep

(* The chase. *)
LEMMA ChaseTyped == TypeOK /\ ChaseStep => TypeOK'
<1> SUFFICES ASSUME TypeOK, ChaseStep PROVE TypeOK'
  OBVIOUS
<1> USE DEF TypeOK, BillRunTypeOK, DunningTypeOK, tables, dunningVars
<1>1. PaymentsTypeOK' /\ AccountsTypeOK'
  BY DEF ChaseStep, paymentVars, accountVars, PaymentsTypeOK, AccountsTypeOK
<1>2. /\ "sweeper" \in Runner /\ sweep.todo \subseteq InvoiceId /\ sweep.doing \subseteq InvoiceId
      /\ {"remind", "suspend"} \subseteq Phase
  BY DEF Runner, sweep, Job, Phase
<1>3. targetMonth(today) \in BilledMonth
  BY CalendarFacts DEF Date, targetMonth, BilledMonth
<1>4. /\ \A phase \in Phase, todo, doing \in SUBSET InvoiceId :
            Continue("sweeper", phase, todo, doing) => job' \in [Runner -> Job]
      /\ \A phase \in Phase, todo \in SUBSET InvoiceId :
            Start("sweeper", phase, targetMonth(today), todo) => job' \in [Runner -> Job]
      /\ Rest("sweeper") => job' \in [Runner -> Job]
  BY <1>2, <1>3, JobMoves
<1>5. CASE Tick
  <2>1. CASE TickGenerate
    <3>1. job' \in [Runner -> Job]
      BY <1>4, <2>1 DEF TickGenerate, ClaimGenerate, Phase
    <3>2. QED
      BY <1>1, <2>1, <3>1 DEF TickGenerate, ClaimGenerate
  <2>2. ASSUME NEW phase \in Phase, NEW targets \in SUBSET InvoiceId, StartSweep(phase, targets)
        PROVE  TypeOK'
    BY <1>1, <1>4, <2>2 DEF StartSweep
  <2>3. ToRemind \in SUBSET InvoiceId /\ ToSuspend \in SUBSET InvoiceId
    BY DEF ToRemind, ToSuspend, InvoicesOf
  <2>4. QED
    BY <1>2, <1>5, <2>1, <2>2, <2>3 DEF Tick, TickRemind, TickSuspend
<1>6. ASSUME NEW i \in InvoiceId,
             MarkReminded(i) \/ SendPaymentReminder(i) \/ SuspendCustomer(i)
                \/ StampSuspended(i) \/ TargetFails(i)
      PROVE  TypeOK'
  <2>1. \A phase \in {"remind", "suspend"}, todo, doing \in SUBSET InvoiceId :
            Continue("sweeper", phase, todo, doing) => job' \in [Runner -> Job]
    BY <1>2, <1>4
  <2>2. /\ sweep.todo \in SUBSET InvoiceId /\ sweep.todo \ {i} \in SUBSET InvoiceId
        /\ {} \in SUBSET InvoiceId /\ {i} \in SUBSET InvoiceId
    BY <1>2
  <2>3. CASE MarkReminded(i)
    <3>1. invoice' \in [InvoiceId -> InvoiceRow(Payment)]
      BY <2>3, InvoiceWrites DEF MarkReminded
    <3>2. job' \in [Runner -> Job]
      BY <2>1, <2>2, <2>3 DEF MarkReminded
    <3>3. QED
      BY <1>1, <2>3, <3>1, <3>2 DEF MarkReminded
  <2>4. CASE SendPaymentReminder(i)
    <3>1. job' \in [Runner -> Job]
      BY <2>1, <2>2, <2>4 DEF SendPaymentReminder
    <3>2. remindersSent' \in [InvoiceId -> Nat]
      BY <2>4, CounterWrites DEF SendPaymentReminder
    <3>3. QED
      BY <1>1, <2>4, <3>1, <3>2 DEF SendPaymentReminder
  <2>5. CASE SuspendCustomer(i)
    <3>1. job' \in [Runner -> Job]
      BY <2>1, <2>2, <2>5 DEF SuspendCustomer
    <3>2. customer' \in [Customer -> CustomerRow]
      <4>1. customer[owner(i)] \in CustomerRow /\ owner(i) \in Customer
        BY DEF InvoiceId, owner
      <4>2. QED
        BY <2>5, <4>1 DEF SuspendCustomer, CustomerRow, CustomerStatus, LiveStatus
    <3>3. QED
      BY <1>1, <2>5, <3>1, <3>2 DEF SuspendCustomer
  <2>6. CASE StampSuspended(i)
    <3>1. invoice' \in [InvoiceId -> InvoiceRow(Payment)]
      BY <2>6, InvoiceWrites DEF StampSuspended
    <3>2. job' \in [Runner -> Job]
      BY <2>1, <2>2, <2>6 DEF StampSuspended
    <3>3. QED
      BY <1>1, <2>6, <3>1, <3>2 DEF StampSuspended
  <2>7. CASE TargetFails(i)
    <3>1. job' \in [Runner -> Job]
      BY <2>1, <2>2, <2>7 DEF TargetFails
    <3>2. QED
      BY <1>1, <2>7, <3>1 DEF TargetFails
  <2>8. QED
    BY <1>6, <2>3, <2>4, <2>5, <2>6, <2>7
<1>7. CASE EndSweep
  BY <1>1, <1>4, <1>7 DEF EndSweep
<1>8. QED
  BY <1>5, <1>6, <1>7 DEF ChaseStep, SweepStep, TargetStep

(* Money arriving. *)
LEMMA PayTyped == TypeOK /\ PayStep => TypeOK'
<1> SUFFICES ASSUME TypeOK, PayStep PROVE TypeOK'
  OBVIOUS
<1> USE DEF TypeOK, PaymentsTypeOK, tables
<1>1. AccountsTypeOK'
  BY DEF PayStep, accountVars, AccountsTypeOK
<1>2. ASSUME UNCHANGED <<billRunVars, dunningVars>>
      PROVE  BillRunTypeOK' /\ DunningTypeOK'
  BY <1>2 DEF billRunVars, dunningVars, BillRunTypeOK, DunningTypeOK
<1>3. ASSUME NEW i \in InvoiceId, NEW s \in MarkStatus, MarkPaid(i, s)
      PROVE  TypeOK'
  <2>1. s \in InvoiceStatus
    BY PaymentsAssumption DEF allowedInvoiceStatus
  <2>2. invoice' \in [InvoiceId -> InvoiceRow(Payment)]
    BY <1>3, <2>1, InvoiceWrites DEF MarkPaid
  <2>3. QED
    BY <1>1, <1>2, <1>3, <2>2 DEF MarkPaid, paymentVars
<1>4. ASSUME NEW p \in Payment, NEW i \in InvoiceId, CustomerPays(p, i)
      PROVE  TypeOK'
  BY <1>1, <1>2, <1>4 DEF CustomerPays
<1>5. ASSUME NEW p \in Payment, HandleWebhook(p) \/ ProcessStep(p)
      PROVE  TypeOK'
  <2> USE DEF Outcome, WorkerStep
  <2>1. CASE HandleWebhook(p)
    BY <1>1, <1>2, <2>1 DEF HandleWebhook
  <2>2. CASE ReadInvoice(p)
    <3>1. outcome' \in [Payment -> Outcome \cup {NONE}] /\ worker' \in [Payment -> WorkerStep]
      BY <2>2 DEF ReadInvoice, Finish
    <3>2. QED
      BY <1>1, <1>2, <2>2, <3>1 DEF ReadInvoice
  <2>3. CASE MarkPaidOnline(p)
    <3>1. SettledOnline(p, paidFor[p]) \in [InvoiceId -> InvoiceRow(Payment)]
      <4>1. CASE paidFor[p] \in InvoiceId
        BY <4>1, InvoiceWrites
      <4>2. CASE paidFor[p] \notin InvoiceId
        <5>1. [invoice EXCEPT ![paidFor[p]].status = "PAID_ONLINE", ![paidFor[p]].paid = p]
                 = invoice
          BY <4>2
        <5>2. QED
          BY <5>1 DEF SettledOnline
      <4>3. QED
        BY <4>1, <4>2
    <3>2. QED
      BY <1>1, <1>2, <2>3, <3>1 DEF MarkPaidOnline
  <2>4. CASE ProcessFails(p)
    BY <1>1, <1>2, <2>4 DEF ProcessFails, Finish
  <2>5. CASE FinishApplied(p)
    BY <1>1, <1>2, <2>5 DEF FinishApplied, Finish
  <2>6. CASE OnPaid(p)
    <3>1. customer' \in [Customer -> CustomerRow]
      BY <2>6 DEF OnPaid, ResumeIfSuspended, Restored, CustomerRow, CustomerStatus, LiveStatus
    <3>2. receipts' \in [Payment -> Nat]
      BY <2>6, CounterWrites DEF OnPaid
    <3>3. QED
      BY <1>1, <1>2, <2>6, <3>1, <3>2 DEF OnPaid
  <2>7. CASE OnPaidFails(p)
    BY <1>1, <1>2, <2>7 DEF OnPaidFails
  <2>8. QED
    BY <1>5, <2>1, <2>2, <2>3, <2>4, <2>5, <2>6, <2>7 DEF ProcessStep
<1>6. QED
  BY <1>3, <1>4, <1>5 DEF PayStep, PaymentsStep

(* Messages and the admin. *)
LEMMA AccountsTyped == TypeOK /\ AccountsStep => TypeOK'
<1> SUFFICES ASSUME TypeOK, NEW c \in Customer,
                    \/ HandleIncomingMessage(c) \/ ChatStep(c) \/ Approve(c) \/ Reject(c)
                    \/ CheckDelete(c) \/ Delete(c) \/ DeleteFails(c)
             PROVE  TypeOK'
  BY DEF AccountsStep
<1> USE DEF TypeOK, AccountsTypeOK, Handler
<1>1. UNCHANGED <<today, billRunVars, dunningVars, paymentVars>>
  BY DEF HandleIncomingMessage, ChatStep, Approve, Reject, CheckDelete, Delete, DeleteFails,
         handleDisableAccount, handleReactivateAccount, handleDeleteAccount, pauseForExit,
         EraseAccount, MessageFails, tables
<1>2. today' \in Date /\ BillRunTypeOK' /\ DunningTypeOK' /\ PaymentsTypeOK'
  BY <1>1 DEF billRunVars, dunningVars, paymentVars, BillRunTypeOK, DunningTypeOK,
              PaymentsTypeOK
<1>3. chat' \in [Customer -> Handler] /\ admin' \in [Customer -> {"none", "erase"}]
  BY DEF HandleIncomingMessage, ChatStep, Approve, Reject, CheckDelete, Delete, DeleteFails,
         handleDisableAccount, handleReactivateAccount, handleDeleteAccount, pauseForExit,
         EraseAccount, MessageFails, accountVars, Handled, Dispatched
<1>4. ASSUME NEW s \in LiveStatus, SetStatus(c, s)
      PROVE  customer' \in [Customer -> CustomerRow]
  BY <1>4, CustomerWrites
<1>5. ASSUME Erase(c)
      PROVE  /\ customer' \in [Customer -> CustomerRow]
             /\ invoice' \in [InvoiceId -> InvoiceRow(Payment)]
  <2>1. NoCustomer \in CustomerRow
    BY CustomerWrites
  <2>2. NoInvoice \in InvoiceRow(Payment)
    BY DEF NoInvoice, InvoiceRow
  <2>3. QED
    BY <1>5, <2>1, <2>2 DEF Erase
<1>6. customer' \in [Customer -> CustomerRow] /\ invoice' \in [InvoiceId -> InvoiceRow(Payment)]
  <2>1. CASE handleDisableAccount(c) \/ handleReactivateAccount(c) \/ pauseForExit(c)
             \/ Approve(c) \/ Reject(c)
    BY <1>4, <2>1 DEF handleDisableAccount, handleReactivateAccount, pauseForExit, Approve,
                      Reject, LiveStatus
  <2>2. CASE EraseAccount(c) \/ Delete(c)
    BY <1>5, <2>2 DEF EraseAccount, Delete
  <2>3. CASE HandleIncomingMessage(c) \/ handleDeleteAccount(c) \/ MessageFails(c)
             \/ CheckDelete(c) \/ DeleteFails(c)
    BY <2>3 DEF HandleIncomingMessage, handleDeleteAccount, MessageFails, CheckDelete,
                DeleteFails, tables
  <2>4. QED
    BY <2>1, <2>2, <2>3 DEF ChatStep
<1>7. QED
  BY <1>2, <1>3, <1>6

LEMMA NextDayTyped == TypeOK /\ NextDay => TypeOK'
<1> SUFFICES ASSUME TypeOK, NextDay PROVE TypeOK'
  OBVIOUS
<1>1. today' \in Date
  BY CalendarFacts DEF TypeOK, NextDay, Date, LastDay
<1>2. QED
  BY <1>1 DEF TypeOK, NextDay, BillRunTypeOK, DunningTypeOK, PaymentsTypeOK, AccountsTypeOK,
              paymentVars, accountVars

LEMMA CrashTyped == TypeOK /\ Crash => TypeOK'
<1> SUFFICES ASSUME TypeOK, Crash PROVE TypeOK'
  OBVIOUS
<1>1. Idle \in Job
  BY CalendarFacts DEF Idle, Job, Phase, BilledMonth
<1>2. QED
  BY <1>1 DEF TypeOK, Crash, BillRunTypeOK, DunningTypeOK, PaymentsTypeOK, AccountsTypeOK,
              Handler, WorkerStep, tables, dunningVars

(* No run of the system, whatever fails in it, leaves a row or a goroutine *)
(* with a value it cannot have. (every statement and handler modelled)     *)
THEOREM TypeCorrect == Spec => []TypeOK
<1>1. Init => TypeOK
  <2> SUFFICES ASSUME Init PROVE TypeOK
    OBVIOUS
  <2>1. today \in Date
    BY CalendarFacts DEF Init, TablesInit, Date
  <2>2. customer \in [Customer -> CustomerRow]
    <3> DEFINE Row(s) == [NoCustomer EXCEPT !.status = s, !.isActive = (s = "active")]
    <3>1. \A s \in {"pending", "active", "disabled"} : Row(s) \in CustomerRow
      BY DEF NoCustomer, CustomerRow, CustomerStatus, LiveStatus
    <3>2. customer \in [Customer -> {Row(s) : s \in {"pending", "active", "disabled"}}]
      BY DEF Init, TablesInit
    <3>3. {Row(s) : s \in {"pending", "active", "disabled"}} \subseteq CustomerRow
      BY <3>1
    <3> HIDE DEF Row
    <3>4. QED
      BY <3>2, <3>3
  <2>3. invoice \in [InvoiceId -> InvoiceRow(Payment)]
    BY DEF Init, TablesInit, NoInvoice, InvoiceRow
  <2>4. Idle \in Job
    BY CalendarFacts DEF Idle, Job, Phase, BilledMonth
  <2>5. BillRunTypeOK
    <3>1. billable \subseteq InvoiceId
      <4>1. CASE "lateDelivery" \in Request
        BY <4>1 DEF Init, BillRunInit
      <4>2. CASE "lateDelivery" \notin Request
        <5>1. billable \in {InvoiceId}
          BY <4>2 DEF Init, BillRunInit
        <5>2. QED
          BY <5>1
      <4>3. QED
        BY <4>1, <4>2
    <3>2. generateClaimed \in BOOLEAN /\ billsSent \in [InvoiceId -> Nat]
      BY DEF Init, BillRunInit
    <3>3. job \in [Runner -> Job]
      BY <2>4 DEF Init, BillRunInit
    <3>4. QED
      BY <3>1, <3>2, <3>3 DEF BillRunTypeOK
  <2>6. QED
    BY <2>1, <2>2, <2>3, <2>5 DEF Init, TypeOK, DunningInit, DunningTypeOK, PaymentsInit,
       PaymentsTypeOK, AccountsInit, AccountsTypeOK, WorkerStep, Handler
<1>2. TypeOK /\ [Next]_vars => TypeOK'
  <2>1. TypeOK /\ Next => TypeOK'
    BY BillingTyped, ChaseTyped, PayTyped, AccountsTyped, NextDayTyped, CrashTyped DEF Next
  <2>2. TypeOK /\ UNCHANGED vars => TypeOK'
    BY DEF TypeOK, vars, tables, billRunVars, dunningVars, paymentVars, accountVars,
           BillRunTypeOK, DunningTypeOK, PaymentsTypeOK, AccountsTypeOK
  <2>3. QED
    BY <2>1, <2>2
<1>3. QED
  BY <1>1, <1>2, PTL DEF Spec
=============================================================================

---------------------------- MODULE ChaseProofs ----------------------------
(***************************************************************************)
(* What holds of the chase for any number of customers and months: every   *)
(* suspension stands on an unpaid bill past its grace days and can be      *)
(* undone, and only a payment of that bill or the admin undoes it into     *)
(* service.                                                                *)
(***************************************************************************)
EXTENDS MoneyProofs

(* invoices.customer_id REFERENCES customers *)
ForeignKey == \A i \in InvoiceId : Exists(i) => Present(owner(i))

(* Between its SELECT and the end, a suspension sweep works on bills of    *)
(* one month, past their grace days; a customer it has not reached yet is  *)
(* still not suspended, because nobody else suspends and it has at most    *)
(* one bill in the month.                                                  *)
TargetsStillOpen ==
    InPhase("suspend") =>
        \A i \in sweep.todo : /\ monthOf(i) = sweep.month
                              /\ GraceOver(i)
                              /\ customer[owner(i)].status # "suspended"

SuspensionInv == ForeignKey /\ TargetsStillOpen /\ SuspensionGrounds

(* A step that suspends nobody and starts no suspension sweep.             *)
Quiet ==
    /\ \A i \in InvoiceId : GraceOver(i) => GraceOver(i)'
    /\ \A c \in Customer :
          \/ customer'[c] = customer[c]
          \/ customer'[c].status \in LiveStatus
          \/ ~Present(c)' /\ (\A i \in InvoiceId : owner(i) = c => ~Exists(i)')
    /\ \A i \in InvoiceId : Exists(i)' => Exists(i) \/ Present(owner(i))'
    /\ \A i \in InvoiceId : Exists(i) => Exists(i)' \/ ~Present(owner(i))'
    /\ InPhase("suspend")' => /\ InPhase("suspend") /\ sweep'.month = sweep.month
                              /\ sweep'.todo \subseteq sweep.todo

LEMMA QuietKeeps == TypeOK /\ SuspensionInv /\ Quiet => SuspensionInv'
<1> SUFFICES ASSUME TypeOK, SuspensionInv, Quiet PROVE SuspensionInv'
  OBVIOUS
<1>1. /\ \A i \in InvoiceId : owner(i) \in Customer
      /\ sweep.todo \subseteq InvoiceId
  BY DEF InvoiceId, owner, TypeOK, BillRunTypeOK, Job, Runner, sweep
<1>2. /\ \A c \in Customer : customer'[c].status = "suspended" => customer'[c] = customer[c]
      /\ \A c \in Customer : customer'[c] = customer[c] => (Present(c)' <=> Present(c))
      /\ \A c \in Customer : customer'[c].status \in LiveStatus => Present(c)'
  BY DEF Quiet, LiveStatus, Present
<1>3. ForeignKey'
  BY <1>1, <1>2 DEF SuspensionInv, ForeignKey, Quiet
<1>4. TargetsStillOpen'
  BY <1>1, <1>2 DEF SuspensionInv, TargetsStillOpen, Quiet
<1>5. SuspensionGrounds'
  <2> SUFFICES ASSUME NEW c \in Customer, customer'[c].status = "suspended"
               PROVE  HasGrounds(c)'
    BY DEF SuspensionGrounds, HasGrounds
  <2>1. customer'[c] = customer[c]
    BY <1>2
  <2>2. HasGrounds(c)
    BY <2>1 DEF SuspensionInv, SuspensionGrounds, HasGrounds
  <2>3. PICK i \in InvoiceId : i = customer[c].suspendedFor /\ owner(i) = c /\ Exists(i)
                                                           /\ GraceOver(i)
    BY <2>2 DEF HasGrounds
  <2>4. Present(c)'
    BY DEF Present
  <2>5. Exists(i)' /\ GraceOver(i)'
    BY <2>3, <2>4 DEF Quiet
  <2>6. QED
    BY <2>1, <2>2, <2>3, <2>5 DEF HasGrounds
<1>6. QED
  BY <1>3, <1>4, <1>5 DEF SuspensionInv

-----------------------------------------------------------------------------
(* The steps.  Today stays except at midnight, and then only grows.        *)

LEMMA GraceStays == TypeOK /\ today' = today =>
                        \A i \in InvoiceId : GraceOver(i) => GraceOver(i)'
BY DEF GraceOver, Before

(* What the sweeper's job may become in a step that starts no sweep. *)
SweepShrinks ==
    InPhase("suspend")' => /\ InPhase("suspend") /\ sweep'.month = sweep.month
                           /\ sweep'.todo \subseteq sweep.todo

LEMMA JobOfRunner ==
    ASSUME TypeOK, NEW r \in Runner
    PROVE  /\ \A phase \in Phase \ {"suspend"}, todo, doing \in SUBSET InvoiceId :
                 Continue(r, phase, todo, doing) => SweepShrinks
           /\ \A phase \in Phase \ {"suspend"}, m \in BilledMonth, todo \in SUBSET InvoiceId :
                 Start(r, phase, m, todo) => SweepShrinks
           /\ Rest(r) => SweepShrinks
           /\ job' = job => SweepShrinks
<1>1. job \in [Runner -> Job] /\ "sweeper" \in Runner
  BY DEF TypeOK, BillRunTypeOK, Runner
<1>2. QED
  BY <1>1 DEF Continue, Start, Rest, Idle, SweepShrinks, InPhase, sweep

(* Billing raises invoices of customers it finds in the table. *)
LEMMA BillingQuiet == TypeOK /\ SuspensionInv /\ BillingStep => Quiet
<1> SUFFICES ASSUME TypeOK, SuspensionInv, BillingStep PROVE Quiet
  OBVIOUS
<1>0. /\ invoice \in [InvoiceId -> InvoiceRow(Payment)] /\ customer \in [Customer -> CustomerRow]
      /\ \A r \in Runner : /\ job[r].todo \in SUBSET InvoiceId /\ job[r].doing \in SUBSET InvoiceId
                           /\ job[r].month \in BilledMonth
      /\ {} \in SUBSET InvoiceId /\ "sweeper" \in Runner /\ "admin" \in Runner
      /\ \A m : Tallies(m) \in SUBSET InvoiceId
      /\ {"tallied", "committed", "sending", "claimed"} \subseteq Phase \ {"suspend"}
  BY DEF TypeOK, BillRunTypeOK, Job, Runner, Tallies, Phase
<1>1. ASSUME UNCHANGED <<today, customer>>, SweepShrinks,
             \A i \in InvoiceId : Exists(i)' => Exists(i) \/ Present(owner(i)),
             \A i \in InvoiceId : Exists(i) => Exists(i)'
      PROVE  Quiet
  BY <1>1, GraceStays DEF Quiet, SweepShrinks, Present
<1>2. ASSUME UNCHANGED tables, SweepShrinks
      PROVE  Quiet
  BY <1>1, <1>2 DEF tables, Exists
<1>3. CASE dunningGenerate
  <2>1. SweepShrinks
    BY <1>0, <1>3, JobOfRunner DEF dunningGenerate
  <2>2. QED
    BY <1>2, <1>3, <2>1 DEF dunningGenerate
<1>4. ASSUME NEW m \in BilledMonth, Generate(m)
      PROVE  Quiet
  <2>1. SweepShrinks
    BY <1>0, <1>4, JobOfRunner DEF Generate
  <2>2. QED
    BY <1>2, <1>4, <2>1 DEF Generate
<1>5. ASSUME NEW r \in Runner, RunnerStep(r)
      PROVE  Quiet
  <2>1. CASE InsertInvoices(r)
    <3>1. SweepShrinks
      BY <1>0, <2>1, JobOfRunner DEF InsertInvoices
    <3>2. \A i \in InvoiceId : Exists(i)' => Exists(i) \/ Present(owner(i))
      BY <1>0, <2>1 DEF InsertInvoices, Exists
    <3>3. \A i \in InvoiceId : Exists(i) => Exists(i)'
      BY <1>0, <2>1 DEF InsertInvoices, Exists, FreshInvoice, NoInvoice
    <3>4. QED
      BY <1>1, <2>1, <3>1, <3>2, <3>3 DEF InsertInvoices
  <2>2. CASE GenerateFails(r) \/ notifyFreshInvoices(r) \/ recordBillRun(r)
    <3>1. {i \in job[r].todo : Exists(i) /\ ~invoice[i].billSentAt} \in SUBSET InvoiceId
      BY <1>0
    <3>2. SweepShrinks
      BY <1>0, <2>2, <3>1, JobOfRunner DEF GenerateFails, notifyFreshInvoices, recordBillRun
    <3>3. QED
      BY <1>2, <2>2, <3>2 DEF GenerateFails, notifyFreshInvoices, recordBillRun
  <2>3. ASSUME NEW j \in InvoiceId, notifyBill(r, j) \/ MarkBillSent(r, j) \/ SendFails(r, j)
        PROVE  Quiet
    <3>1. /\ job[r].todo \ {j} \in SUBSET InvoiceId /\ job[r].doing \ {j} \in SUBSET InvoiceId
          /\ job[r].doing \cup {j} \in SUBSET InvoiceId
      BY <1>0
    <3>2. SweepShrinks
      BY <1>0, <2>3, <3>1, JobOfRunner DEF notifyBill, MarkBillSent, SendFails
    <3>3. CASE MarkBillSent(r, j)
      <4>1. \A i \in InvoiceId : Exists(i)' <=> Exists(i)
        BY <1>0, <3>3 DEF MarkBillSent, Exists, InvoiceRow
      <4>2. QED
        BY <1>1, <3>2, <3>3, <4>1 DEF MarkBillSent
    <3>4. QED
      BY <1>2, <2>3, <3>2, <3>3 DEF notifyBill, SendFails
  <2>4. QED
    BY <1>5, <2>1, <2>2, <2>3 DEF RunnerStep, SendStep
<1>6. ASSUME NEW c \in Customer, FinalInvoice(c)
      PROVE  Quiet
  <2>1. SweepShrinks /\ today' = today
    BY <1>0, <1>6, JobOfRunner DEF FinalInvoice
  <2>2. \A d \in Customer : customer'[d] = customer[d] \/ customer'[d].status \in LiveStatus
    <3>1. CASE customer' = customer
      BY <3>1
    <3>2. CASE customer' = [customer EXCEPT ![c].status = "disabled", ![c].isActive = FALSE]
      BY <1>0, <3>2 DEF CustomerRow, LiveStatus
    <3>3. QED
      BY <1>6, <3>1, <3>2 DEF FinalInvoice
  <2>3. \A i \in InvoiceId : /\ Exists(i) => Exists(i)'
                             /\ Exists(i)' => Exists(i) \/ owner(i) = c
    BY <1>0, <1>6 DEF FinalInvoice, Exists, FreshInvoice, NoInvoice, InvoiceId, owner
  <2>4. Present(c)'
    BY <1>6, <2>2 DEF FinalInvoice, Present, LiveStatus
  <2>5. QED
    BY <2>1, <2>2, <2>3, <2>4, GraceStays DEF Quiet, SweepShrinks
<1>7. ASSUME NEW i \in InvoiceId, LateDelivery(i)
      PROVE  Quiet
  <2>1. SweepShrinks
    BY <1>0, <1>7, JobOfRunner DEF LateDelivery
  <2>2. QED
    BY <1>2, <1>7, <2>1 DEF LateDelivery
<1>8. QED
  BY <1>3, <1>4, <1>5, <1>6, <1>7 DEF BillingStep

(* The chase is where suspensions come from. *)
LEMMA ChaseKeeps == TypeOK /\ SuspensionInv /\ ChaseStep => SuspensionInv'
<1> SUFFICES ASSUME TypeOK, SuspensionInv, ChaseStep PROVE SuspensionInv'
  OBVIOUS
<1>0. /\ invoice \in [InvoiceId -> InvoiceRow(Payment)] /\ customer \in [Customer -> CustomerRow]
      /\ job \in [Runner -> Job] /\ sweep.todo \in SUBSET InvoiceId
      /\ {} \in SUBSET InvoiceId /\ "sweeper" \in Runner
      /\ {"remind", "claimed"} \subseteq Phase \ {"suspend"}
      /\ targetMonth(today) \in BilledMonth /\ today \in Date
      /\ \A i \in InvoiceId : owner(i) \in Customer /\ monthOf(i) \in BilledMonth
  BY CalendarFacts DEF TypeOK, BillRunTypeOK, Job, Runner, Phase, sweep, Date, targetMonth,
     BilledMonth, InvoiceId, owner, monthOf
<1>1. ASSUME UNCHANGED <<today, customer>>, SweepShrinks,
             \A i \in InvoiceId : Exists(i)' <=> Exists(i)
      PROVE  SuspensionInv'
  BY <1>1, GraceStays, QuietKeeps DEF Quiet, SweepShrinks, Present
<1>2. ASSUME UNCHANGED tables, SweepShrinks
      PROVE  SuspensionInv'
  BY <1>1, <1>2 DEF tables, Exists
<1>3. CASE TickGenerate
  <2>1. SweepShrinks
    BY <1>0, <1>3, JobOfRunner DEF TickGenerate, ClaimGenerate
  <2>2. QED
    BY <1>2, <1>3, <2>1 DEF TickGenerate, ClaimGenerate
<1>4. CASE TickRemind
  <2>1. ToRemind \in SUBSET InvoiceId
    BY DEF ToRemind, InvoicesOf
  <2>2. SweepShrinks
    BY <1>0, <1>4, <2>1, JobOfRunner DEF TickRemind, StartSweep
  <2>3. QED
    BY <1>2, <1>4, <2>2 DEF TickRemind, StartSweep
<1>5. CASE TickSuspend
  <2>1. /\ UNCHANGED tables /\ ~Running("sweeper")
        /\ \/ job' = job
           \/ /\ sweep'.todo = ToSuspend /\ sweep'.month = targetMonth(today)
    BY <1>0, <1>5 DEF TickSuspend, StartSweep, Start, sweep
  <2>2. CASE job' = job
    BY <1>2, <2>1, <2>2, <1>0, JobOfRunner
  <2>3. CASE sweep'.todo = ToSuspend /\ sweep'.month = targetMonth(today)
    <3>1. \A i \in ToSuspend : /\ i \in InvoiceId /\ monthOf(i) = targetMonth(today)
                               /\ customer[owner(i)].status # "suspended"
      BY DEF ToSuspend, InvoicesOf
    <3>2. \A i \in ToSuspend : GraceOver(i)
      BY <1>0, <1>5, <3>1, CalendarFacts DEF TickSuspend, GraceOver, Before, targetMonth,
         suspendDay, Date, BilledMonth
    <3>3. TargetsStillOpen'
      BY <2>1, <2>3, <3>1, <3>2 DEF TargetsStillOpen, tables, GraceOver
    <3>4. ForeignKey' /\ SuspensionGrounds'
      BY <2>1 DEF SuspensionInv, ForeignKey, SuspensionGrounds, HasGrounds, Exists, Present,
         GraceOver, tables
    <3>5. QED
      BY <3>3, <3>4 DEF SuspensionInv
  <2>4. QED
    BY <2>1, <2>2, <2>3
<1>6. ASSUME NEW i \in InvoiceId,
             MarkReminded(i) \/ SendPaymentReminder(i) \/ StampSuspended(i) \/ TargetFails(i)
      PROVE  SuspensionInv'
  <2>1. /\ today' = today /\ customer' = customer
        /\ \/ invoice' = invoice
           \/ invoice' = [invoice EXCEPT ![i].suspendedAt = TRUE]
           \/ invoice' = [invoice EXCEPT ![i] = Reminded(invoice[i])]
        /\ \/ Continue("sweeper", sweep.phase, sweep.todo \ {i}, {i})
           \/ Continue("sweeper", sweep.phase, sweep.todo \ {i}, {})
           \/ Continue("sweeper", sweep.phase, sweep.todo, {})
    BY <1>6 DEF MarkReminded, SendPaymentReminder, StampSuspended, TargetFails, InPhase, tables
  <2>2. SweepShrinks
    BY <1>0, <2>1, JobOfRunner DEF Continue, SweepShrinks, InPhase, sweep
  <2>3. Reminded(invoice[i]).status = invoice[i].status
    <3>1. invoice[i] \in InvoiceRow(Payment)
      BY <1>0
    <3> DEFINE n == invoice[i].reminderCount + 1
    <3> HIDE DEF n
    <3>2. [invoice[i] EXCEPT !.lastReminderOn = today, !.reminderCount = n].status
             = invoice[i].status
      BY <3>1 DEF InvoiceRow
    <3>3. QED
      BY <3>2 DEF Reminded, n
  <2>4. \A j \in InvoiceId : Exists(j)' <=> Exists(j)
    BY <1>0, <2>1, <2>3 DEF Exists, InvoiceRow
  <2>5. QED
    BY <1>1, <2>1, <2>2, <2>4
<1>7. ASSUME NEW i \in InvoiceId, SuspendCustomer(i)
      PROVE  SuspensionInv'
  <2> DEFINE c == owner(i)
             row == [status |-> "suspended", isActive |-> FALSE,
                     before |-> customer[c].status, suspendedFor |-> i]
  <2>1. /\ UNCHANGED <<today, invoice>> /\ InPhase("suspend") /\ i \in sweep.todo
        /\ Continue("sweeper", "suspend", sweep.todo \ {i}, {i}) /\ c \in Customer
    BY <1>0, <1>7 DEF SuspendCustomer
  <2>2. /\ sweep'.todo = sweep.todo \ {i} /\ sweep'.month = sweep.month
    BY <1>0, <2>1 DEF Continue, sweep
  <2>3. CASE ~Exists(i)
    <3>1. customer' = customer
      BY <1>7, <2>3 DEF SuspendCustomer
    <3>2. SweepShrinks
      BY <2>1, <2>2 DEF SweepShrinks
    <3>3. QED
      BY <1>1, <2>1, <3>1, <3>2 DEF Exists
  <2>4. CASE Exists(i)
    <3>1. customer' = [customer EXCEPT ![c] = row]
      BY <1>7, <2>4 DEF SuspendCustomer
    <3>2. Present(c) /\ customer[c].status # "suspended" /\ GraceOver(i) /\ monthOf(i) = sweep.month
      BY <2>1, <2>4 DEF SuspensionInv, ForeignKey, TargetsStillOpen
    <3>3. customer[c].status \in LiveStatus
      BY <1>0, <2>1, <3>2 DEF CustomerRow, CustomerStatus, Present
    <3>4. /\ \A d \in Customer : d # c => customer'[d] = customer[d]
          /\ customer'[c] = row
      BY <1>0, <2>1, <3>1
    <3>5. ForeignKey'
      BY <1>0, <2>1, <3>4 DEF SuspensionInv, ForeignKey, Exists, Present
    <3>6. \A j \in sweep.todo \ {i} : owner(j) # c
      <4>1. \A j \in sweep.todo : monthOf(j) = monthOf(i)
        BY <2>1 DEF SuspensionInv, TargetsStillOpen
      <4>2. \A j \in InvoiceId : owner(j) = owner(i) /\ monthOf(j) = monthOf(i) => j = i
        BY DEF InvoiceId, owner, monthOf
      <4>3. QED
        BY <1>0, <4>1, <4>2
    <3>7. TargetsStillOpen'
      BY <1>0, <2>1, <2>2, <3>4, <3>6 DEF SuspensionInv, TargetsStillOpen, GraceOver
    <3>8. HasGrounds(c)'
      BY <2>1, <2>4, <3>2, <3>3, <3>4 DEF HasGrounds, Exists, GraceOver
    <3>9. ASSUME NEW d \in Customer, d # c, customer'[d].status = "suspended"
          PROVE  HasGrounds(d)'
      <4>1. HasGrounds(d) /\ customer'[d] = customer[d]
        BY <3>4, <3>9 DEF SuspensionInv, SuspensionGrounds
      <4>2. QED
        BY <2>1, <4>1 DEF HasGrounds, Exists, GraceOver
    <3>10. SuspensionGrounds'
      BY <3>8, <3>9 DEF SuspensionGrounds
    <3>11. QED
      BY <3>5, <3>7, <3>10 DEF SuspensionInv
  <2>5. QED
    BY <2>3, <2>4
<1>8. CASE EndSweep
  <2>1. SweepShrinks
    BY <1>0, <1>8, JobOfRunner DEF EndSweep
  <2>2. QED
    BY <1>2, <1>8, <2>1 DEF EndSweep
<1>9. QED
  BY <1>3, <1>4, <1>5, <1>6, <1>7, <1>8 DEF ChaseStep, SweepStep, Tick, TargetStep

(* Money and messages change statuses, but to none but live ones. *)
LEMMA PayQuiet == TypeOK /\ SuspensionInv /\ PayStep => Quiet
<1> SUFFICES ASSUME TypeOK, SuspensionInv, PayStep PROVE Quiet
  OBVIOUS
<1>1. /\ invoice \in [InvoiceId -> InvoiceRow(Payment)] /\ customer \in [Customer -> CustomerRow]
      /\ "sweeper" \in Runner
  BY DEF TypeOK, Runner
<1>2. today' = today /\ SweepShrinks
  <2>1. job' = job /\ today' = today
    BY DEF PayStep, PaymentsStep, CustomerPays, HandleWebhook, ProcessStep, ReadInvoice,
       MarkPaidOnline, ProcessFails, FinishApplied, OnPaid, OnPaidFails, MarkPaid, tables,
       billRunVars
  <2>2. QED
    BY <1>1, <2>1, JobOfRunner
<1>3. \A i \in InvoiceId : Exists(i)' <=> Exists(i)
  <2>1. ASSUME NEW j \in InvoiceId, NEW s \in MarkStatus, MarkPaid(j, s)
        PROVE  \A i \in InvoiceId : Exists(i)' <=> Exists(i)
    <3>1. s # "ABSENT"
      BY PaymentsAssumption DEF allowedInvoiceStatus, InvoiceStatus, PaidStatus
    <3>2. QED
      BY <1>1, <2>1, <3>1 DEF MarkPaid, Exists
  <2>2. ASSUME NEW p \in Payment, MarkPaidOnline(p)
        PROVE  \A i \in InvoiceId : Exists(i)' <=> Exists(i)
    BY <1>1, <2>2 DEF MarkPaidOnline, SettledOnline, Unpaid, Exists
  <2>3. CASE invoice' = invoice
    BY <2>3 DEF Exists
  <2>4. QED
    BY <2>1, <2>2, <2>3 DEF PayStep, PaymentsStep, CustomerPays, HandleWebhook, ProcessStep,
       ReadInvoice, ProcessFails, FinishApplied, OnPaid, OnPaidFails, tables
<1>4. \A c \in Customer : customer'[c] = customer[c] \/ customer'[c].status \in LiveStatus
  <2>1. ASSUME NEW p \in Payment, OnPaid(p), NEW c \in Customer
        PROVE  customer'[c] = customer[c] \/ customer'[c].status \in LiveStatus
    <3>1. CASE customer[c].status = "suspended"
      BY <2>1, <3>1 DEF OnPaid, ResumeIfSuspended, Restored, SuspensionInv, SuspensionGrounds,
         HasGrounds, LiveStatus
    <3>2. CASE customer[c].status # "suspended"
      BY <2>1, <3>2 DEF OnPaid, ResumeIfSuspended
    <3>3. QED
      BY <3>1, <3>2
  <2>2. QED
    BY <2>1 DEF PayStep, PaymentsStep, CustomerPays, HandleWebhook, ProcessStep, ReadInvoice,
       MarkPaidOnline, ProcessFails, FinishApplied, OnPaidFails, MarkPaid, tables
<1>5. QED
  BY <1>2, <1>3, <1>4, GraceStays DEF Quiet, SweepShrinks, Present

LEMMA AccountsQuiet == TypeOK /\ SuspensionInv /\ AccountsStep => Quiet
<1> SUFFICES ASSUME TypeOK, SuspensionInv, NEW c \in Customer,
                    \/ HandleIncomingMessage(c) \/ ChatStep(c) \/ Approve(c) \/ Reject(c)
                    \/ CheckDelete(c) \/ Delete(c) \/ DeleteFails(c)
             PROVE  Quiet
  BY DEF AccountsStep
<1>1. /\ invoice \in [InvoiceId -> InvoiceRow(Payment)] /\ customer \in [Customer -> CustomerRow]
      /\ "sweeper" \in Runner
  BY DEF TypeOK, Runner
<1>2. today' = today /\ SweepShrinks
  <2>1. job' = job /\ today' = today
    BY DEF HandleIncomingMessage, ChatStep, Approve, Reject, CheckDelete, Delete, DeleteFails,
       handleDisableAccount, handleReactivateAccount, handleDeleteAccount, pauseForExit,
       EraseAccount, MessageFails, tables, billRunVars
  <2>2. QED
    BY <1>1, <2>1, JobOfRunner
<1>3. CASE invoice' = invoice /\ \E s \in LiveStatus : SetStatus(c, s)
  <2>1. \A d \in Customer : customer'[d] = customer[d] \/ customer'[d].status \in LiveStatus
    BY <1>1, <1>3 DEF SetStatus, CustomerRow
  <2>2. QED
    BY <1>2, <1>3, <2>1, GraceStays DEF Quiet, SweepShrinks, Present, Exists
<1>4. CASE invoice' = invoice /\ customer' = customer
  BY <1>2, <1>4, GraceStays DEF Quiet, SweepShrinks, Present, Exists
<1>5. CASE Erase(c)
  <2>1. /\ ~Present(c)' /\ \A d \in Customer : d # c => customer'[d] = customer[d]
        /\ \A i \in InvoiceId : IF owner(i) = c THEN ~Exists(i)' ELSE Exists(i)' <=> Exists(i)
    BY <1>1, <1>5 DEF Erase, Present, Exists, NoCustomer, NoInvoice
  <2>2. QED
    BY <1>2, <2>1, GraceStays DEF Quiet, SweepShrinks
<1>6. QED
  BY <1>3, <1>4, <1>5 DEF HandleIncomingMessage, ChatStep, Approve, Reject, CheckDelete, Delete,
     DeleteFails, handleDisableAccount, handleReactivateAccount, handleDeleteAccount,
     pauseForExit, EraseAccount, MessageFails, LiveStatus, tables

LEMMA ClockQuiet == TypeOK /\ SuspensionInv /\ (NextDay \/ Crash \/ UNCHANGED vars) => Quiet
<1> SUFFICES ASSUME TypeOK, SuspensionInv, NextDay \/ Crash \/ UNCHANGED vars PROVE Quiet
  OBVIOUS
<1>1. today \in Date /\ "sweeper" \in Runner
  BY DEF TypeOK, Runner
<1>2. SweepShrinks
  BY <1>1, JobOfRunner DEF NextDay, Crash, vars, billRunVars, SweepShrinks, InPhase, sweep, Idle
<1>3. UNCHANGED <<customer, invoice>>
  BY DEF NextDay, Crash, vars, tables
<1>4. ASSUME NEW i \in InvoiceId, GraceOver(i)
      PROVE  GraceOver(i)'
  <2>1. CASE NextDay
    <3>1. monthOf(i) \in Nat /\ today[1] \in Nat /\ today[2] \in Nat
      BY <1>1, CalendarFacts DEF InvoiceId, monthOf, BilledMonth, Date
    <3>2. today' = <<today[1], today[2] + 1>> \/ today' = <<today[1] + 1, 1>>
      BY <2>1 DEF NextDay
    <3>3. QED
      BY <1>4, <3>1, <3>2, CalendarFacts DEF GraceOver, Before
  <2>2. CASE Crash \/ UNCHANGED vars
    BY <1>4, <2>2, GraceStays DEF Crash, vars, tables
  <2>3. QED
    BY <2>1, <2>2
<1>5. QED
  BY <1>2, <1>3, <1>4 DEF Quiet, SweepShrinks, Present, Exists

LEMMA SuspensionAlways == Spec => [](TypeOK /\ SuspensionInv)
<1>1. Init => SuspensionInv
  <2> SUFFICES ASSUME Init PROVE SuspensionInv
    OBVIOUS
  <2>1. (\A i \in InvoiceId : ~Exists(i)) /\ ~InPhase("suspend")
    BY DEF Init, TablesInit, BillRunInit, Exists, NoInvoice, InPhase, sweep, Idle, Runner
  <2>2. \A c \in Customer : customer[c].status # "suspended"
    <3> DEFINE Row(s) == [NoCustomer EXCEPT !.status = s, !.isActive = (s = "active")]
    <3>1. \A s \in {"pending", "active", "disabled"} : Row(s).status # "suspended"
      BY DEF NoCustomer
    <3>2. customer \in [Customer -> {Row(s) : s \in {"pending", "active", "disabled"}}]
      BY DEF Init, TablesInit
    <3> HIDE DEF Row
    <3>3. QED
      BY <3>1, <3>2
  <2>3. QED
    BY <2>1, <2>2 DEF SuspensionInv, ForeignKey, TargetsStillOpen, SuspensionGrounds
<1>2. TypeOK /\ SuspensionInv /\ [Next]_vars => SuspensionInv'
  BY BillingQuiet, ChaseKeeps, PayQuiet, AccountsQuiet, ClockQuiet, QuietKeeps DEF Next
<1>3. Spec => []TypeOK
  BY TypeCorrect
<1>4. QED
  BY <1>1, <1>2, <1>3, PTL DEF Spec

-----------------------------------------------------------------------------
(* What a payment was made for exists until its customer is gone, and is   *)
(* settled when the webhook gets to lifting a suspension.                  *)

LEMMA ChaseStatus ==
    ASSUME TypeOK, ChaseStep, NEW i \in InvoiceId
    PROVE  invoice'[i].status = invoice[i].status
<1>1. invoice \in [InvoiceId -> InvoiceRow(Payment)] /\ invoice[i] \in InvoiceRow(Payment)
  BY DEF TypeOK
<1>2. Reminded(invoice[i]).status = invoice[i].status
  <2> DEFINE n == invoice[i].reminderCount + 1
  <2> HIDE DEF n
  <2>1. [invoice[i] EXCEPT !.lastReminderOn = today, !.reminderCount = n].status = invoice[i].status
    BY <1>1 DEF InvoiceRow
  <2>2. QED
    BY <2>1 DEF Reminded, n
<1>3. ASSUME NEW j \in InvoiceId, MarkReminded(j) \/ StampSuspended(j)
      PROVE  invoice'[i].status = invoice[i].status
  <2>1. \/ invoice' = invoice \/ invoice' = [invoice EXCEPT ![j].suspendedAt = TRUE]
        \/ invoice' = [invoice EXCEPT ![j] = Reminded(invoice[j])]
    BY <1>3 DEF MarkReminded, StampSuspended
  <2>2. QED
    BY <1>1, <1>2, <2>1 DEF InvoiceRow
<1>4. QED
  BY <1>3 DEF ChaseStep, SweepStep, Tick, TickGenerate, ClaimGenerate, TickRemind, TickSuspend,
     StartSweep, TargetStep, SendPaymentReminder, SuspendCustomer, TargetFails, EndSweep, tables

(* A customer that is gone does not come back.                             *)
LEMMA GoneStaysGone ==
    ASSUME TypeOK, ForeignKey, Next, NEW c \in Customer, ~Present(c)
    PROVE  ~Present(c)'
<1>1. /\ customer \in [Customer -> CustomerRow] /\ customer[c].status = "ABSENT"
      /\ \A i \in InvoiceId : owner(i) \in Customer
  BY DEF TypeOK, Present, InvoiceId, owner
<1>2. ASSUME NEW d \in Customer, NEW s, SetStatus(d, s), Present(d)
      PROVE  ~Present(c)'
  BY <1>1, <1>2 DEF SetStatus, Present
<1>3. ASSUME customer' = customer
      PROVE  ~Present(c)'
  BY <1>1, <1>3 DEF Present
<1>4. CASE BillingStep
  <2>1. ASSUME NEW d \in Customer, FinalInvoice(d)
        PROVE  ~Present(c)'
    <3>1. customer' = customer
            \/ customer' = [customer EXCEPT ![d].status = "disabled", ![d].isActive = FALSE]
      BY <2>1 DEF FinalInvoice
    <3>2. d # c
      BY <2>1, <1>1 DEF FinalInvoice, Present
    <3>3. QED
      BY <1>1, <3>1, <3>2 DEF Present
  <2>2. QED
    BY <1>3, <1>4, <2>1 DEF BillingStep, dunningGenerate, Generate, RunnerStep, InsertInvoices,
       GenerateFails, notifyFreshInvoices, SendStep, notifyBill, MarkBillSent, SendFails,
       recordBillRun, LateDelivery, tables
<1>5. CASE ChaseStep
  <2>1. ASSUME NEW i \in InvoiceId, SuspendCustomer(i)
        PROVE  ~Present(c)'
    <3>1. Exists(i) => owner(i) # c
      BY DEF ForeignKey
    <3>2. QED
      BY <1>1, <2>1, <3>1 DEF SuspendCustomer, Present
  <2>2. QED
    BY <1>3, <1>5, <2>1 DEF ChaseStep, SweepStep, Tick, TickGenerate, ClaimGenerate, TickRemind,
       TickSuspend, StartSweep, TargetStep, MarkReminded, SendPaymentReminder, StampSuspended,
       TargetFails, EndSweep, tables
<1>6. CASE PayStep
  <2>1. ASSUME NEW p \in Payment, OnPaid(p)
        PROVE  ~Present(c)'
    BY <1>1, <2>1 DEF OnPaid, ResumeIfSuspended, Present
  <2>2. QED
    BY <1>3, <1>6, <2>1 DEF PayStep, PaymentsStep, CustomerPays, HandleWebhook, ProcessStep,
       ReadInvoice, MarkPaidOnline, ProcessFails, FinishApplied, OnPaidFails, MarkPaid, tables
<1>7. CASE AccountsStep
  <2>1. ASSUME NEW d \in Customer, Erase(d)
        PROVE  ~Present(c)'
    BY <1>1, <2>1 DEF Erase, NoCustomer, Present
  <2>2. ASSUME NEW d \in Customer, NEW s, SetStatus(d, s), customer[d].status \in LiveStatus
        PROVE  ~Present(c)'
    BY <1>2, <2>2 DEF Present, LiveStatus
  <2>3. QED
    BY <1>2, <1>3, <1>7, <2>1, <2>2 DEF AccountsStep, HandleIncomingMessage, ChatStep, Approve,
       Reject, CheckDelete, Delete, DeleteFails, handleDisableAccount, handleReactivateAccount,
       handleDeleteAccount, pauseForExit, EraseAccount, MessageFails, LiveStatus, tables
<1>8. CASE NextDay \/ Crash
  BY <1>3, <1>8 DEF NextDay, Crash, tables
<1>9. QED
  BY <1>4, <1>5, <1>6, <1>7, <1>8 DEF Next

(* An invoice goes only with its customer.                                 *)
LEMMA ExistsUntilGone ==
    ASSUME TypeOK, SuspensionInv, Next, NEW i \in InvoiceId, Exists(i)
    PROVE  Exists(i)' \/ ~Present(owner(i))'
<1>1. CASE ChaseStep
  BY <1>1, ChaseStatus DEF Exists
<1>2. CASE ~ChaseStep
  <2>1. Quiet
    BY <1>2, BillingQuiet, PayQuiet, AccountsQuiet, ClockQuiet DEF Next
  <2>2. QED
    BY <2>1 DEF Quiet
<1>3. QED
  BY <1>1, <1>2

(* Unless the admin reopens bills by hand, a settled one stays settled.    *)
LEMMA PaidStays ==
    ASSUME TypeOK, "PENDING" \notin MarkStatus, Next, NEW i \in InvoiceId, IsPaid(i)
    PROVE  IsPaid(i)' \/ ~Exists(i)'
<1>1. /\ invoice \in [InvoiceId -> InvoiceRow(Payment)] /\ Exists(i) /\ ~Unpaid(i)
  BY DEF TypeOK, IsPaid, PaidStatus, Exists, Unpaid
<1>2. ASSUME invoice'[i].status = invoice[i].status
      PROVE  IsPaid(i)'
  BY <1>2 DEF IsPaid
<1>3. CASE BillingStep
  <2>1. ASSUME NEW r \in Runner, InsertInvoices(r) \/ \E j \in InvoiceId : MarkBillSent(r, j)
        PROVE  invoice'[i].status = invoice[i].status
    <3>1. CASE InsertInvoices(r)
      BY <1>1, <3>1 DEF InsertInvoices
    <3>2. ASSUME NEW j \in InvoiceId, MarkBillSent(r, j)
          PROVE  invoice'[i].status = invoice[i].status
      BY <1>1, <3>2 DEF MarkBillSent, InvoiceRow
    <3>3. QED
      BY <2>1, <3>1, <3>2
  <2>2. ASSUME NEW c \in Customer, FinalInvoice(c)
        PROVE  invoice'[i].status = invoice[i].status
    BY <1>1, <2>2 DEF FinalInvoice
  <2>3. QED
    BY <1>2, <1>3, <2>1, <2>2 DEF BillingStep, dunningGenerate, Generate, RunnerStep,
       GenerateFails, notifyFreshInvoices, SendStep, notifyBill, SendFails, recordBillRun,
       LateDelivery, tables
<1>4. CASE ChaseStep
  BY <1>2, <1>4, ChaseStatus
<1>5. CASE PayStep
  <2>1. ASSUME NEW j \in InvoiceId, NEW s \in MarkStatus, MarkPaid(j, s)
        PROVE  IsPaid(i)'
    <3>1. s \in PaidStatus
      BY PaymentsAssumption DEF allowedInvoiceStatus, InvoiceStatus
    <3>2. QED
      BY <1>1, <2>1, <3>1 DEF MarkPaid, IsPaid
  <2>2. ASSUME NEW p \in Payment, MarkPaidOnline(p)
        PROVE  IsPaid(i)'
    BY <1>1, <2>2 DEF MarkPaidOnline, SettledOnline, IsPaid
  <2>3. QED
    BY <1>2, <1>5, <2>1, <2>2 DEF PayStep, PaymentsStep, CustomerPays, HandleWebhook,
       ProcessStep, ReadInvoice, ProcessFails, FinishApplied, OnPaid, OnPaidFails, tables
<1>6. CASE AccountsStep
  <2>1. ASSUME NEW d \in Customer, Erase(d)
        PROVE  IsPaid(i)' \/ ~Exists(i)'
    BY <1>1, <2>1 DEF Erase, NoInvoice, Exists, IsPaid
  <2>2. QED
    BY <1>2, <1>6, <2>1 DEF AccountsStep, HandleIncomingMessage, ChatStep, Approve, Reject,
       CheckDelete, Delete, DeleteFails, handleDisableAccount, handleReactivateAccount,
       handleDeleteAccount, pauseForExit, EraseAccount, MessageFails, tables
<1>7. CASE NextDay \/ Crash
  BY <1>2, <1>7 DEF NextDay, Crash, tables
<1>8. QED
  BY <1>3, <1>4, <1>5, <1>6, <1>7 DEF Next

Gone(p) == ~Present(owner(paidFor[p]))

SettledBeforeLifting ==
    \A p \in Payment :
        /\ paidFor[p] \in InvoiceId => Exists(paidFor[p]) \/ Gone(p)
        /\ "PENDING" \notin MarkStatus /\ worker[p] \in {"finish", "onPaid"} =>
                paidFor[p] \in InvoiceId /\ (IsPaid(paidFor[p]) \/ Gone(p))

LEMMA SettledStep ==
    TypeOK /\ MoneyInv /\ SuspensionInv /\ SettledBeforeLifting /\ [Next]_vars
        => SettledBeforeLifting'
<1> SUFFICES ASSUME TypeOK, MoneyInv, SuspensionInv, SettledBeforeLifting, [Next]_vars
             PROVE  SettledBeforeLifting'
  OBVIOUS
<1>1. CASE UNCHANGED vars
  BY <1>1 DEF vars, tables, paymentVars, SettledBeforeLifting, Gone, Exists, IsPaid, Present
<1>2. ASSUME Next, NEW p \in Payment
      PROVE  /\ paidFor'[p] \in InvoiceId => Exists(paidFor[p])' \/ Gone(p)'
             /\ "PENDING" \notin MarkStatus /\ worker'[p] \in {"finish", "onPaid"} =>
                   paidFor'[p] \in InvoiceId /\ (IsPaid(paidFor[p])' \/ Gone(p)')
  <2>0. /\ paidFor \in [Payment -> InvoiceId \cup {NONE}]
        /\ worker \in [Payment -> WorkerStep]
        /\ outcome \in [Payment -> Outcome \cup {NONE}]
        /\ invoice \in [InvoiceId -> InvoiceRow(Payment)]
        /\ \A i \in InvoiceId : owner(i) \in Customer
    BY DEF TypeOK, PaymentsTypeOK, InvoiceId, owner
  <2>1. ASSUME NEW i \in InvoiceId
        PROVE  /\ Exists(i) \/ ~Present(owner(i)) => Exists(i)' \/ ~Present(owner(i))'
               /\ "PENDING" \notin MarkStatus /\ (IsPaid(i) \/ ~Present(owner(i))) =>
                     IsPaid(i)' \/ ~Present(owner(i))'
    <3>1. ~Present(owner(i)) => ~Present(owner(i))'
      BY <1>2, <2>0, GoneStaysGone DEF SuspensionInv
    <3>2. Exists(i) => Exists(i)' \/ ~Present(owner(i))'
      BY <1>2, ExistsUntilGone
    <3>3. IsPaid(i) => Exists(i)
      BY DEF IsPaid, PaidStatus, Exists
    <3>4. QED
      BY <1>2, <3>1, <3>2, <3>3, PaidStays
  <2>2. CASE paidFor'[p] = paidFor[p]
             /\ (worker'[p] \in {"finish", "onPaid"} => worker[p] \in {"finish", "onPaid"})
    <3>1. SettledBeforeLifting!(p)
      BY DEF SettledBeforeLifting
    <3>2. PICK i : i = paidFor[p]
      OBVIOUS
    <3>3. QED
      BY <2>1, <2>2, <3>1, <3>2 DEF Gone
  <2>3. ASSUME NEW i \in InvoiceId, CustomerPays(p, i)
        PROVE  /\ Exists(i)' /\ paidFor'[p] = i
               /\ worker'[p] \notin {"finish", "onPaid"}
    <3>1. worker[p] \notin {"finish", "onPaid"}
      BY <2>3, NullAssumption DEF CustomerPays, MoneyInv, WorkerMatches, Outcome
    <3>2. QED
      BY <2>0, <2>3, <3>1 DEF CustomerPays, tables, Exists
  <2>4. CASE MarkPaidOnline(p)
    <3>1. worker[p] = "update" /\ paidFor' = paidFor /\ customer' = customer
      BY <2>4 DEF MarkPaidOnline
    <3>2. paidFor[p] \in InvoiceId
      BY <2>0, <3>1, NullAssumption DEF MoneyInv, WorkerMatches, Outcome
    <3>3. PICK i \in InvoiceId : i = paidFor[p]
      BY <3>2
    <3>4. Exists(i) \/ ~Present(owner(i))
      BY <3>2, <3>3 DEF SettledBeforeLifting, Gone
    <3>5. Exists(i) => IsPaid(i)'
      <4>1. invoice[i].status \in InvoiceStatus \cup {"ABSENT"}
        BY <2>0 DEF InvoiceRow
      <4>2. QED
        BY <2>0, <2>4, <3>3, <4>1 DEF MarkPaidOnline, SettledOnline, Exists, IsPaid, Unpaid,
           InvoiceStatus, PaidStatus
    <3>6. QED
      BY <2>1, <3>1, <3>3, <3>4, <3>5 DEF Gone, Present
  <2>5. QED
    <3>1. CASE \E i \in InvoiceId : CustomerPays(p, i)
      <4>1. PICK i \in InvoiceId : CustomerPays(p, i)
        BY <3>1
      <4>2. Exists(i)' /\ paidFor'[p] = i /\ worker'[p] \notin {"finish", "onPaid"}
        BY <2>3, <4>1
      <4>3. QED
        BY <4>2 DEF Exists
    <3>2. CASE ~MarkPaidOnline(p) /\ ~\E i \in InvoiceId : CustomerPays(p, i)
      <4>1. CASE Crash
        BY <2>0, <2>2, <4>1 DEF Crash
      <4>2. CASE BillingStep \/ ChaseStep \/ AccountsStep \/ NextDay
        <5>1. UNCHANGED paymentVars
          BY <4>2 DEF BillingStep, ChaseStep, NextDay, AccountsStep, HandleIncomingMessage,
             ChatStep, Approve, Reject, CheckDelete, Delete, DeleteFails, handleDisableAccount,
             handleReactivateAccount, handleDeleteAccount, pauseForExit, EraseAccount,
             MessageFails
        <5>2. QED
          BY <2>2, <5>1 DEF paymentVars
      <4>3. CASE PayStep
        <5>1. ASSUME NEW q \in Payment,
                     \/ q # p /\ \E i \in InvoiceId : CustomerPays(q, i)
                     \/ q # p /\ MarkPaidOnline(q)
                     \/ HandleWebhook(q) \/ ReadInvoice(q) \/ ProcessFails(q)
                     \/ FinishApplied(q) \/ OnPaid(q) \/ OnPaidFails(q)
              PROVE  /\ paidFor'[p] = paidFor[p]
                     /\ worker'[p] \in {"finish", "onPaid"} => worker[p] \in {"finish", "onPaid"}
          BY <2>0, <5>1 DEF CustomerPays, MarkPaidOnline, HandleWebhook, ReadInvoice,
             ProcessFails, FinishApplied, OnPaid, OnPaidFails, Finish
        <5>2. CASE \E i \in InvoiceId, s \in MarkStatus : MarkPaid(i, s)
          BY <2>2, <5>2 DEF MarkPaid, paymentVars
        <5>3. QED
          BY <2>2, <3>2, <4>3, <5>1, <5>2 DEF PayStep, PaymentsStep, ProcessStep
      <4>4. QED
        BY <1>2, <4>1, <4>2, <4>3 DEF Next
    <3>3. QED
      BY <2>4, <3>1, <3>2
<1>3. QED
  BY <1>1, <1>2 DEF SettledBeforeLifting

-----------------------------------------------------------------------------
(* Whatever the sweep, the payments, the messages and the admin do to each *)
(* other, every suspension names a raised bill of that customer past its   *)
(* grace days, keeps the customer off the rounds, and knows a status to    *)
(* put it back to. (dunningSuspend, ResumeIfSuspended)                     *)
THEOREM SuspensionCorrect == Spec => []SuspensionGrounds
BY SuspensionAlways, PTL DEF SuspensionInv

LEMMA SettledAlways == Spec => [](TypeOK /\ MoneyInv /\ SuspensionInv /\ SettledBeforeLifting)
<1>1. Init => SettledBeforeLifting
  BY NullAssumption DEF Init, PaymentsInit, SettledBeforeLifting
<1>2. QED
  BY <1>1, SettledStep, MoneyAlways, SuspensionAlways, PTL DEF Spec

(* A suspended customer comes back on the rounds only by an admin's        *)
(* approval, or by a payment of the very bill it is suspended for that was *)
(* not refused, and with that bill settled unless the admin reopens bills  *)
(* by hand. (OnPaid, ResumeIfSuspended, the message handlers)              *)
THEOREM ServiceCorrect == Spec => OnlyPaymentRestoresService
<1>1. ASSUME TypeOK, MoneyInv, SuspensionInv, SettledBeforeLifting, NEW c \in Customer, Next,
             customer[c].status = "suspended", customer'[c].isActive
      PROVE  \/ Approve(c)
             \/ /\ \E p \in Payment : /\ paidFor[p] = customer[c].suspendedFor
                                      /\ outcome[p] \notin Refused
                /\ "PENDING" \notin MarkStatus => IsPaid(customer[c].suspendedFor)
  <2>1. /\ ~customer[c].isActive /\ customer \in [Customer -> CustomerRow]
        /\ invoice \in [InvoiceId -> InvoiceRow(Payment)]
    BY <1>1 DEF SuspensionInv, SuspensionGrounds, HasGrounds, TypeOK
  <2>2. CASE customer'[c] = customer[c]
    BY <1>1, <2>1, <2>2
  <2>3. CASE PayStep
    <3>1. CASE \E p \in Payment : OnPaid(p)
      <4>1. PICK p \in Payment : OnPaid(p)
        BY <3>1
      <4>2. worker[p] = "onPaid" /\ customer[c].suspendedFor = paidFor[p]
        BY <1>1, <2>1, <4>1 DEF OnPaid, ResumeIfSuspended
      <4>3. outcome[p] \notin Refused
        BY <1>1, <4>2 DEF MoneyInv, WorkerMatches, Refused
      <4>4. owner(paidFor[p]) = c /\ Present(c)
        BY <1>1, <4>2 DEF SuspensionInv, SuspensionGrounds, HasGrounds, Present
      <4>5. "PENDING" \notin MarkStatus => IsPaid(paidFor[p])
        BY <1>1, <4>2, <4>4 DEF SettledBeforeLifting, Gone
      <4>6. QED
        BY <4>2, <4>3, <4>5
    <3>2. QED
      BY <2>2, <2>3, <3>1 DEF PayStep, PaymentsStep, CustomerPays, HandleWebhook, ProcessStep,
         ReadInvoice, MarkPaidOnline, ProcessFails, FinishApplied, OnPaidFails, MarkPaid, tables
  <2>4. ASSUME NEW d \in Customer, AccountsStep
        PROVE  Approve(c) \/ ~customer'[c].isActive
    <3>1. ASSUME NEW e \in Customer, NEW s \in LiveStatus \ {"active"}, SetStatus(e, s)
          PROVE  ~customer'[c].isActive
      BY <2>1, <3>1 DEF SetStatus, CustomerRow
    <3>2. ASSUME NEW e \in Customer, Approve(e), e # c
          PROVE  ~customer'[c].isActive
      BY <2>1, <3>2 DEF Approve, SetStatus
    <3>3. ASSUME NEW e \in Customer, Erase(e)
          PROVE  ~customer'[c].isActive
      BY <2>1, <3>3 DEF Erase, NoCustomer
    <3>4. {"pending", "disabled", "rejected"} \subseteq LiveStatus \ {"active"}
      BY DEF LiveStatus
    <3>5. QED
      BY <2>1, <2>4, <3>1, <3>2, <3>3, <3>4 DEF AccountsStep, HandleIncomingMessage, ChatStep,
         Reject, CheckDelete, Delete, DeleteFails, handleDisableAccount,
         handleReactivateAccount, handleDeleteAccount, pauseForExit, EraseAccount,
         MessageFails, tables
  <2>5. CASE BillingStep
    BY <2>1, <2>2, <2>5, <1>1 DEF BillingStep, dunningGenerate, Generate, RunnerStep,
       InsertInvoices, GenerateFails, notifyFreshInvoices, SendStep, notifyBill, MarkBillSent,
       SendFails, recordBillRun, FinalInvoice, LateDelivery, tables
  <2>6. CASE ChaseStep
    <3>1. ASSUME NEW i \in InvoiceId, SuspendCustomer(i)
          PROVE  ~customer'[c].isActive
      BY <2>1, <3>1 DEF SuspendCustomer
    <3>2. QED
      BY <1>1, <2>2, <2>6, <3>1 DEF ChaseStep, SweepStep, Tick, TickGenerate, ClaimGenerate,
         TickRemind, TickSuspend, StartSweep, TargetStep, MarkReminded, SendPaymentReminder,
         StampSuspended, TargetFails, EndSweep, tables
  <2>7. CASE NextDay \/ Crash
    BY <2>2, <2>7 DEF NextDay, Crash, tables
  <2>8. QED
    BY <1>1, <2>3, <2>4, <2>5, <2>6, <2>7 DEF Next
<1>2. ASSUME TypeOK, MoneyInv, SuspensionInv, SettledBeforeLifting, [Next]_vars
      PROVE  [\A c \in Customer :
                 customer[c].status = "suspended" /\ customer'[c].isActive =>
                     \/ Approve(c)
                     \/ /\ \E p \in Payment : /\ paidFor[p] = customer[c].suspendedFor
                                              /\ outcome[p] \notin Refused
                        /\ "PENDING" \notin MarkStatus => IsPaid(customer[c].suspendedFor)]_vars
  BY <1>1, <1>2
<1>3. QED
  BY <1>2, SettledAlways, PTL DEF Spec, OnlyPaymentRestoresService

-----------------------------------------------------------------------------
(* The cycle implements the ledger of PaymentLedger.                       *)

(* What a customer or a row has become, and what the ledger sees of it.    *)
LEMMA StandingIs ==
    ASSUME NEW i
    PROVE  /\ Standing(i) = IF ~Present(owner(i)) THEN "gone"
                            ELSE IF ~Exists(i) THEN "none"
                            ELSE IF Unpaid(i) THEN "open" ELSE "settled"
           /\ Standing(i)' = IF ~Present(owner(i))' THEN "gone"
                             ELSE IF ~Exists(i)' THEN "none"
                             ELSE IF Unpaid(i)' THEN "open" ELSE "settled"
BY DEF Standing, Unpaid, Exists

(* Only its deletion takes a customer out of the table. *)
LEMMA RosterStays ==
    ASSUME TypeOK, SuspensionInv, BillingStep \/ ChaseStep \/ PayStep \/ NextDay \/ Crash,
           NEW c \in Customer, Present(c)
    PROVE  Present(c)'
<1>0. customer \in [Customer -> CustomerRow]
  BY DEF TypeOK
<1>1. CASE customer' = customer
  BY <1>1 DEF Present
<1>2. ASSUME NEW d \in Customer, FinalInvoice(d)
      PROVE  Present(c)'
  <2>1. \/ customer' = customer
        \/ customer' = [customer EXCEPT ![d].status = "disabled", ![d].isActive = FALSE]
    BY <1>2 DEF FinalInvoice
  <2>2. QED
    BY <1>0, <2>1 DEF Present, CustomerRow
<1>3. ASSUME NEW i \in InvoiceId, SuspendCustomer(i)
      PROVE  Present(c)'
  BY <1>0, <1>3 DEF SuspendCustomer, Present, InvoiceId, owner
<1>4. ASSUME NEW p \in Payment, OnPaid(p)
      PROVE  Present(c)'
  <2>1. CASE customer[c].status = "suspended"
    BY <1>4, <2>1 DEF OnPaid, ResumeIfSuspended, Restored, SuspensionInv, SuspensionGrounds,
       HasGrounds, LiveStatus, Present
  <2>2. CASE customer[c].status # "suspended"
    BY <1>4, <2>2 DEF OnPaid, ResumeIfSuspended, Present
  <2>3. QED
    BY <2>1, <2>2
<1>5. CASE BillingStep
  BY <1>1, <1>2, <1>5 DEF BillingStep, dunningGenerate, Generate, RunnerStep, InsertInvoices,
     GenerateFails, notifyFreshInvoices, SendStep, notifyBill, MarkBillSent, SendFails,
     recordBillRun, LateDelivery, tables
<1>6. CASE ChaseStep
  BY <1>1, <1>3, <1>6 DEF ChaseStep, SweepStep, Tick, TickGenerate, ClaimGenerate, TickRemind,
     TickSuspend, StartSweep, TargetStep, MarkReminded, SendPaymentReminder, StampSuspended,
     TargetFails, EndSweep, tables
<1>7. CASE PayStep
  BY <1>1, <1>4, <1>7 DEF PayStep, PaymentsStep, CustomerPays, HandleWebhook, ProcessStep,
     ReadInvoice, MarkPaidOnline, ProcessFails, FinishApplied, OnPaidFails, MarkPaid, tables
<1>8. CASE NextDay \/ Crash
  BY <1>1, <1>8 DEF NextDay, Crash, tables
<1>9. QED
  BY <1>5, <1>6, <1>7, <1>8

LEMMA AccountsErase ==
    ASSUME TypeOK, AccountsStep
    PROVE  \/ \E c \in Customer : Erase(c)
           \/ invoice' = invoice /\ \A c \in Customer : Present(c) => Present(c)'
<1>1. ASSUME NEW d \in Customer, NEW s \in LiveStatus, SetStatus(d, s)
      PROVE  \A c \in Customer : Present(c) => Present(c)'
  BY <1>1 DEF TypeOK, SetStatus, Present, LiveStatus, CustomerRow
<1>2. {"active", "disabled", "pending", "rejected"} = LiveStatus
  BY DEF LiveStatus
<1>3. CASE customer' = customer
  BY <1>3 DEF Present, AccountsStep, HandleIncomingMessage, ChatStep, Approve, Reject,
     CheckDelete, Delete, DeleteFails, handleDisableAccount, handleReactivateAccount,
     handleDeleteAccount, pauseForExit, EraseAccount, MessageFails, tables
<1>4. QED
  BY <1>1, <1>2, <1>3 DEF AccountsStep, HandleIncomingMessage, ChatStep, Approve, Reject,
     CheckDelete, Delete, DeleteFails, handleDisableAccount, handleReactivateAccount,
     handleDeleteAccount, pauseForExit, EraseAccount, MessageFails, tables

(* A row that is not there bears no payment: what is raised is unsettled.  *)
NoRowNoReference == \A i \in InvoiceId : ~Exists(i) => invoice[i].paid = NONE

LEMMA ReferenceStep ==
    ASSUME TypeOK, SuspensionInv, NoRowNoReference, Next
    PROVE  NoRowNoReference'
<1> SUFFICES ASSUME NEW i \in InvoiceId, ~Exists(i)'
             PROVE  invoice'[i].paid = NONE
  BY DEF NoRowNoReference
<1>0. owner(i) \in Customer /\ invoice \in [InvoiceId -> InvoiceRow(Payment)]
  BY DEF InvoiceId, owner, TypeOK
<1>1. CASE Exists(i)
  <2>1. Present(owner(i)) /\ ~Present(owner(i))'
    BY <1>1, ExistsUntilGone DEF SuspensionInv, ForeignKey
  <2>2. PICK c \in Customer : Erase(c)
    BY <1>0, <1>1, <2>1, RosterStays, AccountsErase DEF Next
  <2>3. c = owner(i)
    BY <1>0, <2>1, <2>2 DEF Erase, Present, TypeOK
  <2>4. QED
    BY <2>2, <2>3 DEF Erase, NoInvoice
<1>2. CASE ~Exists(i)
  <2>1. invoice[i].paid = NONE
    BY <1>2 DEF NoRowNoReference
  <2>2. ASSUME NEW p \in Payment, MarkPaidOnline(p)
        PROVE  invoice'[i] = invoice[i]
    BY <1>0, <1>2, <2>2 DEF MarkPaidOnline, SettledOnline, Unpaid, Exists
  <2>3. Kept(i) \/ invoice' = invoice \/ \E p \in Payment : MarkPaidOnline(p)
    <3>1. CASE PayStep
      BY <3>1, PaidColumn DEF PayStep, PaymentsStep, CustomerPays, HandleWebhook, ProcessStep,
         ReadInvoice, ProcessFails, FinishApplied, OnPaid, OnPaidFails, tables
    <3>2. CASE ~PayStep
      BY <3>2, PaidColumn DEF Next
    <3>3. QED
      BY <3>1, <3>2
  <2>4. QED
    BY <2>1, <2>2, <2>3 DEF Kept
<1>3. QED
  BY <1>1, <1>2

(* A step the ledger does not see. *)
RowsStill     == \A i \in InvoiceId : /\ Standing(i)' = Standing(i)
                                      /\ invoice'[i].paid = invoice[i].paid
PaymentsStill == paidFor' = paidFor /\ \A p \in Payment : Ruling(p)' = Ruling(p)

LEMMA StillIsStutter == RowsStill /\ PaymentsStill => UNCHANGED Ledger!ledgerVars
BY DEF RowsStill, PaymentsStill, Ledger!ledgerVars

LEMMA RowsStay ==
    ASSUME TypeOK, SuspensionInv, NoRowNoReference, Next, \A c \in Customer : Present(c) => Present(c)',
           \A i \in InvoiceId : invoice'[i].status = invoice[i].status /\ Kept(i)
    PROVE  RowsStill
<1> SUFFICES ASSUME NEW i \in InvoiceId
             PROVE  Standing(i)' = Standing(i) /\ invoice'[i].paid = invoice[i].paid
  BY DEF RowsStill
<1>1. (Exists(i)' <=> Exists(i)) /\ (Unpaid(i)' <=> Unpaid(i))
  BY DEF Exists, Unpaid
<1>2. owner(i) \in Customer
  BY DEF InvoiceId, owner
<1>3. Present(owner(i))' <=> Present(owner(i))
  BY <1>2, GoneStaysGone DEF SuspensionInv
<1>4. Standing(i)' = Standing(i)
  BY <1>1, <1>3, StandingIs
<1>5. invoice'[i].paid = invoice[i].paid
  BY <1>1 DEF Kept, NoRowNoReference
<1>6. QED
  BY <1>4, <1>5

LEMMA LedgerBills == Ledger!Bill = InvoiceId /\ \A i \in InvoiceId : i[1] = owner(i)
BY DEF Ledger!Bill, InvoiceId, owner

(* Invoices raised together are raised in the ledger. *)
LEMMA RaisingIsRaise ==
    ASSUME TypeOK, SuspensionInv, NoRowNoReference, Next, \A c \in Customer : Present(c) => Present(c)',
           PaymentsStill, NEW raised \in SUBSET InvoiceId,
           \A i \in raised : ~Exists(i) /\ Present(owner(i)),
           \A i \in InvoiceId : invoice'[i] = IF i \in raised THEN FreshInvoice ELSE invoice[i]
    PROVE  [Ledger!LedgerNext]_(Ledger!ledgerVars)
<1>1. \A i \in InvoiceId : owner(i) \in Customer
  BY DEF InvoiceId, owner
<1>2. \A i \in InvoiceId : Present(owner(i))' <=> Present(owner(i))
  BY <1>1, GoneStaysGone DEF SuspensionInv
<1>3. FreshInvoice.status = "PENDING" /\ FreshInvoice.paid = NONE
  BY DEF FreshInvoice, NoInvoice
<1>4. \A i \in raised : Standing(i) = "none"
  BY StandingIs
<1>5. \A i \in InvoiceId : Standing(i)' = IF i \in raised THEN "open" ELSE Standing(i)
  BY <1>2, <1>3, StandingIs DEF Exists, Unpaid
<1>6. \A i \in InvoiceId : invoice'[i].paid = invoice[i].paid
  BY <1>3 DEF NoRowNoReference
<1>7. Ledger!Raise(raised)
  BY <1>4, <1>5, <1>6, LedgerBills DEF Ledger!Raise, PaymentsStill
<1>8. QED
  BY <1>7, LedgerBills DEF Ledger!LedgerNext

LEMMA BillingLedger ==
    ASSUME TypeOK, SuspensionInv, NoRowNoReference, BillingStep
    PROVE  [Ledger!LedgerNext]_(Ledger!ledgerVars)
<1>0. /\ invoice \in [InvoiceId -> InvoiceRow(Payment)] /\ Next
      /\ \A r \in Runner : job[r].todo \subseteq InvoiceId
  BY DEF TypeOK, BillRunTypeOK, Job, Next
<1>1. PaymentsStill
  BY DEF BillingStep, paymentVars, PaymentsStill, Ruling
<1>2. \A c \in Customer : Present(c) => Present(c)'
  BY RosterStays
<1>3. ASSUME \A i \in InvoiceId : invoice'[i].status = invoice[i].status
      PROVE  [Ledger!LedgerNext]_(Ledger!ledgerVars)
  BY <1>0, <1>1, <1>2, <1>3, PaidColumn, RowsStay, StillIsStutter
<1>4. ASSUME NEW r \in Runner, InsertInvoices(r)
      PROVE  [Ledger!LedgerNext]_(Ledger!ledgerVars)
  <2> DEFINE raised == {i \in job[r].todo : ~Exists(i)}
  <2>1. /\ raised \in SUBSET InvoiceId
        /\ \A i \in raised : ~Exists(i) /\ Present(owner(i))
        /\ \A i \in InvoiceId : invoice'[i] = IF i \in raised THEN FreshInvoice ELSE invoice[i]
    BY <1>0, <1>4 DEF InsertInvoices
  <2> HIDE DEF raised
  <2>2. QED
    BY <1>0, <1>1, <1>2, <2>1, RaisingIsRaise
<1>5. ASSUME NEW c \in Customer, FinalInvoice(c)
      PROVE  [Ledger!LedgerNext]_(Ledger!ledgerVars)
  <2>1. PICK i \in InvoiceId : /\ ~Exists(i) /\ Present(owner(i))
                               /\ invoice' = [invoice EXCEPT ![i] = FreshInvoice]
    BY <1>5 DEF FinalInvoice, TypeOK, BillRunTypeOK, owner
  <2>2. /\ {i} \in SUBSET InvoiceId
        /\ \A j \in {i} : ~Exists(j) /\ Present(owner(j))
        /\ \A j \in InvoiceId : invoice'[j] = IF j \in {i} THEN FreshInvoice ELSE invoice[j]
    BY <1>0, <2>1
  <2>3. QED
    BY <1>0, <1>1, <1>2, <2>2, RaisingIsRaise
<1>6. ASSUME NEW r \in Runner, NEW j \in InvoiceId, MarkBillSent(r, j)
      PROVE  \A i \in InvoiceId : invoice'[i].status = invoice[i].status
  BY <1>0, <1>6 DEF MarkBillSent, InvoiceRow
<1>7. QED
  BY <1>3, <1>4, <1>5, <1>6 DEF BillingStep, dunningGenerate, Generate, RunnerStep,
     GenerateFails, notifyFreshInvoices, SendStep, notifyBill, SendFails, recordBillRun,
     LateDelivery, tables

LEMMA OtherLedger ==
    ASSUME TypeOK, SuspensionInv, NoRowNoReference, ChaseStep \/ NextDay \/ Crash
    PROVE  [Ledger!LedgerNext]_(Ledger!ledgerVars)
<1>1. PaymentsStill
  BY DEF ChaseStep, NextDay, Crash, paymentVars, PaymentsStill, Ruling
<1>2. \A c \in Customer : Present(c) => Present(c)'
  BY RosterStays
<1>3. \A i \in InvoiceId : invoice'[i].status = invoice[i].status
  BY ChaseStatus DEF NextDay, Crash, tables
<1>4. QED
  BY <1>1, <1>2, <1>3, PaidColumn, RowsStay, StillIsStutter DEF Next

(* An account that is deleted takes its bills with it. *)
LEMMA AccountsLedger ==
    ASSUME TypeOK, SuspensionInv, NoRowNoReference, AccountsStep
    PROVE  [Ledger!LedgerNext]_(Ledger!ledgerVars)
<1>1. PaymentsStill
  <2>1. UNCHANGED paymentVars
    BY DEF AccountsStep, HandleIncomingMessage, ChatStep, Approve, Reject, CheckDelete, Delete,
       DeleteFails, handleDisableAccount, handleReactivateAccount, handleDeleteAccount,
       pauseForExit, EraseAccount, MessageFails
  <2>2. QED
    BY <2>1 DEF paymentVars, PaymentsStill, Ruling
<1>2. CASE invoice' = invoice /\ \A c \in Customer : Present(c) => Present(c)'
  BY <1>1, <1>2, RowsStay, StillIsStutter DEF Next, Kept
<1>3. ASSUME NEW c \in Customer, Erase(c)
      PROVE  [Ledger!LedgerNext]_(Ledger!ledgerVars)
  <2>1. /\ ~Present(c)'
        /\ \A d \in Customer : d # c => customer'[d] = customer[d]
    BY <1>3 DEF Erase, NoCustomer, Present, TypeOK
  <2>2. ASSUME NEW i \in InvoiceId
        PROVE  /\ Standing(i)' = IF owner(i) = c THEN "gone" ELSE Standing(i)
               /\ invoice'[i].paid = IF owner(i) = c THEN NONE ELSE invoice[i].paid
    <3>1. owner(i) \in Customer
      BY DEF InvoiceId, owner
    <3>2. CASE owner(i) = c
      BY <1>3, <2>1, <3>2, StandingIs DEF Erase, NoInvoice
    <3>3. CASE owner(i) # c
      <4>1. invoice'[i] = invoice[i] /\ customer'[owner(i)] = customer[owner(i)]
        BY <1>3, <2>1, <3>1, <3>3 DEF Erase
      <4>2. QED
        BY <3>3, <4>1, StandingIs DEF Present, Exists, Unpaid
    <3>4. QED
      BY <3>2, <3>3
  <2>3. Ledger!Leave(c)
    BY <1>1, <2>2, LedgerBills DEF Ledger!Leave, PaymentsStill
  <2>4. QED
    BY <2>3 DEF Ledger!LedgerNext
<1>4. QED
  BY <1>2, <1>3, AccountsErase

(* What the webhook's goroutine knows of its payment, and the ledger of    *)
(* what it was made for.                                                   *)
LEMMA WorkerLedger ==
    ASSUME TypeOK, MoneyInv, SuspensionInv, SettledBeforeLifting, NEW p \in Payment,
           worker[p] \in {"read", "update", "finish"}
    PROVE  /\ paidFor[p] \in InvoiceId /\ outcome[p] = "IGNORED" /\ Ruling(p) = NONE
           /\ worker[p] \in {"read", "update"} => invoice[paidFor[p]].paid # p
           /\ ~Unpaid(paidFor[p]) => Standing(paidFor[p]) \in {"settled", "gone"}
           /\ Unpaid(paidFor[p]) => Standing(paidFor[p]) = "open"
           /\ worker[p] = "finish" /\ "PENDING" \notin MarkStatus =>
                 Standing(paidFor[p]) \in {"settled", "gone"}
<1>1. /\ outcome[p] = "IGNORED" /\ paidFor[p] \in InvoiceId
  BY NullAssumption DEF MoneyInv, WorkerMatches, TypeOK, PaymentsTypeOK, Outcome
<1>2. PICK i \in InvoiceId : i = paidFor[p]
  BY <1>1
<1>3. Exists(i) \/ ~Present(owner(i))
  BY <1>2 DEF SettledBeforeLifting, Gone
<1>4. Unpaid(i) => Present(owner(i)) /\ Exists(i)
  BY DEF Unpaid, Exists, SuspensionInv, ForeignKey
<1>5. worker[p] = "finish" /\ "PENDING" \notin MarkStatus => ~Unpaid(i) \/ ~Present(owner(i))
  BY <1>2 DEF SettledBeforeLifting, Gone, IsPaid, Unpaid, PaidStatus
<1>6. worker[p] \in {"read", "update"} => invoice[i].paid # p
  BY <1>2 DEF MoneyInv, ReferenceMatches
<1>7. Ruling(p) = NONE
  BY <1>1 DEF Ruling, Refused
<1>8. QED
  BY <1>1, <1>2, <1>3, <1>4, <1>5, <1>6, <1>7, StandingIs

LEMMA RulingIs ==
    ASSUME NEW p
    PROVE  /\ outcome'[p] \in Refused => Ruling(p)' = "refused"
           /\ outcome'[p] = "APPLIED" => Ruling(p)' = "applied"
           /\ outcome'[p] \in {"IGNORED", NONE} => Ruling(p)' = NONE
BY NullAssumption DEF Ruling, Refused, Outcome

(* Money arriving, ruled on, and set by hand. *)
LEMMA PayLedger ==
    ASSUME TypeOK, MoneyInv, SuspensionInv, SettledBeforeLifting, NoRowNoReference, PayStep
    PROVE  [Ledger!LedgerNext]_(Ledger!ledgerVars)
<1>0. /\ invoice \in [InvoiceId -> InvoiceRow(Payment)]
      /\ paidFor \in [Payment -> InvoiceId \cup {NONE}] /\ worker \in [Payment -> WorkerStep]
      /\ outcome \in [Payment -> Outcome \cup {NONE}] /\ Next
  BY DEF TypeOK, PaymentsTypeOK, Next
<1>1. \A c \in Customer : Present(c) => Present(c)'
  BY RosterStays
<1>2. ASSUME invoice' = invoice
      PROVE  RowsStill
  BY <1>0, <1>1, <1>2, RowsStay DEF Kept
<1>3. ASSUME outcome' = outcome
      PROVE  \A q \in Payment : Ruling(q)' = Ruling(q)
  BY <1>3 DEF Ruling
<1>4. ASSUME NEW p \in Payment, NEW result, NEW next, Finish(p, result, next)
      PROVE  /\ outcome'[p] = result
             /\ \A q \in Payment : q # p => Ruling(q)' = Ruling(q)
  BY <1>0, <1>4 DEF Finish, Ruling
<1>5. ASSUME invoice' = invoice, paidFor' = paidFor, outcome' = outcome
      PROVE  [Ledger!LedgerNext]_(Ledger!ledgerVars)
  BY <1>2, <1>3, <1>5, StillIsStutter DEF PaymentsStill
<1>6. ASSUME NEW p \in Payment, NEW i \in InvoiceId, CustomerPays(p, i)
      PROVE  [Ledger!LedgerNext]_(Ledger!ledgerVars)
  <2>1. Standing(i) \in {"open", "settled"}
    BY <1>6, StandingIs DEF CustomerPays, SuspensionInv, ForeignKey
  <2>2. RowsStill /\ (\A q \in Payment : Ruling(q)' = Ruling(q))
    BY <1>2, <1>3, <1>6 DEF CustomerPays, tables
  <2>3. Ledger!Pay(p, i)
    BY <1>6, <2>1, <2>2, LedgerBills DEF Ledger!Pay, CustomerPays, RowsStill
  <2>4. QED
    BY <2>3, LedgerBills DEF Ledger!LedgerNext
<1>7. ASSUME NEW p \in Payment, HandleWebhook(p)
      PROVE  [Ledger!LedgerNext]_(Ledger!ledgerVars)
  <2>1. Ruling(p) = NONE /\ Ruling(p)' = NONE
    BY <1>0, <1>7, NullAssumption, RulingIs DEF HandleWebhook, Ruling, Refused, Outcome
  <2>2. \A q \in Payment : Ruling(q)' = Ruling(q)
    BY <1>4, <1>7, <2>1 DEF HandleWebhook, Finish
  <2>3. QED
    BY <1>2, <1>7, <2>2, StillIsStutter DEF HandleWebhook, tables, PaymentsStill
<1>8. ASSUME NEW p \in Payment, worker[p] \in {"read", "update"}, NEW result \in Refused, NEW next,
             Finish(p, result, next), invoice' = invoice, paidFor' = paidFor,
             ~Unpaid(paidFor[p]) \/ Fallible
      PROVE  [Ledger!LedgerNext]_(Ledger!ledgerVars)
  <2>1. PICK i \in InvoiceId : i = paidFor[p]
    BY <1>8, WorkerLedger
  <2>2. /\ Ruling(p) = NONE /\ invoice[i].paid # p
        /\ Standing(i) \in {"settled", "gone"} \/ Fallible
    BY <1>8, <2>1, WorkerLedger
  <2>3. Ruling(p)' = "refused" /\ \A q \in Payment : q # p => Ruling(q)' = Ruling(q)
    BY <1>4, <1>8, RulingIs
  <2>4. Ledger!Refuse(p, i)
    BY <1>2, <1>8, <2>1, <2>2, <2>3, LedgerBills DEF Ledger!Refuse, Ledger!Closed, RowsStill
  <2>5. QED
    BY <2>4, LedgerBills DEF Ledger!LedgerNext
<1>9. ASSUME NEW p \in Payment, ReadInvoice(p)
      PROVE  [Ledger!LedgerNext]_(Ledger!ledgerVars)
  BY <1>5, <1>8, <1>9 DEF ReadInvoice, Refused, Unpaid, IsPaid, Exists, PaidStatus, tables
<1>10. ASSUME NEW p \in Payment, ProcessFails(p)
       PROVE  [Ledger!LedgerNext]_(Ledger!ledgerVars)
  BY <1>8, <1>10 DEF ProcessFails, Refused, tables
<1>11. ASSUME NEW p \in Payment, MarkPaidOnline(p)
       PROVE  [Ledger!LedgerNext]_(Ledger!ledgerVars)
  <2>1. PICK i \in InvoiceId : i = paidFor[p]
    BY <1>11, WorkerLedger DEF MarkPaidOnline
  <2>2. CASE Unpaid(i)
    <3>1. /\ Ruling(p) = NONE /\ invoice[i].paid # p /\ Standing(i) = "open"
      BY <1>11, <2>1, <2>2, WorkerLedger DEF MarkPaidOnline
    <3>2. /\ invoice'[i].status = "PAID_ONLINE" /\ invoice'[i].paid = p
          /\ \A j \in InvoiceId : j # i => invoice'[j] = invoice[j]
      BY <1>0, <1>11, <2>1, <2>2 DEF MarkPaidOnline, SettledOnline, InvoiceRow
    <3>3. customer' = customer
      BY <1>11 DEF MarkPaidOnline
    <3>4. Standing(i)' = "settled"
      BY <3>1, <3>2, <3>3, StandingIs DEF Present, Exists, Unpaid
    <3>5. \A j \in InvoiceId : j # i => Standing(j)' = Standing(j)
      BY <3>2, <3>3, StandingIs DEF Present, Exists, Unpaid
    <3>6. \A q \in Payment : Ruling(q)' = Ruling(q)
      BY <1>3, <1>11 DEF MarkPaidOnline
    <3>7. Ledger!Settle(p, i)
      BY <1>11, <2>1, <3>1, <3>2, <3>4, <3>5, <3>6, LedgerBills DEF Ledger!Settle, MarkPaidOnline
    <3>8. QED
      BY <3>7, LedgerBills DEF Ledger!LedgerNext
  <2>3. CASE ~Unpaid(i)
    BY <1>5, <1>11, <2>1, <2>3 DEF MarkPaidOnline, SettledOnline
  <2>4. QED
    BY <2>2, <2>3
<1>12. ASSUME NEW p \in Payment, FinishApplied(p)
       PROVE  [Ledger!LedgerNext]_(Ledger!ledgerVars)
  <2>1. CASE Finish(p, outcome[p], "onPaid")
    BY <1>0, <1>5, <1>12, <2>1 DEF FinishApplied, Finish, tables
  <2>2. CASE Finish(p, "APPLIED", "onPaid")
    <3>1. PICK i \in InvoiceId : i = paidFor[p]
      BY <1>12, WorkerLedger DEF FinishApplied
    <3>2. /\ Ruling(p) = NONE
          /\ Standing(i) \in {"settled", "gone"} \/ "PENDING" \in MarkStatus
      BY <1>12, <3>1, WorkerLedger DEF FinishApplied
    <3>3. Ruling(p)' = "applied" /\ \A q \in Payment : q # p => Ruling(q)' = Ruling(q)
      BY <1>4, <2>2, RulingIs
    <3>4. Ledger!Apply(p, i)
      BY <1>2, <1>12, <3>1, <3>2, <3>3, LedgerBills
      DEF Ledger!Apply, Ledger!Closed, RowsStill, FinishApplied, tables
    <3>5. QED
      BY <3>4, LedgerBills DEF Ledger!LedgerNext
  <2>3. QED
    BY <1>12, <2>1, <2>2 DEF FinishApplied
<1>13. ASSUME NEW i \in InvoiceId, NEW s \in MarkStatus, MarkPaid(i, s)
       PROVE  [Ledger!LedgerNext]_(Ledger!ledgerVars)
  <2> DEFINE standing == IF s = "PENDING" THEN "open" ELSE "settled"
  <2>1. Present(owner(i)) /\ Exists(i) /\ s \in InvoiceStatus
    BY <1>13, PaymentsAssumption DEF MarkPaid, SuspensionInv, ForeignKey, allowedInvoiceStatus
  <2>2. /\ invoice'[i].status = s
        /\ \A j \in InvoiceId : invoice'[j].paid = invoice[j].paid
        /\ \A j \in InvoiceId : j # i => invoice'[j] = invoice[j]
    BY <1>0, <1>13 DEF MarkPaid, InvoiceRow
  <2>3. customer' = customer
    BY <1>13 DEF MarkPaid
  <2>4. Standing(i) \in {"open", "settled"} /\ (Standing(i) = "settled" => ~Unpaid(i))
    BY <2>1, StandingIs
  <2>5. Standing(i)' = standing
    BY <2>1, <2>2, <2>3, StandingIs DEF Present, Exists, Unpaid, InvoiceStatus, PaidStatus
  <2>6. \A j \in InvoiceId : j # i => Standing(j)' = Standing(j)
    BY <2>2, <2>3, StandingIs DEF Present, Exists, Unpaid
  <2>7. PaymentsStill
    BY <1>3, <1>13 DEF MarkPaid, paymentVars, PaymentsStill
  <2>8. standing = "open" => "PENDING" \in MarkStatus
    OBVIOUS
  <2> HIDE DEF standing
  <2>9. Ledger!MarkByHand(i, standing)
    BY <2>2, <2>4, <2>5, <2>6, <2>7, <2>8, LedgerBills DEF Ledger!MarkByHand, PaymentsStill
  <2>10. standing \in {"open", "settled"}
    BY DEF standing
  <2>11. QED
    BY <2>9, <2>10, LedgerBills DEF Ledger!LedgerNext
<1>14. QED
  BY <1>5, <1>6, <1>7, <1>9, <1>10, <1>11, <1>12, <1>13
  DEF PayStep, PaymentsStep, ProcessStep, OnPaid, OnPaidFails, tables

LEMMA LedgerInitially ==
    ASSUME Init
    PROVE  NoRowNoReference /\ Ledger!LedgerInit
<1>1. \A i \in InvoiceId : owner(i) \in Customer /\ invoice[i] = NoInvoice
  BY DEF Init, TablesInit, InvoiceId, owner
<1>2. \A c \in Customer : Present(c)
  <2> DEFINE Row(s) == [NoCustomer EXCEPT !.status = s, !.isActive = (s = "active")]
  <2>1. \A s \in {"pending", "active", "disabled"} : Row(s).status = s
    BY DEF NoCustomer
  <2>2. customer \in [Customer -> {Row(s) : s \in {"pending", "active", "disabled"}}]
    BY DEF Init, TablesInit
  <2> HIDE DEF Row
  <2>3. QED
    BY <2>1, <2>2 DEF Present
<1>3. \A i \in InvoiceId : ~Exists(i) /\ invoice[i].paid = NONE
  BY <1>1 DEF NoInvoice, Exists
<1>4. \A i \in InvoiceId : Standing(i) = "none"
  BY <1>1, <1>2, <1>3, StandingIs
<1>5. \A p \in Payment : Ruling(p) = NONE
  BY NullAssumption DEF Init, PaymentsInit, Ruling, Refused, Outcome
<1>6. Ledger!LedgerInit
  <2>1. paidFor = [p \in Payment |-> NONE]
    BY DEF Init, PaymentsInit
  <2>2. [i \in InvoiceId |-> Standing(i)] = [b \in InvoiceId |-> "none"]
    BY <1>4
  <2>3. [i \in InvoiceId |-> invoice[i].paid] = [b \in InvoiceId |-> NONE]
    BY <1>3
  <2>4. [p \in Payment |-> Ruling(p)] = [p \in Payment |-> NONE]
    BY <1>5
  <2>5. QED
    BY <2>1, <2>2, <2>3, <2>4, LedgerBills DEF Ledger!LedgerInit
<1>7. QED
  BY <1>3, <1>6 DEF NoRowNoReference

(* The cycle implements the ledger: every step of the sweeper, the admin,  *)
(* the webhook's goroutines, the messages, the calendar and a crash is a   *)
(* step of PaymentLedger or changes nothing the ledger sees.  (process,    *)
(* the re-check in its UPDATE, finish, MarkPaid, account deletion)         *)
THEOREM CycleImplementsLedger == Spec => PaymentsFollowTheLedger
<1>1. Init => NoRowNoReference /\ Ledger!LedgerInit
  BY LedgerInitially
<1>2. ASSUME TypeOK, SuspensionInv, NoRowNoReference, [Next]_vars
      PROVE  NoRowNoReference'
  <2>1. CASE UNCHANGED vars
    BY <1>2, <2>1 DEF vars, tables, NoRowNoReference, Exists
  <2>2. QED
    BY <1>2, <2>1, ReferenceStep
<1>3. ASSUME TypeOK, MoneyInv, SuspensionInv, SettledBeforeLifting, NoRowNoReference, [Next]_vars
      PROVE  [Ledger!LedgerNext]_(Ledger!ledgerVars)
  <2>1. CASE UNCHANGED vars
    <3>1. RowsStill
      BY <2>1, StandingIs DEF vars, tables, RowsStill, Present, Exists, Unpaid
    <3>2. PaymentsStill
      BY <2>1 DEF vars, paymentVars, PaymentsStill, Ruling
    <3>3. QED
      BY <3>1, <3>2, StillIsStutter
  <2>2. CASE Next
    BY <1>3, <2>2, BillingLedger, OtherLedger, PayLedger, AccountsLedger DEF Next
  <2>3. QED
    BY <1>3, <2>1, <2>2
<1>4. QED
  BY <1>1, <1>2, <1>3, SettledAlways, PTL DEF Spec, PaymentsFollowTheLedger, Ledger!LedgerSpec
=============================================================================

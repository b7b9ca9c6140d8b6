---------------------------- MODULE BillsProofs ----------------------------
(***************************************************************************)
(* What customers are sent, for any number of customers, months and days:  *)
(* bills of committed invoices, marked only when they went out, by the     *)
(* automated run once, and reminders once a day.                           *)
(***************************************************************************)
EXTENDS ChaseProofs

(* Only a deleted account takes an invoice away, and for good.             *)

LEMMA HereOrGone ==
    ASSUME TypeOK, SuspensionInv, Next, NEW i \in InvoiceId, Exists(i) \/ ~Present(owner(i))
    PROVE  (Exists(i) \/ ~Present(owner(i)))'
<1>1. owner(i) \in Customer /\ ForeignKey
  BY DEF InvoiceId, owner, SuspensionInv
<1>2. QED
  BY <1>1, GoneStaysGone, ExistsUntilGone

-----------------------------------------------------------------------------
(* Bills queued, sent and marked.                                         *)
BillsInv ==
    /\ \A i \in InvoiceId : invoice[i].billSentAt => billsSent[i] >= 1
    /\ \A r \in Runner, i \in InvoiceId :
          job[r].phase = "sending" /\ i \in job[r].doing => billsSent[i] >= 1
    /\ QueuedBillsAreInvoices

NotBilling == {"idle", "claimed", "tallied", "remind", "suspend"}

(* A step that sends no bill, or counts it, and queues none. *)
BillsKept ==
    /\ \A i \in InvoiceId : billsSent'[i] >= billsSent[i]
    /\ \A i \in InvoiceId : invoice'[i].billSentAt => invoice[i].billSentAt
    /\ \A r \in Runner : \/ job'[r].phase \in NotBilling
                         \/ job'[r] = job[r]

LEMMA BillsKeptKeeps ==
    TypeOK /\ SuspensionInv /\ BillsInv /\ Next /\ BillsKept => BillsInv'
<1> SUFFICES ASSUME TypeOK, SuspensionInv, BillsInv, Next, BillsKept
             PROVE  BillsInv'
  OBVIOUS
<1>1. /\ \A i \in InvoiceId : billsSent[i] \in Nat
      /\ TypeOK'
  <2>1. TypeOK'
    BY BillingTyped, ChaseTyped, PayTyped, AccountsTyped, NextDayTyped, CrashTyped DEF Next
  <2>2. QED
    BY <2>1 DEF TypeOK, BillRunTypeOK
<1>2. \A i \in InvoiceId : billsSent'[i] \in Nat
  BY <1>1 DEF TypeOK, BillRunTypeOK
<1>3. \A i \in InvoiceId : billsSent[i] >= 1 => billsSent'[i] >= 1
  BY <1>1, <1>2 DEF BillsKept
<1>4. \A i \in InvoiceId : invoice'[i].billSentAt => billsSent'[i] >= 1
  BY <1>3 DEF BillsKept, BillsInv
<1>5. ASSUME NEW r \in Runner, NEW i \in InvoiceId, job'[r].phase = "sending", i \in job'[r].doing
      PROVE  billsSent'[i] >= 1
  BY <1>3, <1>5 DEF BillsKept, BillsInv, NotBilling
<1>6. QueuedBillsAreInvoices'
  BY HereOrGone DEF BillsKept, BillsInv, NotBilling, QueuedBillsAreInvoices
<1>7. QED
  BY <1>4, <1>5, <1>6 DEF BillsInv

(* Outside the billing, bills are not sent, the admin's run does not move, *)
(* and the sweeper starts to bill only by claiming the day.                *)
LEMMA JobElsewhere ==
    ASSUME TypeOK, ChaseStep \/ PayStep \/ AccountsStep \/ NextDay \/ Crash
    PROVE  /\ billsSent' = billsSent
           /\ job'["admin"] \in {job["admin"], Idle}
           /\ \/ sweep' = sweep
              \/ sweep'.phase \in {"idle", "remind", "suspend"}
              \/ TickGenerate /\ sweep'.phase = "claimed"
<1>0. job \in [Runner -> Job] /\ "sweeper" \in Runner /\ "admin" \in Runner
  BY DEF TypeOK, BillRunTypeOK, Runner
<1>1. billsSent' = billsSent
  BY DEF ChaseStep, SweepStep, Tick, TickGenerate, ClaimGenerate, TickRemind, TickSuspend,
     StartSweep, TargetStep, MarkReminded, SendPaymentReminder, SuspendCustomer, StampSuspended,
     TargetFails, EndSweep, PayStep, PaymentsStep, CustomerPays, HandleWebhook, ProcessStep,
     ReadInvoice, MarkPaidOnline, ProcessFails, FinishApplied, OnPaid, OnPaidFails, MarkPaid,
     AccountsStep, HandleIncomingMessage, ChatStep, Approve, Reject, CheckDelete, Delete,
     DeleteFails, handleDisableAccount, handleReactivateAccount, handleDeleteAccount,
     pauseForExit, EraseAccount, MessageFails, NextDay, Crash, billRunVars
<1>2. CASE ChaseStep
  <2>1. ASSUME NEW phase, NEW todo, NEW doing, NEW m,
               \/ Continue("sweeper", phase, todo, doing) \/ Start("sweeper", phase, m, todo)
        PROVE  sweep'.phase = phase /\ job'["admin"] = job["admin"]
    BY <1>0, <2>1 DEF Continue, Start, sweep
  <2>2. ASSUME Rest("sweeper")
        PROVE  sweep'.phase = "idle" /\ job'["admin"] = job["admin"]
    BY <1>0, <2>2 DEF Rest, Idle, sweep
  <2>3. CASE TickGenerate
    BY <2>1, <2>3 DEF TickGenerate, ClaimGenerate, sweep
  <2>4. QED
    BY <1>1, <1>2, <2>1, <2>2, <2>3 DEF ChaseStep, SweepStep, Tick, TickRemind, TickSuspend,
       StartSweep, TargetStep, MarkReminded, SendPaymentReminder, SuspendCustomer,
       StampSuspended, TargetFails, EndSweep, sweep
<1>3. CASE PayStep \/ AccountsStep \/ NextDay \/ Crash
  <2>1. job' = job \/ job' = [r \in Runner |-> Idle]
    BY <1>3 DEF PayStep, PaymentsStep, CustomerPays, HandleWebhook, ProcessStep, ReadInvoice,
       MarkPaidOnline, ProcessFails, FinishApplied, OnPaid, OnPaidFails, MarkPaid, AccountsStep,
       HandleIncomingMessage, ChatStep, Approve, Reject, CheckDelete, Delete, DeleteFails,
       handleDisableAccount, handleReactivateAccount, handleDeleteAccount, pauseForExit,
       EraseAccount, MessageFails, NextDay, Crash, billRunVars
  <2>2. QED
    BY <1>0, <1>1, <2>1 DEF Idle, sweep
<1>4. QED
  BY <1>2, <1>3

LEMMA BillsElsewhere ==
    TypeOK /\ (ChaseStep \/ PayStep \/ AccountsStep \/ NextDay \/ Crash) => BillsKept
<1> SUFFICES ASSUME TypeOK, ChaseStep \/ PayStep \/ AccountsStep \/ NextDay \/ Crash
             PROVE  BillsKept
  OBVIOUS
<1>0. /\ invoice \in [InvoiceId -> InvoiceRow(Payment)] /\ job \in [Runner -> Job]
      /\ \A i \in InvoiceId : billsSent[i] \in Nat
      /\ "sweeper" \in Runner
  BY DEF TypeOK, BillRunTypeOK, Runner
<1>1. /\ billsSent' = billsSent
      /\ \A r \in Runner : job'[r].phase \in NotBilling \/ job'[r] = job[r]
  BY JobElsewhere DEF Runner, NotBilling, Idle, sweep
<1>2. CASE ChaseStep
  <2>1. \A i \in InvoiceId : invoice'[i].billSentAt = invoice[i].billSentAt
    <3>1. ASSUME NEW i \in InvoiceId
          PROVE  Reminded(invoice[i]).billSentAt = invoice[i].billSentAt
      <4>1. invoice[i] \in InvoiceRow(Payment)
        BY <1>0
      <4> DEFINE n == invoice[i].reminderCount + 1
      <4> HIDE DEF n
      <4>2. [invoice[i] EXCEPT !.lastReminderOn = today, !.reminderCount = n].billSentAt
               = invoice[i].billSentAt
        BY <4>1 DEF InvoiceRow
      <4>3. QED
        BY <4>2 DEF Reminded, n
    <3>2. ASSUME NEW j \in InvoiceId, MarkReminded(j) \/ StampSuspended(j)
          PROVE  \A i \in InvoiceId : invoice'[i].billSentAt = invoice[i].billSentAt
      <4>1. \/ invoice' = invoice \/ invoice' = [invoice EXCEPT ![j].suspendedAt = TRUE]
            \/ invoice' = [invoice EXCEPT ![j] = Reminded(invoice[j])]
        BY <3>2 DEF MarkReminded, StampSuspended
      <4>2. QED
        BY <1>0, <3>1, <4>1 DEF InvoiceRow
    <3>3. QED
      BY <1>2, <3>2 DEF ChaseStep, SweepStep, Tick, TickGenerate, ClaimGenerate, TickRemind,
         TickSuspend, StartSweep, TargetStep, SendPaymentReminder, SuspendCustomer, TargetFails,
         EndSweep, tables
  <2>2. QED
    BY <1>0, <1>1, <2>1 DEF BillsKept
<1>3. CASE PayStep \/ AccountsStep \/ NextDay \/ Crash
  <2>1. ASSUME NEW i \in InvoiceId
        PROVE  invoice'[i].billSentAt => invoice[i].billSentAt
    <3>1. ASSUME NEW d \in Customer, Erase(d)
          PROVE  invoice'[i].billSentAt => invoice[i].billSentAt
      BY <3>1 DEF Erase, NoInvoice
    <3>2. ASSUME NEW j \in InvoiceId, NEW s, NEW p,
                 \/ invoice' = [invoice EXCEPT ![j].status = s]
                 \/ invoice' = [invoice EXCEPT ![j].status = "PAID_ONLINE", ![j].paid = p]
          PROVE  invoice'[i].billSentAt => invoice[i].billSentAt
      BY <1>0, <3>2 DEF InvoiceRow
    <3>3. ASSUME NEW p \in Payment, MarkPaidOnline(p)
          PROVE  invoice'[i].billSentAt => invoice[i].billSentAt
      BY <1>0, <3>3 DEF MarkPaidOnline, SettledOnline, InvoiceRow
    <3>4. QED
      BY <1>3, <3>1, <3>2, <3>3 DEF PayStep, PaymentsStep, CustomerPays, HandleWebhook,
         ProcessStep, ReadInvoice, ProcessFails, FinishApplied, OnPaid, OnPaidFails, MarkPaid,
         AccountsStep, HandleIncomingMessage, ChatStep, Approve, Reject, CheckDelete, Delete,
         DeleteFails, handleDisableAccount, handleReactivateAccount, handleDeleteAccount,
         pauseForExit, EraseAccount, MessageFails, NextDay, Crash, tables
  <2>2. QED
    BY <1>0, <1>1, <2>1 DEF BillsKept
<1>4. QED
  BY <1>2, <1>3

LEMMA BillsBilling ==
    TypeOK /\ SuspensionInv /\ BillsInv /\ BillingStep => BillsInv'
<1> SUFFICES ASSUME TypeOK, SuspensionInv, BillsInv, BillingStep PROVE BillsInv'
  OBVIOUS
<1>0. /\ invoice \in [InvoiceId -> InvoiceRow(Payment)] /\ job \in [Runner -> Job]
      /\ billsSent \in [InvoiceId -> Nat]
      /\ "sweeper" \in Runner /\ "admin" \in Runner
  BY DEF TypeOK, BillRunTypeOK, Runner
<1>1. ASSUME BillsKept PROVE BillsInv'
  BY <1>1, BillsKeptKeeps DEF Next
<1>2. ASSUME UNCHANGED <<invoice, billsSent>>, NEW r \in Runner,
             job'[r].phase \in NotBilling, \A q \in Runner : q # r => job'[q] = job[q]
      PROVE  BillsInv'
  <2>1. BillsKept
    BY <1>0, <1>2 DEF BillsKept
  <2>2. QED
    BY <1>1, <2>1
<1>3. CASE dunningGenerate
  BY <1>0, <1>2, <1>3 DEF Continue, Start, Rest, dunningGenerate, NotBilling, tables
<1>4. ASSUME NEW m \in BilledMonth, Generate(m)
      PROVE  BillsInv'
  BY <1>0, <1>2, <1>4 DEF Continue, Start, Rest, Generate, NotBilling, tables
<1>5. ASSUME NEW i \in InvoiceId, LateDelivery(i)
      PROVE  BillsInv'
  <2>1. BillsKept
    BY <1>0, <1>5 DEF LateDelivery, BillsKept, tables
  <2>2. QED
    BY <1>1, <2>1
<1>6. ASSUME NEW c \in Customer, FinalInvoice(c)
      PROVE  BillsInv'
  <2>1. \A i \in InvoiceId : billsSent'[i] >= billsSent[i]
    BY <1>0, <1>6 DEF FinalInvoice
  <2>2. \A i \in InvoiceId : invoice'[i].billSentAt => invoice[i].billSentAt
    BY <1>0, <1>6 DEF FinalInvoice, FreshInvoice, NoInvoice
  <2>3. job' = job
    BY <1>6 DEF FinalInvoice
  <2>4. BillsKept
    BY <2>1, <2>2, <2>3 DEF BillsKept
  <2>5. QED
    BY <1>1, <2>4
<1>7. ASSUME NEW r \in Runner, RunnerStep(r)
      PROVE  BillsInv'
  <2>0. \A q \in Runner, i \in InvoiceId :
           job[q].phase \in {"committed", "sending"} /\ i \in job[q].todo \cup job[q].doing =>
               (Exists(i) \/ ~Present(owner(i)))'
    BY HereOrGone DEF Next, BillsInv, QueuedBillsAreInvoices
  <2>1. CASE GenerateFails(r) \/ recordBillRun(r)
    <3>1. UNCHANGED <<invoice, billsSent>> /\ Rest(r)
      BY <2>1 DEF GenerateFails, recordBillRun, tables
    <3>2. job'[r].phase \in NotBilling /\ \A q \in Runner : q # r => job'[q] = job[q]
      BY <1>0, <3>1 DEF Rest, NotBilling, Idle
    <3>3. QED
      BY <1>2, <3>1, <3>2
  <2>2. CASE InsertInvoices(r)
    <3>1. billsSent' = billsSent
      BY <2>2 DEF InsertInvoices
    <3>2. \A i \in InvoiceId : invoice'[i].billSentAt => invoice[i].billSentAt
      BY <1>0, <2>2 DEF InsertInvoices, FreshInvoice, NoInvoice
    <3>3. \A i \in job[r].todo : i \in InvoiceId => Exists(i)'
      BY <1>0, <2>2 DEF InsertInvoices, Exists, FreshInvoice, NoInvoice
    <3>4. /\ \/ job'[r] = Idle
             \/ job'[r] = [phase |-> "committed", month |-> job[r].month,
                           todo |-> job[r].todo, doing |-> {}]
          /\ \A q \in Runner : q # r => job'[q] = job[q]
      BY <1>0, <2>2 DEF Continue, Start, Rest, InsertInvoices
    <3>5. \A i \in InvoiceId : invoice'[i].billSentAt => billsSent'[i] >= 1
      BY <3>1, <3>2 DEF BillsInv
    <3>6. \A q \in Runner, i \in InvoiceId :
             job'[q].phase = "sending" /\ i \in job'[q].doing => billsSent'[i] >= 1
      BY <3>1, <3>4 DEF BillsInv, Idle
    <3>7. QueuedBillsAreInvoices'
      BY <2>0, <3>3, <3>4 DEF QueuedBillsAreInvoices, Idle
    <3>8. QED
      BY <3>5, <3>6, <3>7 DEF BillsInv
  <2>3. CASE notifyFreshInvoices(r)
    <3> DEFINE queue == {i \in job[r].todo : Exists(i) /\ ~invoice[i].billSentAt}
    <3>1. UNCHANGED <<invoice, customer, billsSent>> /\ job[r].phase = "committed"
      BY <2>3 DEF notifyFreshInvoices, tables
    <3>2. /\ \/ job'[r] = Idle
             \/ job'[r] = [phase |-> "sending", month |-> job[r].month,
                           todo |-> queue, doing |-> {}]
          /\ \A q \in Runner : q # r => job'[q] = job[q]
      BY <1>0, <2>3 DEF Continue, Start, Rest, notifyFreshInvoices
    <3>3. \A i \in InvoiceId : invoice'[i].billSentAt => billsSent'[i] >= 1
      BY <3>1 DEF BillsInv
    <3>4. \A q \in Runner, i \in InvoiceId :
             job'[q].phase = "sending" /\ i \in job'[q].doing => billsSent'[i] >= 1
      BY <3>1, <3>2 DEF BillsInv, Idle
    <3>5. QueuedBillsAreInvoices'
      BY <2>0, <3>1, <3>2 DEF QueuedBillsAreInvoices, Idle, Exists
    <3>6. QED
      BY <3>3, <3>4, <3>5 DEF BillsInv
  <2>4. ASSUME NEW j \in InvoiceId, notifyBill(r, j) \/ MarkBillSent(r, j) \/ SendFails(r, j)
        PROVE  BillsInv'
    <3>1. /\ job[r].phase = "sending" /\ job'[r].phase = "sending"
          /\ job'[r].todo \subseteq job[r].todo
          /\ job'[r].todo \cup job'[r].doing \subseteq job[r].todo \cup job[r].doing
          /\ \A q \in Runner : q # r => job'[q] = job[q]
      BY <1>0, <2>4 DEF Continue, Start, Rest, notifyBill, MarkBillSent, SendFails
    <3>2. QueuedBillsAreInvoices'
      BY <2>0, <3>1 DEF QueuedBillsAreInvoices
    <3>3. /\ \A i \in InvoiceId : billsSent[i] >= 1 => billsSent'[i] >= 1
          /\ \A i \in job'[r].doing : i \in job[r].doing \/ billsSent'[i] >= 1
      BY <1>0, <2>4 DEF Continue, Start, Rest, notifyBill, MarkBillSent, SendFails
    <3>4. \A q \in Runner, i \in InvoiceId :
             job'[q].phase = "sending" /\ i \in job'[q].doing => billsSent'[i] >= 1
      BY <3>1, <3>3 DEF BillsInv
    <3>5. \A i \in InvoiceId :
             invoice'[i].billSentAt => invoice[i].billSentAt \/ i \in job[r].doing
      <4>1. CASE MarkBillSent(r, j)
        BY <1>0, <4>1 DEF MarkBillSent, InvoiceRow
      <4>2. CASE ~MarkBillSent(r, j)
        BY <2>4, <4>2 DEF notifyBill, SendFails, tables
      <4>3. QED
        BY <4>1, <4>2
    <3>6. \A i \in InvoiceId : invoice'[i].billSentAt => billsSent'[i] >= 1
      BY <3>1, <3>3, <3>5 DEF BillsInv
    <3>7. QED
      BY <3>2, <3>4, <3>6 DEF BillsInv
  <2>5. QED
    BY <1>7, <2>1, <2>2, <2>3, <2>4 DEF RunnerStep, SendStep
<1>8. QED
  BY <1>3, <1>4, <1>5, <1>6, <1>7 DEF BillingStep

LEMMA BillsAlways == Spec => []BillsInv
<1>1. Init => BillsInv
  BY DEF Init, TablesInit, BillRunInit, BillsInv, QueuedBillsAreInvoices, NoInvoice, Idle
<1>2. TypeOK /\ SuspensionInv /\ BillsInv /\ [Next]_vars => BillsInv'
  <2>1. TypeOK /\ SuspensionInv /\ BillsInv /\ Next => BillsInv'
    BY BillsBilling, BillsElsewhere, BillsKeptKeeps DEF Next
  <2>2. BillsInv /\ UNCHANGED vars => BillsInv'
    BY DEF vars, tables, billRunVars, BillsInv, QueuedBillsAreInvoices, Exists, Present
  <2>3. QED
    BY <2>1, <2>2
<1>3. QED
  BY <1>1, <1>2, SuspensionAlways, PTL DEF Spec

(* bill_sent_at is never set for a bill that did not go out, however the   *)
(* runs, the failures and the crashes fall. (sendOneBill)                  *)
THEOREM MarkersAreTrue == Spec => []MarkedBillsWentOut
<1>1. BillsInv => MarkedBillsWentOut
  BY DEF BillsInv, MarkedBillsWentOut
<1>2. QED
  BY <1>1, BillsAlways, PTL

(* Whatever is queued or on its way to be billed has its committed invoice *)
(* row, unless its account was deleted under the run.                      *)
(* (InsertInvoices, the bill_sent_at selection, account deletion)          *)
THEOREM QueueCorrect == Spec => []QueuedBillsAreInvoices
<1>1. BillsInv => QueuedBillsAreInvoices
  BY DEF BillsInv
<1>2. QED
  BY <1>1, BillsAlways, PTL

-----------------------------------------------------------------------------
(* Two runs of one month.  A run has a bill in its queue or on its way,    *)
(* not both; so the run that marks a bill no longer has it queued, and the *)
(* other run is the only one that may.                                     *)
QueueInv ==
    /\ \A r \in Runner : job[r].phase = "sending" => job[r].todo \cap job[r].doing = {}
    /\ \A i \in InvoiceId : invoice[i].billSentAt => \A r, s \in Queued(i) : r = s

(* What a step may do to a bill whose marker is set. *)
LastOne(i) ==
    Exists(i) /\ invoice[i].billSentAt =>
        /\ Queued(i)' \subseteq Queued(i)
        /\ billsSent'[i] # billsSent[i] => Queued(i)' = {}

LEMMA QueueKept ==
    ASSUME TypeOK, QueueInv, BillsKept,
           \A i \in InvoiceId : Exists(i) => billsSent'[i] = billsSent[i]
    PROVE  QueueInv' /\ \A i \in InvoiceId : LastOne(i)
<1>1. \A r \in Runner : job'[r].phase = "sending" => job'[r] = job[r]
  BY DEF BillsKept, NotBilling
<1>2. \A i \in InvoiceId : Queued(i)' \subseteq Queued(i)
  BY <1>1 DEF Queued
<1>3. QED
  BY <1>1, <1>2 DEF QueueInv, BillsKept, LastOne

LEMMA QueueSends ==
    ASSUME TypeOK, QueueInv, NEW r \in Runner, NEW j \in InvoiceId,
           notifyBill(r, j) \/ MarkBillSent(r, j) \/ SendFails(r, j)
    PROVE  QueueInv' /\ \A i \in InvoiceId : LastOne(i)
<1>0. /\ invoice \in [InvoiceId -> InvoiceRow(Payment)] /\ job \in [Runner -> Job]
      /\ billsSent \in [InvoiceId -> Nat]
  BY DEF TypeOK, BillRunTypeOK
<1>1. /\ job[r].phase = "sending" /\ job'[r].phase = "sending"
      /\ job'[r].todo \subseteq job[r].todo
      /\ \A q \in Runner : q # r => job'[q] = job[q]
  BY <1>0 DEF Continue, notifyBill, MarkBillSent, SendFails
<1>2. job'[r].todo \cap job'[r].doing = {}
  <2>1. job[r].todo \cap job[r].doing = {}
    BY <1>1 DEF QueueInv
  <2>2. \/ job'[r].todo = job[r].todo \ {j} /\ job'[r].doing = job[r].doing \cup {j}
        \/ job'[r].doing \subseteq job[r].doing
    BY <1>0 DEF Continue, notifyBill, MarkBillSent, SendFails
  <2>3. QED
    BY <1>1, <2>1, <2>2
<1>3. \A i \in InvoiceId : Queued(i)' \subseteq Queued(i)
  BY <1>1 DEF Queued
<1>4. CASE notifyBill(r, j)
  <2>1. /\ j \in job[r].todo /\ j \notin job'[r].todo /\ invoice' = invoice
        /\ billsSent' = [billsSent EXCEPT ![j] = billsSent[j] + 1]
    BY <1>0, <1>4 DEF notifyBill, Continue, tables
  <2>2. r \in Queued(j) /\ r \notin Queued(j)'
    BY <1>1, <2>1 DEF Queued
  <2>3. ASSUME invoice[j].billSentAt
        PROVE  Queued(j)' = {}
    BY <1>3, <2>2, <2>3 DEF QueueInv
  <2>4. \A i \in InvoiceId : LastOne(i)
    BY <1>0, <1>3, <2>1, <2>3 DEF LastOne
  <2>5. QueueInv'
    BY <1>1, <1>2, <1>3, <2>1 DEF QueueInv
  <2>6. QED
    BY <2>4, <2>5
<1>5. CASE MarkBillSent(r, j)
  <2>1. /\ j \in job[r].doing /\ billsSent' = billsSent
        /\ \A i \in InvoiceId : i # j => invoice'[i] = invoice[i]
    BY <1>0, <1>5 DEF MarkBillSent
  <2>2. r \notin Queued(j)
    BY <1>1, <2>1 DEF QueueInv, Queued
  <2>3. \A q, s \in Queued(j) : q = s
    BY <2>2 DEF Queued, Runner
  <2>4. QueueInv'
    BY <1>1, <1>2, <1>3, <2>1, <2>3 DEF QueueInv
  <2>5. QED
    BY <1>3, <2>1, <2>4 DEF LastOne
<1>6. CASE SendFails(r, j)
  <2>1. invoice' = invoice /\ billsSent' = billsSent
    BY <1>6 DEF SendFails, tables
  <2>2. QueueInv'
    BY <1>1, <1>2, <1>3, <2>1 DEF QueueInv
  <2>3. QED
    BY <1>3, <2>1, <2>2 DEF LastOne
<1>7. QED
  BY <1>4, <1>5, <1>6

LEMMA QueueBilling ==
    ASSUME TypeOK, QueueInv, BillingStep
    PROVE  QueueInv' /\ \A i \in InvoiceId : LastOne(i)
<1> DEFINE Goal == QueueInv' /\ \A i \in InvoiceId : LastOne(i)
<1>0. /\ invoice \in [InvoiceId -> InvoiceRow(Payment)] /\ job \in [Runner -> Job]
      /\ billsSent \in [InvoiceId -> Nat]
      /\ "sweeper" \in Runner /\ "admin" \in Runner
  BY DEF TypeOK, BillRunTypeOK, Runner
<1>1. ASSUME billsSent' = billsSent, NEW r \in Runner,
             \A i \in InvoiceId : invoice'[i].billSentAt => invoice[i].billSentAt,
             job'[r].phase \in NotBilling \/ job'[r] = job[r],
             \A q \in Runner : q # r => job'[q] = job[q]
      PROVE  Goal
  <2>1. BillsKept
    BY <1>0, <1>1 DEF BillsKept
  <2>2. QED
    BY <1>1, <2>1, QueueKept
<1>2. CASE dunningGenerate
  BY <1>0, <1>1, <1>2 DEF Continue, dunningGenerate, NotBilling, tables
<1>3. ASSUME NEW m \in BilledMonth, Generate(m)
      PROVE  Goal
  BY <1>0, <1>1, <1>3 DEF Start, Generate, NotBilling, tables
<1>4. ASSUME NEW i \in InvoiceId, LateDelivery(i)
      PROVE  Goal
  BY <1>0, <1>1, <1>4 DEF LateDelivery, tables
<1>5. ASSUME NEW c \in Customer, FinalInvoice(c)
      PROVE  Goal
  <2>1. /\ \A i \in InvoiceId : billsSent'[i] >= billsSent[i]
        /\ \A i \in InvoiceId : invoice'[i].billSentAt => invoice[i].billSentAt
        /\ job' = job
    BY <1>0, <1>5 DEF FinalInvoice, FreshInvoice, NoInvoice
  <2>2. \A i \in InvoiceId : Exists(i) => billsSent'[i] = billsSent[i]
    BY <1>0, <1>5 DEF FinalInvoice
  <2>3. BillsKept
    BY <2>1 DEF BillsKept
  <2>4. QED
    BY <2>2, <2>3, QueueKept
<1>6. ASSUME NEW r \in Runner, RunnerStep(r)
      PROVE  Goal
  <2>1. CASE GenerateFails(r) \/ recordBillRun(r)
    <3>1. UNCHANGED <<invoice, billsSent>> /\ Rest(r)
      BY <2>1 DEF GenerateFails, recordBillRun, tables
    <3>2. job'[r].phase \in NotBilling /\ \A q \in Runner : q # r => job'[q] = job[q]
      BY <1>0, <3>1 DEF Rest, NotBilling, Idle
    <3>3. QED
      BY <1>1, <3>1, <3>2
  <2>2. CASE InsertInvoices(r)
    <3>1. /\ billsSent' = billsSent /\ job'[r].phase \in {"idle", "committed"}
          /\ \A q \in Runner : q # r => job'[q] = job[q]
      BY <1>0, <2>2 DEF InsertInvoices, Continue, Rest, Idle
    <3>2. \A i \in InvoiceId : invoice'[i].billSentAt => invoice[i].billSentAt
      BY <1>0, <2>2 DEF InsertInvoices, FreshInvoice, NoInvoice
    <3>3. \A i \in InvoiceId : Queued(i)' \subseteq Queued(i)
      BY <3>1 DEF Queued
    <3>4. QueueInv'
      BY <3>1, <3>2, <3>3 DEF QueueInv
    <3>5. QED
      BY <3>1, <3>3, <3>4 DEF LastOne
  <2>3. CASE notifyFreshInvoices(r)
    <3>1. /\ UNCHANGED <<invoice, billsSent>> /\ job[r].phase = "committed"
          /\ \A q \in Runner : q # r => job'[q] = job[q]
          /\ job'[r].doing = {}
          /\ \A i \in job'[r].todo : ~invoice[i].billSentAt
      BY <1>0, <2>3 DEF notifyFreshInvoices, Continue, Rest, Idle, tables
    <3>2. \A i \in InvoiceId : invoice[i].billSentAt => Queued(i)' \subseteq Queued(i)
      BY <3>1 DEF Queued
    <3>3. QueueInv'
      BY <3>1, <3>2 DEF QueueInv
    <3>4. QED
      BY <3>1, <3>2, <3>3 DEF LastOne
  <2>4. QED
    BY <1>6, <2>1, <2>2, <2>3, QueueSends DEF RunnerStep, SendStep
<1>7. QED
  BY <1>2, <1>3, <1>4, <1>5, <1>6 DEF BillingStep

LEMMA QueueNext ==
    ASSUME TypeOK, QueueInv, [Next]_vars
    PROVE  QueueInv' /\ [\A i \in InvoiceId : LastOne(i)]_vars
<1>1. CASE BillingStep
  BY <1>1, QueueBilling
<1>2. CASE ChaseStep \/ PayStep \/ AccountsStep \/ NextDay \/ Crash
  BY <1>2, BillsElsewhere, JobElsewhere, QueueKept
<1>3. CASE UNCHANGED vars
  BY <1>3 DEF vars, tables, billRunVars, QueueInv, Queued
<1>4. QED
  BY <1>1, <1>2, <1>3 DEF Next

(* However the admin's runs, the sweeper's, failures and crashes overlap,  *)
(* a bill whose marker is set is queued by no further run, and a message   *)
(* that still goes out for it is the last: nobody is billed over and over. *)
(* (notifyFreshInvoices, sendOneBill)                                      *)
THEOREM LastBill == Spec => OneMoreAfterTheMarker
<1>1. Init => QueueInv
  BY DEF Init, TablesInit, BillRunInit, QueueInv, NoInvoice, Idle
<1>2. TypeOK /\ QueueInv /\ [Next]_vars => QueueInv'
  BY QueueNext
<1>3. TypeOK /\ QueueInv /\ [Next]_vars => [\A i \in InvoiceId : LastOne(i)]_vars
  BY QueueNext
<1>4. [\A i \in InvoiceId : LastOne(i)]_vars =>
          [\A i \in InvoiceId : Exists(i) /\ invoice[i].billSentAt =>
              /\ Queued(i)' \subseteq Queued(i)
              /\ billsSent'[i] # billsSent[i] => Queued(i)' = {}]_vars
  BY DEF LastOne
<1>5. QED
  BY <1>1, <1>2, <1>3, <1>4, TypeCorrect, PTL DEF Spec, OneMoreAfterTheMarker

-----------------------------------------------------------------------------
(* The automated run.  Once a month has been claimed, it never is again;   *)
(* until then none of its bills has gone out.                              *)
Automated == Request \cap {"generate", "finalInvoice"} = {}

Claimed(m) ==
    \/ m + 1 < today[1]
    \/ m + 1 = today[1] /\ (today[2] > generateDay \/ generateClaimed)

Working == {"tallied", "committed", "sending"}

OnceInv ==
    /\ job["admin"].phase = "idle"
    /\ \A i \in InvoiceId : billsSent[i] = 0 \/ (billsSent[i] = 1 /\ Claimed(monthOf(i)))
    /\ sweep.phase = "claimed" =>
          /\ Claimed(sweep.month)
          /\ \A i \in InvoiceId : monthOf(i) = sweep.month => billsSent[i] = 0
    /\ sweep.phase \in Working =>
          /\ Claimed(sweep.month)
          /\ \A i \in sweep.todo : monthOf(i) = sweep.month /\ billsSent[i] = 0

LEMMA ClaimedStays ==
    ASSUME TypeOK, Next, NEW m \in BilledMonth, Claimed(m)
    PROVE  Claimed(m)'
<1>1. m \in Nat /\ today[1] \in Nat /\ today[2] \in Nat /\ today[2] >= 1
  BY CalendarFacts DEF TypeOK, Date, BilledMonth
<1>2. CASE NextDay
  <2>1. today' = <<today[1], today[2] + 1>> \/ today' = <<today[1] + 1, 1>>
    BY <1>2 DEF NextDay
  <2>2. QED
    BY <1>1, <2>1 DEF Claimed, generateDay
<1>3. CASE ~NextDay
  <2>1. today' = today
    BY <1>3 DEF Next, BillingStep, dunningGenerate, Generate, RunnerStep, InsertInvoices,
       GenerateFails, notifyFreshInvoices, SendStep, notifyBill, MarkBillSent, SendFails,
       recordBillRun, FinalInvoice, LateDelivery, ChaseStep, SweepStep, Tick, TickGenerate,
       ClaimGenerate, TickRemind, TickSuspend, StartSweep, TargetStep, MarkReminded,
       SendPaymentReminder, SuspendCustomer, StampSuspended, TargetFails, EndSweep, PayStep,
       PaymentsStep, CustomerPays, HandleWebhook, ProcessStep, ReadInvoice, MarkPaidOnline,
       ProcessFails, FinishApplied, OnPaid, OnPaidFails, MarkPaid, AccountsStep,
       HandleIncomingMessage, ChatStep, Approve, Reject, CheckDelete, Delete, DeleteFails,
       handleDisableAccount, handleReactivateAccount, handleDeleteAccount, pauseForExit,
       EraseAccount, MessageFails, Crash, tables
  <2>2. generateClaimed => generateClaimed'
    BY <1>3 DEF Next, BillingStep, dunningGenerate, Generate, RunnerStep, InsertInvoices,
       GenerateFails, notifyFreshInvoices, SendStep, notifyBill, MarkBillSent, SendFails,
       recordBillRun, FinalInvoice, LateDelivery, ChaseStep, SweepStep, Tick, TickGenerate,
       ClaimGenerate, TickRemind, TickSuspend, StartSweep, TargetStep, MarkReminded,
       SendPaymentReminder, SuspendCustomer, StampSuspended, TargetFails, EndSweep, PayStep,
       PaymentsStep, CustomerPays, HandleWebhook, ProcessStep, ReadInvoice, MarkPaidOnline,
       ProcessFails, FinishApplied, OnPaid, OnPaidFails, MarkPaid, AccountsStep,
       HandleIncomingMessage, ChatStep, Approve, Reject, CheckDelete, Delete, DeleteFails,
       handleDisableAccount, handleReactivateAccount, handleDeleteAccount, pauseForExit,
       EraseAccount, MessageFails, Crash, billRunVars
  <2>3. QED
    BY <2>1, <2>2 DEF Claimed
<1>4. QED
  BY <1>2, <1>3

(* The sweeper's job does not come to hold more bills than it did. *)
OnceKept ==
    /\ billsSent' = billsSent
    /\ job'["admin"].phase = "idle"
    /\ \/ sweep'.phase \notin Working \cup {"claimed"}
       \/ /\ sweep'.phase = sweep.phase /\ sweep'.month = sweep.month
          /\ sweep'.todo \subseteq sweep.todo
       \/ /\ sweep'.phase \in Working /\ sweep.phase \in Working
          /\ sweep'.month = sweep.month /\ sweep'.todo \subseteq sweep.todo

LEMMA OnceKeeps == TypeOK /\ OnceInv /\ Next /\ OnceKept => OnceInv'
<1> SUFFICES ASSUME TypeOK, OnceInv, Next, OnceKept PROVE OnceInv'
  OBVIOUS
<1>1. (\A i \in InvoiceId : monthOf(i) \in BilledMonth) /\ sweep.month \in BilledMonth
  BY DEF InvoiceId, monthOf, TypeOK, BillRunTypeOK, Job, Runner, sweep
<1>2. \A m \in BilledMonth : Claimed(m) => Claimed(m)'
  BY ClaimedStays
<1>3. \A i \in InvoiceId : billsSent'[i] = 0 \/ (billsSent'[i] = 1 /\ Claimed(monthOf(i))')
  BY <1>1, <1>2 DEF OnceInv, OnceKept
<1>4. sweep'.phase = "claimed" =>
          /\ Claimed(sweep.month)'
          /\ \A i \in InvoiceId : monthOf(i) = sweep'.month => billsSent'[i] = 0
  BY <1>1, <1>2 DEF OnceInv, OnceKept, Working, Claimed
<1>5. sweep'.phase \in Working =>
          /\ Claimed(sweep.month)'
          /\ \A i \in sweep'.todo : monthOf(i) = sweep'.month /\ billsSent'[i] = 0
  BY <1>1, <1>2 DEF OnceInv, OnceKept, Working, Claimed
<1>6. QED
  BY <1>3, <1>4, <1>5 DEF OnceInv, OnceKept

LEMMA OnceElsewhere ==
    TypeOK /\ OnceInv /\ (ChaseStep \/ PayStep \/ AccountsStep \/ NextDay \/ Crash) => OnceInv'
<1> SUFFICES ASSUME TypeOK, OnceInv, ChaseStep \/ PayStep \/ AccountsStep \/ NextDay \/ Crash
             PROVE  OnceInv'
  OBVIOUS
<1>1. CASE TickGenerate /\ sweep'.phase = "claimed" /\ sweep' # sweep
  <2>0. /\ job \in [Runner -> Job] /\ "sweeper" \in Runner /\ today \in Date
        /\ billsSent' = billsSent /\ job'["admin"] \in {job["admin"], Idle}
        /\ \A i \in InvoiceId : monthOf(i) \in Nat
    BY JobElsewhere, CalendarFacts DEF TypeOK, BillRunTypeOK, Runner, InvoiceId, monthOf,
       BilledMonth
  <2>1. /\ ~generateClaimed /\ generateClaimed' = TRUE /\ today' = today
        /\ today[2] = generateDay /\ sweep'.month = targetMonth(today)
    BY <1>1, <2>0 DEF TickGenerate, ClaimGenerate, Start, sweep, tables
  <2>2. today[1] \in Nat /\ today[1] >= 1 /\ today[2] \in Nat
    BY <2>0, CalendarFacts DEF Date
  <2>3. Claimed(sweep.month)'
    BY <2>1, <2>2 DEF Claimed, targetMonth
  <2>4. ASSUME NEW i \in InvoiceId
        PROVE  /\ Claimed(monthOf(i)) => Claimed(monthOf(i))' /\ monthOf(i) # sweep'.month
               /\ billsSent'[i] = 0 \/ (billsSent'[i] = 1 /\ Claimed(monthOf(i)))
    <3>1. Claimed(monthOf(i)) => Claimed(monthOf(i))'
      BY <2>1 DEF Claimed
    <3>2. Claimed(monthOf(i)) => monthOf(i) # sweep'.month
      BY <2>0, <2>1, <2>2 DEF Claimed, targetMonth, generateDay
    <3>3. QED
      BY <2>0, <3>1, <3>2 DEF OnceInv
  <2>5. job'["admin"].phase = "idle"
    BY <2>0 DEF OnceInv, Idle
  <2>6. \A i \in InvoiceId : billsSent'[i] = 0 \/ (billsSent'[i] = 1 /\ Claimed(monthOf(i))')
    BY <2>4
  <2>7. \A i \in InvoiceId : monthOf(i) = sweep'.month => billsSent'[i] = 0
    BY <2>4
  <2>8. sweep'.phase \notin Working
    BY <1>1 DEF Working
  <2>9. QED
    BY <2>3, <2>5, <2>6, <2>7, <2>8 DEF OnceInv
<1>2. CASE ~(TickGenerate /\ sweep'.phase = "claimed" /\ sweep' # sweep)
  <2>1. OnceKept
    BY <1>2, JobElsewhere DEF OnceInv, OnceKept, Idle, Working
  <2>2. QED
    BY <2>1, OnceKeeps DEF Next
<1>3. QED
  BY <1>1, <1>2

LEMMA OnceBilling ==
    Automated /\ TypeOK /\ OnceInv /\ BillingStep => OnceInv'
<1> SUFFICES ASSUME Automated, TypeOK, OnceInv, BillingStep PROVE OnceInv'
  OBVIOUS
<1>0. /\ job \in [Runner -> Job] /\ billsSent \in [InvoiceId -> Nat]
      /\ Runner = {"sweeper", "admin"} /\ job["admin"].phase = "idle"
      /\ sweep.todo \subseteq InvoiceId
      /\ Next
  BY DEF TypeOK, BillRunTypeOK, Runner, Job, OnceInv, Next, sweep
<1>1. ASSUME OnceKept PROVE OnceInv'
  BY <1>0, <1>1, OnceKeeps
<1>2. CASE dunningGenerate
  <2>1. /\ sweep.phase = "claimed" /\ sweep'.phase = "tallied" /\ sweep'.month = sweep.month
        /\ sweep'.todo = Tallies(sweep.month) /\ job'["admin"] = job["admin"]
        /\ billsSent' = billsSent
    BY <1>0, <1>2 DEF dunningGenerate, Continue, sweep
  <2>2. \A i \in Tallies(sweep.month) : i \in InvoiceId /\ monthOf(i) = sweep.month
    BY DEF Tallies, TypeOK, BillRunTypeOK
  <2>3. \A m \in BilledMonth : Claimed(m) => Claimed(m)'
    BY <1>0, ClaimedStays
  <2>4. (\A i \in InvoiceId : monthOf(i) \in BilledMonth) /\ sweep.month \in BilledMonth
    BY DEF InvoiceId, monthOf, TypeOK, BillRunTypeOK, Job, Runner, sweep
  <2>5. \A i \in InvoiceId : billsSent'[i] = 0 \/ (billsSent'[i] = 1 /\ Claimed(monthOf(i))')
    BY <2>1, <2>3, <2>4 DEF OnceInv
  <2>6. sweep'.phase \in Working =>
          /\ Claimed(sweep.month)'
          /\ \A i \in sweep'.todo : monthOf(i) = sweep'.month /\ billsSent'[i] = 0
    BY <2>1, <2>2, <2>3, <2>4 DEF OnceInv, Claimed
  <2>7. QED
    BY <1>0, <2>1, <2>5, <2>6 DEF OnceInv
<1>3. ASSUME NEW r \in Runner, RunnerStep(r)
      PROVE  OnceInv'
  <2>1. r = "sweeper"
    BY <1>0, <1>3 DEF RunnerStep, InsertInvoices, GenerateFails, notifyFreshInvoices, SendStep,
       notifyBill, MarkBillSent, SendFails, recordBillRun
  <2>2. CASE GenerateFails(r) \/ recordBillRun(r)
    <3>1. Rest("sweeper") /\ billsSent' = billsSent
      BY <2>1, <2>2 DEF GenerateFails, recordBillRun
    <3>2. OnceKept
      BY <1>0, <3>1 DEF Rest, Idle, sweep, OnceKept, Working
    <3>3. QED
      BY <1>1, <3>2
  <2>3. CASE InsertInvoices(r)
    <3>1. OnceKept
      BY <1>0, <2>1, <2>3 DEF InsertInvoices, Rest, Continue, Idle, sweep, OnceKept, Working
    <3>2. QED
      BY <1>1, <3>1
  <2>4. CASE notifyFreshInvoices(r)
    <3>1. OnceKept
      BY <1>0, <2>1, <2>4 DEF notifyFreshInvoices, Rest, Continue, Idle, sweep, OnceKept, Working
    <3>2. QED
      BY <1>1, <3>1
  <2>5. ASSUME NEW j \in InvoiceId, MarkBillSent(r, j) \/ SendFails(r, j)
        PROVE  OnceInv'
    <3>1. OnceKept
      BY <1>0, <2>1, <2>5 DEF MarkBillSent, SendFails, Continue, sweep, OnceKept, Working
    <3>2. QED
      BY <1>1, <3>1
  <2>6. ASSUME NEW j \in InvoiceId, notifyBill(r, j)
        PROVE  OnceInv'
    <3>1. /\ sweep.phase = "sending" /\ sweep'.phase = "sending" /\ sweep'.month = sweep.month
          /\ sweep'.todo = sweep.todo \ {j} /\ job'["admin"] = job["admin"] /\ j \in sweep.todo
          /\ billsSent' = [billsSent EXCEPT ![j] = billsSent[j] + 1]
      BY <1>0, <2>1, <2>6 DEF notifyBill, Continue, sweep
    <3>2. /\ Claimed(sweep.month) /\ monthOf(j) = sweep.month /\ billsSent[j] = 0
          /\ \A i \in sweep.todo : monthOf(i) = sweep.month /\ billsSent[i] = 0
      BY <3>1 DEF OnceInv, Working
    <3>3. \A m \in BilledMonth : Claimed(m) => Claimed(m)'
      BY <1>0, ClaimedStays
    <3>4. (\A i \in InvoiceId : monthOf(i) \in BilledMonth) /\ sweep.month \in BilledMonth
      BY DEF InvoiceId, monthOf, TypeOK, BillRunTypeOK, Job, Runner, sweep
    <3>5. \A i \in InvoiceId : billsSent'[i] = IF i = j THEN 1 ELSE billsSent[i]
      BY <1>0, <3>1, <3>2
    <3>6. \A i \in InvoiceId : billsSent'[i] = 0 \/ (billsSent'[i] = 1 /\ Claimed(monthOf(i))')
      BY <3>2, <3>3, <3>4, <3>5 DEF OnceInv
    <3>7. /\ Claimed(sweep.month)'
          /\ \A i \in sweep'.todo : monthOf(i) = sweep'.month /\ billsSent'[i] = 0
      BY <1>0, <3>1, <3>2, <3>3, <3>4, <3>5 DEF Claimed
    <3>8. QED
      BY <1>0, <3>1, <3>6, <3>7 DEF OnceInv
  <2>7. QED
    BY <1>3, <2>2, <2>3, <2>4, <2>5, <2>6 DEF RunnerStep, SendStep
<1>4. ASSUME NEW i \in InvoiceId, LateDelivery(i)
      PROVE  OnceInv'
  <2>1. OnceKept
    BY <1>0, <1>4 DEF LateDelivery, OnceKept, sweep
  <2>2. QED
    BY <1>1, <2>1
<1>5. QED
  BY <1>2, <1>3, <1>4 DEF BillingStep, Generate, FinalInvoice, Automated

(* Where only the sweeper bills, it bills nobody twice, whatever crashes   *)
(* between a bill and its marker: the claimed day keeps a restarted        *)
(* sweeper out for good. (dunningGenerate, sendOneBill)                    *)
THEOREM BilledOnce == Spec => []AutomatedRunBillsOnce
<1>1. CASE ~Automated
  <2>1. AutomatedRunBillsOnce
    BY <1>1 DEF Automated, AutomatedRunBillsOnce
  <2>2. QED
    BY <2>1, PTL
<1>2. CASE Automated
  <2>1. Init => OnceInv
    BY DEF Init, BillRunInit, OnceInv, Runner, Idle, sweep, Working
  <2>2. TypeOK /\ OnceInv /\ [Next]_vars => OnceInv'
    <3>1. TypeOK /\ OnceInv /\ Next => OnceInv'
      BY <1>2, OnceBilling, OnceElsewhere DEF Next
    <3>2. OnceInv /\ UNCHANGED vars => OnceInv'
      BY DEF vars, tables, billRunVars, OnceInv, Claimed, sweep
    <3>3. QED
      BY <3>1, <3>2
  <2>3. TypeOK /\ OnceInv => AutomatedRunBillsOnce
    BY DEF OnceInv, AutomatedRunBillsOnce, TypeOK, BillRunTypeOK
  <2>4. QED
    BY <2>1, <2>2, <2>3, TypeCorrect, PTL DEF Spec
<1>3. QED
  BY <1>1, <1>2

-----------------------------------------------------------------------------
(* The reminders.  While a reminder sweep runs, it is one of the days it   *)
(* may run on or the day after, before the sweeper's next tick; each of    *)
(* its targets still has a day left; and the counter of a row is ahead of  *)
(* the messages, with the marked and not yet sent one counted.             *)
Chasing(i) == today[1] = monthOf(i) + 1 /\ today[2] \in 2..suspendDay

Pending(i) == IF InPhase("remind") /\ i \in sweep.doing THEN 1 ELSE 0

HereOrGoneNow(i) == Exists(i) \/ ~Present(owner(i))

CountsInv ==
    \A i \in InvoiceId :
        /\ invoice[i].reminderCount <= ReminderDays(i)
        /\ Chasing(i) /\ invoice[i].lastReminderOn # today =>
              invoice[i].reminderCount + 2 <= today[2]

SentInv ==
    \A i \in InvoiceId :
        /\ remindersSent[i] <= ReminderDays(i)
        /\ remindersSent[i] > 0 => HereOrGoneNow(i)
        /\ Exists(i) => remindersSent[i] + Pending(i) <= invoice[i].reminderCount

TargetsInv ==
    InPhase("remind") =>
        /\ today[2] \in 2..suspendDay
        /\ ticked => today[2] <= LastReminderDay
        /\ sweep.todo \cap sweep.doing = {}
        /\ \A i \in sweep.todo \cup sweep.doing :
              monthOf(i) + 1 = today[1] /\ HereOrGoneNow(i) /\ remindersSent[i] + 1 <= ReminderDays(i)
        /\ \A i \in sweep.todo : invoice[i].lastReminderOn = NONE
                                 \/ Before(invoice[i].lastReminderOn, today)

ReminderInv == CountsInv /\ SentInv /\ TargetsInv

(* A step that reminds nobody: rows may go, or be raised for customers     *)
(* who are there, and a sweep may lose targets.                            *)
RemindersKept ==
    /\ today' = today /\ remindersSent' = remindersSent
    /\ sweep'.phase = "remind" =>
          /\ sweep.phase = "remind" /\ ticked' = ticked
          /\ sweep'.todo \subseteq sweep.todo /\ sweep'.doing \subseteq sweep.doing
    /\ \A i \in InvoiceId :
          \/ /\ invoice'[i].reminderCount = invoice[i].reminderCount
             /\ invoice'[i].lastReminderOn = invoice[i].lastReminderOn
             /\ Exists(i)' => Exists(i)
          \/ /\ invoice'[i].reminderCount = 0 /\ invoice'[i].lastReminderOn = NONE
             /\ Exists(i)' => ~HereOrGoneNow(i)

LEMMA ReminderTypes ==
    ASSUME TypeOK
    PROVE  /\ today \in Date /\ today[1] \in Nat /\ today[2] \in Nat /\ today[2] >= 1
           /\ LastReminderDay \in Nat /\ suspendDay = LastReminderDay + 1
           /\ \A i \in InvoiceId :
                 /\ ReminderDays(i) \in Nat /\ monthOf(i) \in Nat
                 /\ invoice[i].reminderCount \in Nat /\ remindersSent[i] \in Nat
                 /\ invoice[i].lastReminderOn \in Date \cup {NONE}
                 /\ Chasing(i) => ReminderDays(i) + 1 = today[2]
                 /\ owner(i) \in Customer
           /\ sweep.todo \subseteq InvoiceId /\ sweep.doing \subseteq InvoiceId
<1>1. /\ today \in Date /\ today[1] \in Nat /\ today[2] \in Nat /\ today[2] >= 1
      /\ LastReminderDay \in Nat /\ suspendDay = LastReminderDay + 1 /\ LastReminderDay >= 1
  BY CalendarFacts DEF TypeOK, Date, suspendDay
<1>2. ASSUME NEW i \in InvoiceId
      PROVE  /\ monthOf(i) \in Nat /\ owner(i) \in Customer
             /\ invoice[i].reminderCount \in Nat /\ remindersSent[i] \in Nat
             /\ invoice[i].lastReminderOn \in Date \cup {NONE}
  BY CalendarFacts DEF TypeOK, DunningTypeOK, InvoiceId, monthOf, owner, BilledMonth, InvoiceRow
<1>3. ASSUME NEW i \in InvoiceId
      PROVE  ReminderDays(i) \in Nat /\ (Chasing(i) => ReminderDays(i) + 1 = today[2])
  BY <1>1, <1>2 DEF ReminderDays, Chasing, generateDay
<1>4. sweep.todo \subseteq InvoiceId /\ sweep.doing \subseteq InvoiceId
  BY DEF TypeOK, BillRunTypeOK, Job, Runner, sweep
<1>5. QED
  BY <1>1, <1>2, <1>3, <1>4

LEMMA RemindersKeptKeeps ==
    TypeOK /\ SuspensionInv /\ ReminderInv /\ Next /\ RemindersKept => ReminderInv'
<1> SUFFICES ASSUME TypeOK, SuspensionInv, ReminderInv, Next, RemindersKept PROVE ReminderInv'
  OBVIOUS
<1>0. /\ today' = today /\ remindersSent' = remindersSent
      /\ \A i \in InvoiceId :
            ReminderDays(i)' = ReminderDays(i) /\ (Chasing(i)' <=> Chasing(i))
  BY DEF RemindersKept, ReminderDays, Chasing
<1>1. /\ \A i \in InvoiceId : HereOrGoneNow(i) => HereOrGoneNow(i)'
      /\ sweep.todo \subseteq InvoiceId /\ sweep.doing \subseteq InvoiceId
  BY HereOrGone, ReminderTypes DEF HereOrGoneNow
<1>2. CountsInv'
  <2> SUFFICES ASSUME NEW i \in InvoiceId
               PROVE  /\ invoice'[i].reminderCount <= ReminderDays(i)'
                      /\ Chasing(i)' /\ invoice'[i].lastReminderOn # today' =>
                            invoice'[i].reminderCount + 2 <= today'[2]
    BY DEF CountsInv
  <2>1. /\ invoice[i].reminderCount <= ReminderDays(i) /\ ReminderDays(i) \in Nat
        /\ Chasing(i) /\ invoice[i].lastReminderOn # today =>
                  invoice[i].reminderCount + 2 <= today[2]
        /\ Chasing(i) => 2 <= today[2] /\ today[2] \in Nat
    BY ReminderTypes DEF ReminderInv, CountsInv, Chasing
  <2>2. CASE invoice'[i].reminderCount = 0
    BY <1>0, <2>1, <2>2
  <2>3. CASE /\ invoice'[i].reminderCount = invoice[i].reminderCount
             /\ invoice'[i].lastReminderOn = invoice[i].lastReminderOn
    BY <1>0, <2>1, <2>3
  <2>4. QED
    BY <2>2, <2>3 DEF RemindersKept
<1>3. SentInv'
  <2> SUFFICES ASSUME NEW i \in InvoiceId
               PROVE  /\ remindersSent'[i] <= ReminderDays(i)'
                      /\ remindersSent'[i] > 0 => HereOrGoneNow(i)'
                      /\ Exists(i)' => remindersSent'[i] + Pending(i)' <= invoice'[i].reminderCount
    BY DEF SentInv
  <2>1. remindersSent[i] <= ReminderDays(i) /\ (remindersSent[i] > 0 => HereOrGoneNow(i)')
    BY <1>1 DEF ReminderInv, SentInv
  <2>2. ASSUME Exists(i)', ~HereOrGoneNow(i)
        PROVE  remindersSent[i] = 0 /\ Pending(i)' = 0
    BY <2>2, ReminderTypes DEF ReminderInv, SentInv, TargetsInv, RemindersKept, Pending, InPhase
  <2>3. Pending(i)' = 0 \/ (Pending(i)' = 1 /\ Pending(i) = 1)
    BY DEF Pending, RemindersKept, InPhase
  <2>4. ASSUME Exists(i)', Exists(i), invoice'[i].reminderCount = invoice[i].reminderCount
        PROVE  remindersSent[i] + Pending(i)' <= invoice'[i].reminderCount
    <3>1. Pending(i) \in Nat
      BY DEF Pending
    <3>2. remindersSent[i] + Pending(i) <= invoice[i].reminderCount
      BY <2>4 DEF ReminderInv, SentInv
    <3>3. QED
      BY <2>3, <2>4, <3>1, <3>2, ReminderTypes
  <2>5. ASSUME Exists(i)'
        PROVE  remindersSent[i] + Pending(i)' <= invoice'[i].reminderCount
    <3>1. CASE ~HereOrGoneNow(i)
      BY <2>2, <2>5, <3>1, ReminderTypes DEF RemindersKept, HereOrGoneNow
    <3>2. CASE HereOrGoneNow(i)
      BY <2>4, <2>5, <3>2 DEF RemindersKept
    <3>3. QED
      BY <3>1, <3>2
  <2>6. QED
    BY <1>0, <2>1, <2>5
<1>4. TargetsInv'
  <2> SUFFICES ASSUME InPhase("remind")'
               PROVE  /\ today'[2] \in 2..suspendDay
                      /\ ticked' => today'[2] <= LastReminderDay
                      /\ sweep'.todo \cap sweep'.doing = {}
                      /\ \A i \in sweep'.todo \cup sweep'.doing :
                            /\ monthOf(i) + 1 = today'[1] /\ HereOrGoneNow(i)'
                            /\ remindersSent'[i] + 1 <= ReminderDays(i)'
                      /\ \A i \in sweep'.todo :
                            \/ invoice'[i].lastReminderOn = NONE
                            \/ Before(invoice'[i].lastReminderOn, today')
    BY DEF TargetsInv
  <2>1. /\ InPhase("remind") /\ ticked' = ticked
        /\ sweep'.todo \subseteq sweep.todo /\ sweep'.doing \subseteq sweep.doing
    BY DEF RemindersKept, InPhase
  <2>2. /\ today[2] \in 2..suspendDay
        /\ ticked' => today[2] <= LastReminderDay
        /\ sweep'.todo \cap sweep'.doing = {}
    BY <2>1 DEF ReminderInv, TargetsInv
  <2>3. \A i \in sweep'.todo \cup sweep'.doing :
           /\ monthOf(i) + 1 = today[1] /\ HereOrGoneNow(i)'
           /\ remindersSent[i] + 1 <= ReminderDays(i)
    BY <1>1, <2>1 DEF ReminderInv, TargetsInv
  <2>4. \A i \in sweep'.todo : \/ invoice'[i].lastReminderOn = NONE
                               \/ Before(invoice'[i].lastReminderOn, today)
    BY <1>1, <2>1 DEF ReminderInv, TargetsInv, RemindersKept
  <2>5. QED
    BY <1>0, <1>1, <2>1, <2>2, <2>3, <2>4
<1>5. QED
  BY <1>2, <1>3, <1>4 DEF ReminderInv

(* What billing, money, messages and crashes leave of the reminders.       *)
LEMMA BillingReminders == TypeOK /\ BillingStep => RemindersKept
<1> SUFFICES ASSUME TypeOK, BillingStep PROVE RemindersKept
  OBVIOUS
<1>0. /\ job \in [Runner -> Job] /\ invoice \in [InvoiceId -> InvoiceRow(Payment)]
      /\ Runner = {"sweeper", "admin"}
  BY DEF TypeOK, BillRunTypeOK, Runner
<1>1. today' = today /\ remindersSent' = remindersSent /\ ticked' = ticked
  BY DEF BillingStep, dunningGenerate, Generate, RunnerStep, InsertInvoices, GenerateFails,
     notifyFreshInvoices, SendStep, notifyBill, MarkBillSent, SendFails, recordBillRun,
     FinalInvoice, LateDelivery, tables, dunningVars
<1>2. \/ sweep' = sweep
      \/ sweep'.phase # "remind"
  <2>1. ASSUME NEW r \in Runner, NEW phase, phase # "remind", NEW todo, NEW doing, NEW m,
               \/ Continue(r, phase, todo, doing) \/ Start(r, phase, m, todo)
        PROVE  sweep' = sweep \/ sweep'.phase # "remind"
    BY <1>0, <2>1 DEF Continue, Start, sweep
  <2>2. ASSUME NEW r \in Runner, Rest(r)
        PROVE  sweep' = sweep \/ sweep'.phase # "remind"
    BY <1>0, <2>2 DEF Rest, Idle, sweep
  <2>3. CASE job' = job
    BY <2>3 DEF sweep
  <2>4. "sweeper" \in Runner /\ "admin" \in Runner
    BY <1>0
  <2>5. CASE dunningGenerate \/ \E m \in BilledMonth : Generate(m)
    BY <2>1, <2>4, <2>5 DEF dunningGenerate, Generate
  <2>6. ASSUME NEW r \in Runner, RunnerStep(r)
        PROVE  sweep' = sweep \/ sweep'.phase # "remind"
    BY <2>1, <2>2, <2>6 DEF RunnerStep, InsertInvoices, GenerateFails, notifyFreshInvoices,
       SendStep, notifyBill, MarkBillSent, SendFails, recordBillRun
  <2>7. QED
    BY <2>3, <2>5, <2>6 DEF BillingStep, FinalInvoice, LateDelivery
<1>3. ASSUME NEW i \in InvoiceId
      PROVE  \/ /\ invoice'[i].reminderCount = invoice[i].reminderCount
                /\ invoice'[i].lastReminderOn = invoice[i].lastReminderOn
                /\ Exists(i)' => Exists(i)
             \/ /\ invoice'[i].reminderCount = 0 /\ invoice'[i].lastReminderOn = NONE
                /\ Exists(i)' => ~HereOrGoneNow(i)
  <2>1. ASSUME NEW r \in Runner, InsertInvoices(r)
        PROVE  invoice'[i] = invoice[i] \/ (invoice'[i] = FreshInvoice /\ ~HereOrGoneNow(i))
    BY <1>0, <2>1 DEF InsertInvoices, HereOrGoneNow
  <2>2. ASSUME NEW c \in Customer, FinalInvoice(c)
        PROVE  invoice'[i] = invoice[i] \/ (invoice'[i] = FreshInvoice /\ ~HereOrGoneNow(i))
    BY <1>0, <2>2 DEF FinalInvoice, HereOrGoneNow, owner
  <2>3. ASSUME NEW r \in Runner, NEW j \in InvoiceId, MarkBillSent(r, j)
        PROVE  /\ invoice'[i].reminderCount = invoice[i].reminderCount
               /\ invoice'[i].lastReminderOn = invoice[i].lastReminderOn
               /\ Exists(i)' => Exists(i)
    BY <1>0, <2>3 DEF MarkBillSent, Exists, InvoiceRow
  <2>4. /\ FreshInvoice.reminderCount = 0 /\ FreshInvoice.lastReminderOn = NONE
    BY DEF FreshInvoice, NoInvoice
  <2>5. CASE invoice'[i] = invoice[i]
    BY <2>5 DEF Exists
  <2>6. CASE invoice'[i] = FreshInvoice /\ ~HereOrGoneNow(i)
    BY <2>4, <2>6
  <2>7. CASE invoice' = invoice
    BY <2>5, <2>7
  <2>8. QED
    BY <2>1, <2>2, <2>3, <2>5, <2>6, <2>7 DEF BillingStep, dunningGenerate, Generate,
       RunnerStep, GenerateFails, notifyFreshInvoices, SendStep, notifyBill, SendFails,
       recordBillRun, LateDelivery, tables
<1>4. QED
  BY <1>1, <1>2, <1>3 DEF RemindersKept

LEMMA OtherReminders ==
    TypeOK /\ (PayStep \/ AccountsStep \/ Crash) => RemindersKept
<1> SUFFICES ASSUME TypeOK, PayStep \/ AccountsStep \/ Crash PROVE RemindersKept
  OBVIOUS
<1>0. /\ invoice \in [InvoiceId -> InvoiceRow(Payment)] /\ "sweeper" \in Runner
  BY DEF TypeOK, Runner
<1>1. today' = today /\ remindersSent' = remindersSent /\ ticked' = ticked
  BY DEF PayStep, PaymentsStep, CustomerPays, HandleWebhook, ProcessStep, ReadInvoice,
     MarkPaidOnline, ProcessFails, FinishApplied, OnPaid, OnPaidFails, MarkPaid, AccountsStep,
     HandleIncomingMessage, ChatStep, Approve, Reject, CheckDelete, Delete, DeleteFails,
     handleDisableAccount, handleReactivateAccount, handleDeleteAccount, pauseForExit,
     EraseAccount, MessageFails, Crash, tables, dunningVars
<1>2. sweep' = sweep \/ sweep'.phase # "remind"
  <2>1. job' = job \/ job' = [r \in Runner |-> Idle]
    BY DEF PayStep, PaymentsStep, CustomerPays, HandleWebhook, ProcessStep, ReadInvoice,
       MarkPaidOnline, ProcessFails, FinishApplied, OnPaid, OnPaidFails, MarkPaid, AccountsStep,
       HandleIncomingMessage, ChatStep, Approve, Reject, CheckDelete, Delete, DeleteFails,
       handleDisableAccount, handleReactivateAccount, handleDeleteAccount, pauseForExit,
       EraseAccount, MessageFails, Crash, billRunVars
  <2>2. QED
    BY <1>0, <2>1 DEF sweep, Idle
<1>3. ASSUME NEW i \in InvoiceId
      PROVE  \/ /\ invoice'[i].reminderCount = invoice[i].reminderCount
                /\ invoice'[i].lastReminderOn = invoice[i].lastReminderOn
                /\ Exists(i)' => Exists(i)
             \/ /\ invoice'[i].reminderCount = 0 /\ invoice'[i].lastReminderOn = NONE
                /\ Exists(i)' => ~HereOrGoneNow(i)
  <2> DEFINE Same == /\ invoice'[i].reminderCount = invoice[i].reminderCount
                     /\ invoice'[i].lastReminderOn = invoice[i].lastReminderOn
                     /\ Exists(i)' => Exists(i)
             Cleared == /\ invoice'[i].reminderCount = 0 /\ invoice'[i].lastReminderOn = NONE
                        /\ Exists(i)' => ~HereOrGoneNow(i)
  <2>1. ASSUME NEW c \in Customer, Erase(c)
        PROVE  Same \/ Cleared
    <3>1. invoice'[i] = IF owner(i) = c THEN NoInvoice ELSE invoice[i]
      BY <2>1 DEF Erase
    <3>2. CASE owner(i) = c
      <4>1. invoice'[i] = NoInvoice /\ NoInvoice.status = "ABSENT"
        BY <3>1, <3>2 DEF NoInvoice
      <4>2. Cleared
        BY <4>1 DEF NoInvoice, Exists
      <4>3. QED
        BY <4>2
    <3>3. CASE owner(i) # c
      <4>1. invoice'[i] = invoice[i]
        BY <3>1, <3>3
      <4>2. QED
        BY <4>1 DEF Exists
    <3>4. QED
      BY <3>2, <3>3
  <2>2. ASSUME NEW p \in Payment, MarkPaidOnline(p)
        PROVE  Same
    BY <1>0, <2>2 DEF MarkPaidOnline, SettledOnline, Unpaid, Exists, InvoiceRow
  <2>3. ASSUME NEW j \in InvoiceId, NEW t \in MarkStatus, MarkPaid(j, t)
        PROVE  Same
    BY <1>0, <2>3 DEF MarkPaid, Exists, InvoiceRow
  <2>4. ASSUME invoice' = invoice
        PROVE  Same
    BY <2>4 DEF Exists
  <2> HIDE DEF Same, Cleared
  <2>5. Same \/ Cleared
    BY <2>1, <2>2, <2>3, <2>4 DEF PayStep, PaymentsStep, CustomerPays, HandleWebhook,
       ProcessStep, ReadInvoice, ProcessFails, FinishApplied, OnPaid, OnPaidFails, AccountsStep,
       HandleIncomingMessage, ChatStep, Approve, Reject, CheckDelete, Delete, DeleteFails,
       handleDisableAccount, handleReactivateAccount, handleDeleteAccount, pauseForExit,
       EraseAccount, MessageFails, Crash, tables
  <2>6. QED
    BY <2>5 DEF Same, Cleared
<1>4. QED
  BY <1>1, <1>2, <1>3 DEF RemindersKept

LEMMA ReminderMidnight == TypeOK /\ SuspensionInv /\ ReminderInv /\ NextDay => ReminderInv'
<1> SUFFICES ASSUME TypeOK, SuspensionInv, ReminderInv, NextDay PROVE ReminderInv'
  OBVIOUS
<1>1. /\ UNCHANGED <<customer, invoice, job, remindersSent>> /\ ticked' = FALSE
      /\ sweep' = sweep
      /\ \/ today' = <<today[1], today[2] + 1>> /\ today[2] < DaysInMonth
         \/ today' = <<today[1] + 1, 1>> /\ ~(today[2] < DaysInMonth)
      /\ InPhase("remind") => ticked
  BY DEF NextDay, Running, InPhase, sweep
<1>2. /\ today[1] \in Nat /\ today[2] \in Nat /\ today[2] >= 1 /\ DaysInMonth \in Nat
      /\ LastReminderDay \in Nat /\ LastReminderDay >= 1 /\ DaysInMonth > LastReminderDay
      /\ suspendDay = LastReminderDay + 1 /\ generateDay = 1
      /\ today'[1] \in Nat /\ today'[2] \in Nat /\ today'[2] >= 1
  BY <1>1, CalendarFacts, ReminderTypes DEF generateDay
<1>3. ASSUME NEW i \in InvoiceId
      PROVE  /\ ReminderDays(i) \in Nat /\ ReminderDays(i)' \in Nat
             /\ ReminderDays(i) <= ReminderDays(i)'
             /\ Chasing(i)' => today[1] = monthOf(i) + 1 /\ ReminderDays(i) + 2 <= today'[2]
             /\ Chasing(i)' => today'[2] >= 2
             /\ monthOf(i) \in Nat
  <2>1. monthOf(i) \in Nat
    BY ReminderTypes
  <2>2. QED
    BY <1>1, <1>2, <2>1 DEF ReminderDays, Chasing
<1>4. CountsInv'
  <2> SUFFICES ASSUME NEW i \in InvoiceId
               PROVE  /\ invoice[i].reminderCount <= ReminderDays(i)'
                      /\ Chasing(i)' /\ invoice[i].lastReminderOn # today' =>
                            invoice[i].reminderCount + 2 <= today'[2]
    BY <1>1 DEF CountsInv
  <2>1. invoice[i].reminderCount <= ReminderDays(i) /\ invoice[i].reminderCount \in Nat
    BY ReminderTypes DEF ReminderInv, CountsInv
  <2>2. QED
    BY <1>2, <1>3, <2>1
<1>5. /\ \A i \in InvoiceId : HereOrGoneNow(i)' <=> HereOrGoneNow(i)
      /\ \A i \in InvoiceId : Pending(i)' = Pending(i)
      /\ \A i \in InvoiceId : Exists(i)' <=> Exists(i)
  BY <1>1 DEF HereOrGoneNow, Exists, Present, Pending, InPhase, sweep
<1>6. SentInv'
  <2> SUFFICES ASSUME NEW i \in InvoiceId
               PROVE  /\ remindersSent[i] <= ReminderDays(i)'
                      /\ remindersSent[i] > 0 => HereOrGoneNow(i)'
                      /\ Exists(i)' => remindersSent[i] + Pending(i)' <= invoice[i].reminderCount
    BY <1>1 DEF SentInv
  <2>1. remindersSent[i] <= ReminderDays(i) /\ remindersSent[i] \in Nat
    BY ReminderTypes DEF ReminderInv, SentInv
  <2>2. remindersSent[i] <= ReminderDays(i)'
    BY <1>3, <2>1
  <2>3. QED
    BY <1>5, <2>2 DEF ReminderInv, SentInv
<1>7. TargetsInv'
  <2> SUFFICES ASSUME InPhase("remind")'
               PROVE  /\ today'[2] \in 2..suspendDay
                      /\ ticked' => today'[2] <= LastReminderDay
                      /\ sweep.todo \cap sweep.doing = {}
                      /\ \A i \in sweep.todo \cup sweep.doing :
                            /\ monthOf(i) + 1 = today'[1] /\ HereOrGoneNow(i)'
                            /\ remindersSent[i] + 1 <= ReminderDays(i)'
                      /\ \A i \in sweep.todo :
                            \/ invoice[i].lastReminderOn = NONE
                            \/ Before(invoice[i].lastReminderOn, today')
    BY <1>1 DEF TargetsInv
  <2>1. InPhase("remind") /\ ticked
    BY <1>1 DEF InPhase
  <2>2. /\ today[2] >= 2 /\ today[2] <= LastReminderDay /\ sweep.todo \cap sweep.doing = {}
        /\ sweep.todo \subseteq InvoiceId /\ sweep.doing \subseteq InvoiceId
    BY <2>1, ReminderTypes DEF ReminderInv, TargetsInv
  <2>3. today' = <<today[1], today[2] + 1>>
    BY <1>1, <1>2, <2>2
  <2>4. today'[2] \in 2..suspendDay
    BY <1>2, <2>2, <2>3
  <2>5. ASSUME NEW i \in sweep.todo \cup sweep.doing
        PROVE  /\ monthOf(i) + 1 = today'[1] /\ HereOrGoneNow(i)'
               /\ remindersSent[i] + 1 <= ReminderDays(i)'
    <3>1. /\ i \in InvoiceId /\ monthOf(i) + 1 = today[1] /\ HereOrGoneNow(i)
          /\ remindersSent[i] + 1 <= ReminderDays(i) /\ remindersSent[i] \in Nat
      BY <2>1, <2>2, ReminderTypes DEF ReminderInv, TargetsInv
    <3>2. remindersSent[i] + 1 <= ReminderDays(i)'
      BY <1>3, <3>1
    <3>3. QED
      BY <1>5, <2>3, <3>1, <3>2
  <2>6. ASSUME NEW i \in sweep.todo, invoice[i].lastReminderOn # NONE
        PROVE  Before(invoice[i].lastReminderOn, today')
    <3>1. Before(invoice[i].lastReminderOn, today) /\ invoice[i].lastReminderOn \in Date
      BY <2>1, <2>2, <2>6, ReminderTypes DEF ReminderInv, TargetsInv
    <3>2. QED
      BY <1>2, <2>3, <3>1 DEF Before, Date
  <2>7. QED
    BY <1>1, <2>2, <2>4, <2>5, <2>6
<1>8. QED
  BY <1>4, <1>6, <1>7 DEF ReminderInv

LEMMA ReminderChase == TypeOK /\ SuspensionInv /\ ReminderInv /\ ChaseStep => ReminderInv'
<1> SUFFICES ASSUME TypeOK, SuspensionInv, ReminderInv, ChaseStep PROVE ReminderInv'
  OBVIOUS
<1>0. /\ job \in [Runner -> Job] /\ invoice \in [InvoiceId -> InvoiceRow(Payment)]
      /\ remindersSent \in [InvoiceId -> Nat] /\ "sweeper" \in Runner /\ Next
  BY DEF TypeOK, BillRunTypeOK, DunningTypeOK, Runner, Next
<1>1. ASSUME RemindersKept PROVE ReminderInv'
  BY <1>0, <1>1, RemindersKeptKeeps
<1>2. CASE TickGenerate \/ TickSuspend \/ EndSweep
  <2>1. /\ UNCHANGED <<today, invoice, remindersSent>>
        /\ sweep'.phase # "remind" \/ (job' = job /\ ~Running("sweeper"))
    BY <1>0, <1>2 DEF TickGenerate, ClaimGenerate, TickSuspend, StartSweep, Start, EndSweep,
       Rest, Idle, sweep, tables, dunningVars
  <2>2. RemindersKept
    BY <2>1 DEF RemindersKept, Exists, Running, sweep
  <2>3. QED
    BY <1>1, <2>2
<1>3. ASSUME NEW i \in InvoiceId, SuspendCustomer(i) \/ StampSuspended(i) \/ TargetFails(i)
      PROVE  ReminderInv'
  <2>1. /\ UNCHANGED <<today, remindersSent, ticked>>
        /\ sweep'.phase = sweep.phase
        /\ sweep'.phase = "remind" => /\ sweep'.todo \subseteq sweep.todo
                                      /\ sweep'.doing \subseteq sweep.doing
    BY <1>0, <1>3 DEF SuspendCustomer, StampSuspended, TargetFails, InPhase, Continue, sweep,
       tables, dunningVars
  <2>2. ASSUME NEW j \in InvoiceId
        PROVE  /\ invoice'[j].reminderCount = invoice[j].reminderCount
               /\ invoice'[j].lastReminderOn = invoice[j].lastReminderOn
               /\ Exists(j)' => Exists(j)
    <3>1. invoice' = invoice \/ invoice' = [invoice EXCEPT ![i].suspendedAt = TRUE]
      BY <1>3 DEF SuspendCustomer, StampSuspended, TargetFails, tables
    <3>2. QED
      BY <1>0, <3>1 DEF InvoiceRow, Exists
  <2>3. RemindersKept
    BY <2>1, <2>2 DEF RemindersKept
  <2>4. QED
    BY <1>1, <2>3
<1>4. CASE TickRemind
  <2>1. /\ UNCHANGED tables /\ UNCHANGED remindersSent /\ ~InPhase("remind")
        /\ today[2] > generateDay /\ today[2] <= LastReminderDay
        /\ \/ job' = job
           \/ sweep' = [phase |-> "remind", month |-> targetMonth(today),
                        todo |-> ToRemind, doing |-> {}]
    BY <1>0, <1>4 DEF TickRemind, StartSweep, Start, Running, InPhase, sweep
  <2>2. CASE job' = job
    <3>1. RemindersKept
      BY <2>1, <2>2 DEF RemindersKept, Exists, tables, InPhase, sweep
    <3>2. QED
      BY <1>1, <3>1
  <2>3. CASE sweep' = [phase |-> "remind", month |-> targetMonth(today),
                       todo |-> ToRemind, doing |-> {}]
    <3>1. \A i \in InvoiceId : /\ Pending(i) = 0 /\ Pending(i)' = 0
                               /\ HereOrGoneNow(i)' <=> HereOrGoneNow(i)
      BY <2>1, <2>3 DEF Pending, HereOrGoneNow, Exists, Present, InPhase, tables
    <3>2. CountsInv' /\ SentInv'
      BY <2>1, <3>1 DEF ReminderInv, CountsInv, SentInv, Chasing, ReminderDays, Exists, tables
    <3>3. /\ today[2] \in 2..suspendDay /\ today[1] \in Nat /\ today[2] \in Nat
          /\ today[1] >= 1
      BY <2>1, ReminderTypes DEF generateDay, Date
    <3>4. ASSUME NEW i \in ToRemind
          PROVE  /\ monthOf(i) + 1 = today[1] /\ HereOrGoneNow(i)
                 /\ remindersSent[i] + 1 <= ReminderDays(i)
                 /\ \/ invoice[i].lastReminderOn = NONE
                    \/ Before(invoice[i].lastReminderOn, today)
      <4>1. /\ i \in InvoiceId /\ monthOf(i) = today[1] - 1 /\ Exists(i)
            /\ \/ invoice[i].lastReminderOn = NONE
               \/ Before(invoice[i].lastReminderOn, today)
        BY DEF ToRemind, InvoicesOf, targetMonth
      <4>2. Chasing(i) /\ monthOf(i) + 1 = today[1]
        BY <3>3, <4>1 DEF Chasing
      <4>3. invoice[i].lastReminderOn # today
        BY <3>3, <4>1, ReminderTypes, NullAssumption DEF Before
      <4>4. invoice[i].reminderCount + 2 <= today[2] /\ ReminderDays(i) + 1 = today[2]
        BY <4>1, <4>2, <4>3, ReminderTypes DEF ReminderInv, CountsInv
      <4>5. remindersSent[i] <= invoice[i].reminderCount
        BY <3>1, <4>1, ReminderTypes DEF ReminderInv, SentInv
      <4>6. remindersSent[i] + 1 <= ReminderDays(i)
        BY <3>3, <4>1, <4>4, <4>5, ReminderTypes
      <4>7. QED
        BY <4>1, <4>2, <4>6 DEF HereOrGoneNow
    <3>5. ToRemind \subseteq InvoiceId
      BY DEF ToRemind, InvoicesOf
    <3>6. TargetsInv'
      <4>1. \A i \in InvoiceId : ReminderDays(i)' = ReminderDays(i)
        BY <2>1 DEF ReminderDays, tables
      <4>2. QED
        BY <2>1, <2>3, <3>1, <3>3, <3>4, <3>5, <4>1 DEF TargetsInv, tables
    <3>7. QED
      BY <3>2, <3>6 DEF ReminderInv
  <2>4. QED
    BY <2>1, <2>2, <2>3
<1>5. ASSUME NEW i \in InvoiceId, MarkReminded(i) \/ SendPaymentReminder(i)
      PROVE  ReminderInv'
  <2>1. /\ InPhase("remind") /\ InPhase("remind")' /\ today' = today /\ ticked' = ticked
        /\ customer' = customer
    BY <1>0, <1>5 DEF MarkReminded, SendPaymentReminder, InPhase, Continue, sweep, tables,
       dunningVars
  <2>2. /\ \A j \in InvoiceId : HereOrGoneNow(j) => HereOrGoneNow(j)'
        /\ \A j \in InvoiceId : ReminderDays(j)' = ReminderDays(j) /\ (Chasing(j)' <=> Chasing(j))
        /\ \A j \in InvoiceId : Exists(j)' <=> Exists(j)
    BY <1>0, <2>1, HereOrGone, ChaseStatus DEF HereOrGoneNow, ReminderDays, Chasing, Exists
  <2>3. /\ today[2] \in 2..suspendDay /\ (ticked => today[2] <= LastReminderDay)
        /\ sweep.todo \cap sweep.doing = {} /\ sweep.todo \subseteq InvoiceId
        /\ sweep.doing \subseteq InvoiceId
        /\ \A j \in sweep.todo \cup sweep.doing :
              monthOf(j) + 1 = today[1] /\ HereOrGoneNow(j) /\ remindersSent[j] + 1 <= ReminderDays(j)
        /\ \A j \in sweep.todo : invoice[j].lastReminderOn = NONE
                                 \/ Before(invoice[j].lastReminderOn, today)
    BY <2>1, ReminderTypes DEF ReminderInv, TargetsInv
  <2>4. CASE MarkReminded(i)
    <3>1. /\ sweep.doing = {} /\ i \in sweep.todo /\ remindersSent' = remindersSent
          /\ sweep'.todo = sweep.todo \ {i} /\ sweep'.doing = {i}
          /\ invoice' = IF Exists(i) THEN [invoice EXCEPT ![i] = Reminded(invoice[i])] ELSE invoice
      BY <1>0, <2>4 DEF MarkReminded, Continue, sweep, dunningVars
    <3>2. ASSUME Exists(i)
          PROVE  /\ invoice'[i].reminderCount = invoice[i].reminderCount + 1
                 /\ invoice'[i].lastReminderOn = today
      <4>1. invoice'[i] = Reminded(invoice[i]) /\ invoice[i] \in InvoiceRow(Payment)
        BY <1>0, <3>1, <3>2
      <4> DEFINE n == invoice[i].reminderCount + 1
      <4> HIDE DEF n
      <4>2. /\ [invoice[i] EXCEPT !.lastReminderOn = today, !.reminderCount = n].reminderCount = n
            /\ [invoice[i] EXCEPT !.lastReminderOn = today, !.reminderCount = n].lastReminderOn
                  = today
        BY <4>1 DEF InvoiceRow
      <4>3. QED
        BY <4>1, <4>2 DEF Reminded, n
    <3>3. \A j \in InvoiceId : j # i \/ ~Exists(i) => invoice'[j] = invoice[j]
      BY <1>0, <3>1
    <3>4. /\ invoice[i].lastReminderOn # today /\ Chasing(i)
          /\ invoice[i].reminderCount + 2 <= today[2] /\ ReminderDays(i) + 1 = today[2]
      <4>1. Chasing(i)
        BY <2>3, <3>1 DEF Chasing
      <4>2. invoice[i].lastReminderOn # today
        BY <2>3, <3>1, ReminderTypes, NullAssumption DEF Before
      <4>3. QED
        BY <4>1, <4>2, ReminderTypes DEF ReminderInv, CountsInv
    <3>5. CountsInv'
      <4> SUFFICES ASSUME NEW j \in InvoiceId
                   PROVE  /\ invoice'[j].reminderCount <= ReminderDays(j)
                          /\ Chasing(j) /\ invoice'[j].lastReminderOn # today =>
                                invoice'[j].reminderCount + 2 <= today[2]
        BY <2>1, <2>2 DEF CountsInv
      <4>1. CASE j = i /\ Exists(i)
        BY <3>2, <3>4, <4>1, ReminderTypes
      <4>2. CASE j # i \/ ~Exists(i)
        BY <3>3, <4>2 DEF ReminderInv, CountsInv
      <4>3. QED
        BY <4>1, <4>2
    <3>6. SentInv'
      <4> SUFFICES ASSUME NEW j \in InvoiceId
                   PROVE  /\ remindersSent[j] <= ReminderDays(j)
                          /\ remindersSent[j] > 0 => HereOrGoneNow(j)'
                          /\ Exists(j) => remindersSent[j] + Pending(j)' <= invoice'[j].reminderCount
        BY <2>2, <3>1 DEF SentInv
      <4>1. remindersSent[j] <= ReminderDays(j) /\ (remindersSent[j] > 0 => HereOrGoneNow(j)')
        BY <2>2 DEF ReminderInv, SentInv
      <4>2. Pending(j) = 0 /\ Pending(j)' = IF j = i THEN 1 ELSE 0
        BY <2>1, <3>1 DEF Pending
      <4>3. ASSUME Exists(j)
            PROVE  remindersSent[j] + Pending(j)' <= invoice'[j].reminderCount
        <5>1. remindersSent[j] <= invoice[j].reminderCount
          BY <4>2, <4>3, ReminderTypes DEF ReminderInv, SentInv
        <5>2. CASE j = i
          BY <3>2, <4>2, <4>3, <5>1, <5>2, ReminderTypes
        <5>3. CASE j # i
          BY <3>3, <4>2, <5>1, <5>3, ReminderTypes
        <5>4. QED
          BY <5>2, <5>3
      <4>4. QED
        BY <4>1, <4>3
    <3>7. TargetsInv'
      BY <2>1, <2>2, <2>3, <3>1, <3>3 DEF TargetsInv
    <3>8. QED
      BY <3>5, <3>6, <3>7 DEF ReminderInv
  <2>5. CASE SendPaymentReminder(i)
    <3>1. /\ i \in sweep.doing /\ invoice' = invoice
          /\ remindersSent' = [remindersSent EXCEPT ![i] = remindersSent[i] + 1]
          /\ sweep'.todo = sweep.todo /\ sweep'.doing = {}
      BY <1>0, <2>5 DEF SendPaymentReminder, Continue, sweep, tables
    <3>2. /\ remindersSent'[i] = remindersSent[i] + 1
          /\ \A j \in InvoiceId : j # i => remindersSent'[j] = remindersSent[j]
      BY <1>0, <3>1
    <3>3. CountsInv'
      BY <2>1, <2>2, <3>1 DEF ReminderInv, CountsInv
    <3>4. SentInv'
      <4> SUFFICES ASSUME NEW j \in InvoiceId
                   PROVE  /\ remindersSent'[j] <= ReminderDays(j)
                          /\ remindersSent'[j] > 0 => HereOrGoneNow(j)'
                          /\ Exists(j) => remindersSent'[j] + Pending(j)' <= invoice[j].reminderCount
        BY <2>2, <3>1 DEF SentInv
      <4>1. Pending(j)' = 0 /\ Pending(i) = 1 /\ Pending(j) \in Nat
        BY <2>1, <3>1 DEF Pending
      <4>2. CASE j = i
        BY <2>2, <2>3, <3>1, <3>2, <4>1, <4>2, ReminderTypes DEF ReminderInv, SentInv
      <4>3. CASE j # i
        BY <2>2, <3>2, <4>1, <4>3, ReminderTypes DEF ReminderInv, SentInv
      <4>4. QED
        BY <4>2, <4>3
    <3>5. TargetsInv'
      <4>1. \A j \in sweep'.todo \cup sweep'.doing : j \in sweep.todo /\ j # i
        BY <2>3, <3>1
      <4>2. QED
        BY <2>1, <2>2, <2>3, <3>1, <3>2, <4>1 DEF TargetsInv
    <3>6. QED
      BY <3>3, <3>4, <3>5 DEF ReminderInv
  <2>6. QED
    BY <1>5, <2>4, <2>5
<1>6. QED
  BY <1>2, <1>3, <1>4, <1>5 DEF ChaseStep, SweepStep, Tick, TargetStep

(* However often the sweeper fires, crashes, fails or works past midnight, *)
(* an invoice is reminded of at most once on each of the days for it: the  *)
(* counter of its row and the messages that went out both stay within the  *)
(* number of those days. (dunningRemind)                                   *)
THEOREM RemindedOnceADay == Spec => []OneReminderADay
<1>1. Init => ReminderInv
  <2> SUFFICES ASSUME Init PROVE ReminderInv
    OBVIOUS
  <2>1. /\ today = <<1, 1>> /\ ~InPhase("remind")
        /\ \A i \in InvoiceId : /\ remindersSent[i] = 0 /\ invoice[i].reminderCount = 0
                                /\ ~Exists(i) /\ monthOf(i) \in Nat
    BY CalendarFacts DEF Init, TablesInit, BillRunInit, DunningInit, NoInvoice, Exists, InPhase,
       sweep, Idle, Runner, InvoiceId, monthOf, BilledMonth
  <2>2. \A i \in InvoiceId : ReminderDays(i) \in Nat /\ ~Chasing(i) /\ Pending(i) = 0
    BY <2>1, CalendarFacts DEF ReminderDays, Chasing, Pending, generateDay, suspendDay
  <2>3. QED
    BY <2>1, <2>2 DEF ReminderInv, CountsInv, SentInv, TargetsInv
<1>2. TypeOK /\ SuspensionInv /\ ReminderInv /\ [Next]_vars => ReminderInv'
  <2>1. TypeOK /\ SuspensionInv /\ ReminderInv /\ Next => ReminderInv'
    BY BillingReminders, OtherReminders, RemindersKeptKeeps, ReminderChase, ReminderMidnight
       DEF Next
  <2>2. ReminderInv /\ UNCHANGED vars => ReminderInv'
    BY DEF vars, tables, billRunVars, dunningVars, ReminderInv, CountsInv, SentInv, TargetsInv,
       ReminderDays, Chasing, Pending, HereOrGoneNow, Exists, Present, InPhase, sweep
  <2>3. QED
    BY <2>1, <2>2
<1>3. ReminderInv => OneReminderADay
  BY DEF ReminderInv, CountsInv, SentInv, OneReminderADay
<1>4. QED
  BY <1>1, <1>2, <1>3, SuspensionAlways, PTL DEF Spec
=============================================================================

---------------------------- MODULE MoneyProofs ----------------------------
(***************************************************************************)
(* What holds of the money for any number of customers, payments and       *)
(* months: the audit row and the invoice agree, a webhook never overwrites *)
(* a settled invoice, and an event brings at most one receipt.             *)
(***************************************************************************)
EXTENDS BillingCycleProofs

(* What a step other than the webhook's UPDATE does to the payment         *)
(* reference of an invoice: nothing, or the row itself comes or goes.      *)
Kept(i) ==
    \/ invoice'[i].paid = invoice[i].paid
    \/ invoice'[i].paid = NONE /\ (~Exists(i) \/ ~Exists(i)')

LEMMA ReminderKeeps ==
    ASSUME invoice \in [InvoiceId -> InvoiceRow(Payment)], NEW i \in InvoiceId
    PROVE  Reminded(invoice[i]).paid = invoice[i].paid
<1>1. invoice[i] \in InvoiceRow(Payment)
  OBVIOUS
<1> DEFINE n == invoice[i].reminderCount + 1
<1> HIDE DEF n
<1>2. [invoice[i] EXCEPT !.lastReminderOn = today, !.reminderCount = n].paid = invoice[i].paid
  BY <1>1 DEF InvoiceRow
<1>3. QED
  BY <1>2 DEF Reminded, n

LEMMA PaidColumn ==
    ASSUME TypeOK, NEW i \in InvoiceId,
           \/ BillingStep \/ ChaseStep \/ AccountsStep \/ NextDay \/ Crash
           \/ \E j \in InvoiceId, s \in MarkStatus : MarkPaid(j, s)
    PROVE  Kept(i)
<1>1. invoice \in [InvoiceId -> InvoiceRow(Payment)] /\ NoInvoice.paid = NONE /\ FreshInvoice.paid = NONE
  BY DEF TypeOK, NoInvoice, FreshInvoice
<1>2. ASSUME invoice' = invoice
      PROVE  Kept(i)
  BY <1>2 DEF Kept
<1>3. ASSUME NEW j \in InvoiceId,
             \/ \E s \in MarkStatus : MarkPaid(j, s)
             \/ \E r \in Runner : MarkBillSent(r, j)
             \/ StampSuspended(j)
      PROVE  Kept(i)
  <2>1. \/ \E s \in MarkStatus : invoice' = [invoice EXCEPT ![j].status = s]
        \/ invoice' = [invoice EXCEPT ![j].billSentAt = TRUE]
        \/ invoice' = [invoice EXCEPT ![j].suspendedAt = TRUE]
        \/ invoice' = invoice
    BY <1>3 DEF MarkPaid, MarkBillSent, StampSuspended
  <2>2. invoice[i] \in InvoiceRow(Payment)
    BY <1>1
  <2>3. invoice'[i].paid = invoice[i].paid
    BY <1>1, <2>1, <2>2 DEF InvoiceRow
  <2>4. QED
    BY <2>3 DEF Kept
<1>4. ASSUME NEW j \in InvoiceId, MarkReminded(j)
      PROVE  Kept(i)
  BY <1>1, <1>4, ReminderKeeps DEF MarkReminded, Kept
<1>5. CASE BillingStep
  <2>1. ASSUME NEW r \in Runner, RunnerStep(r)
        PROVE  Kept(i)
    <3>1. CASE InsertInvoices(r)
      BY <1>1, <3>1 DEF InsertInvoices, Kept
    <3>2. CASE \E j \in InvoiceId : MarkBillSent(r, j)
      BY <1>3, <3>2
    <3>3. QED
      BY <1>2, <2>1, <3>1, <3>2 DEF RunnerStep, SendStep, GenerateFails, notifyFreshInvoices,
         notifyBill, SendFails, recordBillRun, tables
  <2>2. ASSUME NEW c \in Customer, FinalInvoice(c)
        PROVE  Kept(i)
    BY <1>1, <2>2 DEF FinalInvoice, Kept
  <2>3. QED
    BY <1>2, <1>5, <2>1, <2>2 DEF BillingStep, dunningGenerate, Generate, LateDelivery, tables
<1>6. CASE ChaseStep
  BY <1>2, <1>3, <1>4, <1>6 DEF ChaseStep, SweepStep, Tick, TickGenerate, ClaimGenerate,
     TickRemind, TickSuspend, StartSweep, TargetStep, SendPaymentReminder, SuspendCustomer,
     TargetFails, EndSweep, tables
<1>7. CASE AccountsStep
  <2>1. ASSUME NEW c \in Customer, Erase(c)
        PROVE  Kept(i)
    BY <1>1, <2>1 DEF Erase, Kept, Exists, NoInvoice
  <2>2. QED
    BY <1>2, <1>7, <2>1 DEF AccountsStep, HandleIncomingMessage, ChatStep, Approve, Reject,
       CheckDelete, Delete, DeleteFails, handleDisableAccount, handleReactivateAccount,
       handleDeleteAccount, pauseForExit, EraseAccount, MessageFails, tables
<1>8. CASE NextDay \/ Crash
  BY <1>2, <1>8 DEF NextDay, Crash, tables
<1>9. QED
  BY <1>3, <1>5, <1>6, <1>7, <1>8

-----------------------------------------------------------------------------
(* The webhook's goroutine, as far as its audit row shows it.              *)

(* Where the goroutine is and what the event's row says belong together.   *)
WorkerMatches(p) ==
    /\ worker[p] \in {"read", "update", "finish"} => outcome[p] = "IGNORED"
    /\ worker[p] = "onPaid" => outcome[p] \in {"IGNORED", "APPLIED"}
    /\ outcome[p] # NONE => paidFor[p] # NONE

(* A receipt is out only when the goroutine is through. *)
ReceiptMatches(p) ==
    /\ receipts[p] <= 1
    /\ receipts[p] = 1 => outcome[p] \in {"IGNORED", "APPLIED"} /\ worker[p] = "none"

(* An invoice bears a payment only after the goroutine's UPDATE. *)
ReferenceMatches(p) ==
    \A i \in InvoiceId : invoice[i].paid = p =>
        /\ paidFor[p] = i
        /\ outcome[p] \in {"IGNORED", "APPLIED"}
        /\ worker[p] \notin {"read", "update"}

MoneyInv == \A p \in Payment : WorkerMatches(p) /\ ReceiptMatches(p) /\ ReferenceMatches(p)

LEMMA MoneyInit == Init => MoneyInv
<1> SUFFICES ASSUME Init, NEW p \in Payment
             PROVE  WorkerMatches(p) /\ ReceiptMatches(p) /\ ReferenceMatches(p)
  BY DEF MoneyInv
<1>1. paidFor[p] = NONE /\ outcome[p] = NONE /\ worker[p] = "none" /\ receipts[p] = 0
  BY DEF Init, PaymentsInit
<1>2. \A i \in InvoiceId : invoice[i].paid # p
  BY NullAssumption DEF Init, TablesInit, NoInvoice
<1>3. QED
  BY <1>1, <1>2 DEF WorkerMatches, ReceiptMatches, ReferenceMatches

(* Steps outside the webhook touch a payment only by ending its goroutine. *)
LEMMA MoneyElsewhere ==
    ASSUME TypeOK, MoneyInv,
           \/ BillingStep \/ ChaseStep \/ AccountsStep \/ NextDay \/ Crash
           \/ \E j \in InvoiceId, s \in MarkStatus : MarkPaid(j, s)
    PROVE  MoneyInv'
<1> SUFFICES ASSUME NEW p \in Payment
             PROVE  (WorkerMatches(p) /\ ReceiptMatches(p) /\ ReferenceMatches(p))'
  BY DEF MoneyInv
<1>1. WorkerMatches(p) /\ ReceiptMatches(p) /\ ReferenceMatches(p)
  BY DEF MoneyInv
<1>2. /\ paidFor' = paidFor /\ outcome' = outcome /\ receipts' = receipts
      /\ worker'[p] \in {worker[p], "none"}
  <2>1. CASE Crash
    BY <2>1 DEF Crash
  <2>2. CASE ~Crash
    <3>1. UNCHANGED paymentVars
      BY <2>2 DEF BillingStep, ChaseStep, NextDay, MarkPaid, AccountsStep,
         HandleIncomingMessage, ChatStep, Approve, Reject, CheckDelete, Delete, DeleteFails,
         handleDisableAccount, handleReactivateAccount, handleDeleteAccount, pauseForExit,
         EraseAccount, MessageFails
    <3>2. QED
      BY <3>1 DEF paymentVars
  <2>3. QED
    BY <2>1, <2>2
<1>3. WorkerMatches(p)' /\ ReceiptMatches(p)'
  BY <1>1, <1>2 DEF WorkerMatches, ReceiptMatches
<1>4. ASSUME NEW i \in InvoiceId, invoice'[i].paid = p
      PROVE  invoice[i].paid = p
  BY <1>4, PaidColumn, NullAssumption DEF Kept
<1>5. ReferenceMatches(p)'
  BY <1>1, <1>2, <1>4 DEF ReferenceMatches
<1>6. QED
  BY <1>3, <1>5

(* The steps of the webhook itself. *)
LEMMA MoneyWebhook ==
    ASSUME TypeOK, MoneyInv, NEW q \in Payment,
           (\E i \in InvoiceId : CustomerPays(q, i)) \/ HandleWebhook(q) \/ ProcessStep(q)
    PROVE  MoneyInv'
<1>0. /\ paidFor \in [Payment -> InvoiceId \cup {NONE}]
      /\ outcome \in [Payment -> Outcome \cup {NONE}]
      /\ worker \in [Payment -> WorkerStep] /\ receipts \in [Payment -> Nat]
      /\ invoice \in [InvoiceId -> InvoiceRow(Payment)]
  BY DEF TypeOK, PaymentsTypeOK
<1> SUFFICES ASSUME NEW p \in Payment
             PROVE  (WorkerMatches(p) /\ ReceiptMatches(p) /\ ReferenceMatches(p))'
  BY DEF MoneyInv
<1>1. /\ WorkerMatches(p) /\ ReceiptMatches(p) /\ ReferenceMatches(p)
      /\ WorkerMatches(q) /\ ReceiptMatches(q) /\ ReferenceMatches(q)
  BY DEF MoneyInv
<1>2. NONE \notin {"IGNORED", "UNMATCHED", "ALREADY_PAID", "APPLIED"}
  BY NullAssumption DEF Outcome
<1> USE DEF WorkerMatches, ReceiptMatches, ReferenceMatches
<1>3. ASSUME NEW i \in InvoiceId, CustomerPays(q, i)
      PROVE  (WorkerMatches(p) /\ ReceiptMatches(p) /\ ReferenceMatches(p))'
  <2>1. /\ paidFor[q] = NONE /\ paidFor' = [paidFor EXCEPT ![q] = i] /\ invoice' = invoice
        /\ outcome' = outcome /\ worker' = worker /\ receipts' = receipts
    BY <1>3 DEF CustomerPays, tables
  <2>2. \A j \in InvoiceId : invoice[j].paid # q
    BY <1>1, <2>1, NullAssumption
  <2>3. QED
    BY <1>0, <1>1, <2>1, <2>2, NullAssumption
<1>4. CASE HandleWebhook(q)
  <2>1. /\ paidFor[q] # NONE /\ outcome[q] = NONE
        /\ outcome' = [outcome EXCEPT ![q] = "IGNORED"]
        /\ worker' = [worker EXCEPT ![q] = "read"]
        /\ invoice' = invoice /\ paidFor' = paidFor /\ receipts' = receipts
    BY <1>4 DEF HandleWebhook, tables
  <2>2. (\A j \in InvoiceId : invoice[j].paid # q) /\ receipts[q] # 1
    BY <1>1, <1>2, <2>1
  <2>3. QED
    BY <1>0, <1>1, <1>2, <2>1, <2>2
<1>5. CASE ReadInvoice(q)
  <2>1. /\ worker[q] = "read" /\ invoice' = invoice /\ paidFor' = paidFor /\ receipts' = receipts
        /\ \/ Finish(q, "UNMATCHED", "none") \/ Finish(q, "ALREADY_PAID", "none")
           \/ worker' = [worker EXCEPT ![q] = "update"] /\ outcome' = outcome
    BY <1>5 DEF ReadInvoice, tables
  <2>2. (\A j \in InvoiceId : invoice[j].paid # q) /\ receipts[q] # 1
    BY <1>1, <2>1
  <2>3. QED
    BY <1>0, <1>1, <1>2, <2>1, <2>2 DEF Finish
<1>6. CASE MarkPaidOnline(q)
  <2>1. /\ worker[q] = "update" /\ worker' = [worker EXCEPT ![q] = "finish"]
        /\ invoice' = SettledOnline(q, paidFor[q])
        /\ paidFor' = paidFor /\ receipts' = receipts /\ outcome' = outcome
    BY <1>6 DEF MarkPaidOnline
  <2>2. /\ paidFor[q] \in InvoiceId /\ outcome[q] = "IGNORED"
        /\ \A j \in InvoiceId : invoice[j].paid # q
        /\ receipts[q] # 1
    BY <1>0, <1>1, <1>2, <2>1
  <2>3. ASSUME NEW j \in InvoiceId, invoice'[j].paid # invoice[j].paid
        PROVE  invoice'[j].paid = q /\ j = paidFor[q]
    <3>1. invoice[j] \in InvoiceRow(Payment) /\ invoice[paidFor[q]] \in InvoiceRow(Payment)
      BY <1>0, <2>2
    <3>2. QED
      BY <1>0, <2>1, <2>2, <2>3, <3>1 DEF SettledOnline, InvoiceRow
  <2>4. WorkerMatches(p)' /\ ReceiptMatches(p)'
    BY <1>0, <1>1, <2>1, <2>2
  <2>5. ASSUME NEW i \in InvoiceId, invoice'[i].paid = p
        PROVE  paidFor'[p] = i /\ outcome'[p] \in {"IGNORED", "APPLIED"}
                               /\ worker'[p] \notin {"read", "update"}
    <3>1. CASE p = q
      BY <1>0, <2>1, <2>2, <2>3, <2>5, <3>1
    <3>2. CASE p # q
      <4>1. invoice[i].paid = p
        BY <2>3, <2>5, <3>2
      <4>2. worker'[p] = worker[p]
        BY <1>0, <2>1, <3>2
      <4>3. QED
        BY <1>1, <2>1, <4>1, <4>2
    <3>3. QED
      BY <3>1, <3>2
  <2>6. QED
    BY <2>4, <2>5
<1>7. CASE ProcessFails(q)
  <2>1. /\ worker[q] \in {"read", "update"} /\ Finish(q, "UNMATCHED", "none")
        /\ invoice' = invoice /\ paidFor' = paidFor /\ receipts' = receipts
    BY <1>7 DEF ProcessFails, tables
  <2>2. (\A j \in InvoiceId : invoice[j].paid # q) /\ receipts[q] # 1
    BY <1>1, <2>1
  <2>3. QED
    BY <1>0, <1>1, <1>2, <2>1, <2>2 DEF Finish
<1>8. CASE FinishApplied(q)
  <2>1. /\ worker[q] = "finish"
        /\ Finish(q, "APPLIED", "onPaid") \/ Finish(q, outcome[q], "onPaid")
        /\ invoice' = invoice /\ paidFor' = paidFor /\ receipts' = receipts
    BY <1>8 DEF FinishApplied, tables
  <2>2. receipts[q] # 1 /\ paidFor[q] # NONE
    BY <1>1, <1>2, <2>1
  <2>3. QED
    BY <1>0, <1>1, <1>2, <2>1, <2>2 DEF Finish
<1>9. CASE OnPaid(q) \/ OnPaidFails(q)
  <2>1. /\ worker[q] = "onPaid" /\ worker' = [worker EXCEPT ![q] = "none"]
        /\ invoice' = invoice /\ paidFor' = paidFor /\ outcome' = outcome
        /\ \/ receipts' = receipts
           \/ receipts' = [receipts EXCEPT ![q] = receipts[q] + 1]
    BY <1>0, <1>9 DEF OnPaid, OnPaidFails, tables
  <2>2. receipts[q] = 0 /\ outcome[q] \in {"IGNORED", "APPLIED"}
    BY <1>0, <1>1, <2>1
  <2>3. QED
    BY <1>0, <1>1, <2>1, <2>2
<1>10. QED
  BY <1>3, <1>4, <1>5, <1>6, <1>7, <1>8, <1>9 DEF ProcessStep

LEMMA MoneyStep == TypeOK /\ MoneyInv /\ [Next]_vars => MoneyInv'
<1> SUFFICES ASSUME TypeOK, MoneyInv, [Next]_vars PROVE MoneyInv'
  OBVIOUS
<1>1. CASE PayStep
  <2>1. CASE \E p \in Payment : (\E i \in InvoiceId : CustomerPays(p, i)) \/ HandleWebhook(p)
                                \/ ProcessStep(p)
    BY <2>1, MoneyWebhook
  <2>2. CASE \E i \in InvoiceId, s \in MarkStatus : MarkPaid(i, s)
    BY <2>2, MoneyElsewhere
  <2>3. QED
    BY <1>1, <2>1, <2>2 DEF PayStep, PaymentsStep
<1>2. CASE UNCHANGED vars
  BY <1>2 DEF vars, tables, paymentVars, MoneyInv, WorkerMatches, ReceiptMatches,
              ReferenceMatches
<1>3. QED
  BY <1>1, <1>2, MoneyElsewhere DEF Next

LEMMA MoneyAlways == Spec => [](TypeOK /\ MoneyInv)
<1>1. Spec => []TypeOK
  BY TypeCorrect
<1>2. QED
  BY <1>1, MoneyInit, MoneyStep, PTL DEF Spec

-----------------------------------------------------------------------------
(* The audit row and the invoice agree: a payment recorded as refused      *)
(* settled nothing, and the reference on an invoice is a payment made for  *)
(* that invoice. (process, finish)                                         *)
THEOREM AuditCorrect == Spec => []AuditAgrees
<1>1. MoneyInv => AuditAgrees
  BY DEF MoneyInv, ReferenceMatches, AuditAgrees
<1>2. QED
  BY <1>1, MoneyAlways, PTL

(* However often Razorpay delivers an event, the customer gets at most one *)
(* receipt for it, and none for a payment recorded as refused.             *)
(* (claimEvent, OnPaid)                                                    *)
THEOREM ReceiptsCorrect == Spec => []OneReceiptPerPayment
<1>1. TypeOK /\ MoneyInv => OneReceiptPerPayment
  BY DEF TypeOK, PaymentsTypeOK, MoneyInv, ReceiptMatches, OneReceiptPerPayment, Refused
<1>2. QED
  BY <1>1, MoneyAlways, PTL

(* No step, of the webhook or of anything racing it, changes the payment   *)
(* reference of an invoice that is already settled.                        *)
(* (process: the re-check inside the UPDATE)                               *)
THEOREM SettledStaysSettled == Spec => WebhookNeverOverwrites
<1>1. ASSUME TypeOK, [Next]_vars
      PROVE  [\A i \in InvoiceId :
                 IsPaid(i) /\ Exists(i)' => invoice'[i].paid = invoice[i].paid]_vars
  <2> SUFFICES ASSUME NEW i \in InvoiceId, IsPaid(i), Exists(i)', Next
               PROVE  invoice'[i].paid = invoice[i].paid
    BY <1>1
  <2>1. Exists(i)
    BY DEF IsPaid, PaidStatus, Exists
  <2>2. CASE PayStep
    <3>1. ASSUME NEW p \in Payment, MarkPaidOnline(p)
          PROVE  invoice'[i].paid = invoice[i].paid
      <4>1. invoice \in [InvoiceId -> InvoiceRow(Payment)] /\ invoice' = SettledOnline(p, paidFor[p])
        BY <1>1, <3>1 DEF TypeOK, MarkPaidOnline
      <4>2. ~Unpaid(i)
        BY DEF IsPaid, Unpaid, PaidStatus
      <4>3. QED
        BY <4>1, <4>2 DEF SettledOnline
    <3>2. CASE \E j \in InvoiceId, s \in MarkStatus : MarkPaid(j, s)
      BY <1>1, <2>1, <3>2, PaidColumn DEF Kept
    <3>3. QED
      BY <2>2, <3>1, <3>2 DEF PayStep, PaymentsStep, ProcessStep, CustomerPays, HandleWebhook,
         ReadInvoice, ProcessFails, FinishApplied, OnPaid, OnPaidFails, tables
  <2>3. CASE ~PayStep
    BY <1>1, <2>1, <2>3, PaidColumn DEF Next, Kept
  <2>4. QED
    BY <2>2, <2>3
<1>2. QED
  BY <1>1, TypeCorrect, PTL DEF Spec, WebhookNeverOverwrites
=============================================================================

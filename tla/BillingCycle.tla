--------------------------- MODULE BillingCycle ---------------------------
(***************************************************************************)
(* The billing cycle as it runs: the sweeper, the admin, the webhook and   *)
(* the WhatsApp goroutines interleaved over the shared tables, with the    *)
(* calendar moving and the process crashing under them.                    *)
(***************************************************************************)
EXTENDS Accounts

vars == <<tables, billRunVars, dunningVars, paymentVars, accountVars>>

Init ==
    /\ TablesInit
    /\ BillRunInit
    /\ DunningInit
    /\ PaymentsInit
    /\ AccountsInit

-----------------------------------------------------------------------------
(* Midnight.  The hourly ticker fires at least once on a day the process   *)
(* is up; when the process can fail it may also be down all day.  A sweep  *)
(* has twenty minutes, so it can cross one midnight and not two.           *)
LastDay == <<LastMonth + 1, DaysInMonth>>

NextDay ==
    /\ today # LastDay
    /\ ticked \/ (Fallible /\ ~Running("sweeper"))
    /\ today' = IF today[2] < DaysInMonth THEN <<today[1], today[2] + 1>>
                ELSE <<today[1] + 1, 1>>
    /\ ticked' = FALSE
    /\ generateClaimed' = FALSE
    /\ UNCHANGED <<customer, invoice, billable, job, billsSent, remindersSent, paymentVars, accountVars>>

(* A crash or a deploy ends every goroutine; the rows stay. *)
Crash ==
    /\ Fallible
    /\ job' = [r \in Runner |-> Idle]
    /\ worker' = [p \in Payment |-> "none"]
    /\ chat' = [c \in Customer |-> "none"]
    /\ admin' = [c \in Customer |-> "none"]
    /\ UNCHANGED <<tables, billable, generateClaimed, billsSent, dunningVars, paidFor, outcome, receipts>>

BillingStep ==
    /\ \/ dunningGenerate
       \/ \E m \in BilledMonth : Generate(m)
       \/ \E r \in Runner : RunnerStep(r)
       \/ \E c \in Customer : FinalInvoice(c)
       \/ \E i \in InvoiceId : LateDelivery(i)
    /\ UNCHANGED <<dunningVars, paymentVars, accountVars>>

ChaseStep == SweepStep /\ UNCHANGED <<paymentVars, accountVars>>
PayStep   == PaymentsStep /\ UNCHANGED accountVars

Next == BillingStep \/ ChaseStep \/ PayStep \/ AccountsStep \/ NextDay \/ Crash

Spec == Init /\ [][Next]_vars

(***************************************************************************)
(* Fairness.  The sweeper is a loop on a ticker and its sweeps are         *)
(* straight-line code; the runtime keeps scheduling a goroutine that can   *)
(* run; Razorpay redelivers an event until it is answered 2xx; midnight    *)
(* comes.  Nothing makes a customer or the admin act, nor anything fail.   *)
(***************************************************************************)
Fairness ==
    /\ WF_vars(SweepStep /\ UNCHANGED <<paymentVars, accountVars>>)
    /\ \A r \in Runner : WF_vars((dunningGenerate \/ RunnerStep(r))
                                 /\ UNCHANGED <<dunningVars, paymentVars, accountVars>>)
    /\ \A p \in Payment : WF_vars((HandleWebhook(p) \/ ProcessStep(p)) /\ UNCHANGED accountVars)
    /\ \A c \in Customer : WF_vars(ChatStep(c) \/ Delete(c))
    /\ WF_vars(NextDay)

FairSpec == Spec /\ Fairness

-----------------------------------------------------------------------------
(* Type invariant: the rows and the goroutines' states have their shape.   *)
TypeOK ==
    /\ today \in Date
    /\ customer \in [Customer -> CustomerRow]
    /\ invoice \in [InvoiceId -> InvoiceRow(Payment)]
    /\ BillRunTypeOK
    /\ DunningTypeOK
    /\ PaymentsTypeOK
    /\ AccountsTypeOK

-----------------------------------------------------------------------------
(* The chase.                                                              *)

(* The days to the fifth that followed the invoice's month are over. *)
GraceOver(i) == Before(<<monthOf(i) + 1, LastReminderDay>>, today)

(* The suspension of c names one of its own invoices, raised and past its  *)
(* grace days, keeps c off the rounds and knows what to put it back to.    *)
HasGrounds(c) ==
    /\ ~customer[c].isActive
    /\ customer[c].before \in LiveStatus
    /\ customer[c].suspendedFor \in InvoiceId
    /\ owner(customer[c].suspendedFor) = c
    /\ Exists(customer[c].suspendedFor)
    /\ GraceOver(customer[c].suspendedFor)

(* A suspended customer is off the rounds, the suspension names one of its *)
(* own invoices, raised and past its grace days, and the status to go back *)
(* to is never 'suspended' itself: whatever the sweep, the payment and the *)
(* messages do to each other, paying that invoice has somewhere to lead.   *)
(* (dunningSuspend, ResumeIfSuspended, and the handlers that write status) *)
SuspensionGrounds ==
    \A c \in Customer : customer[c].status = "suspended" => HasGrounds(c)

(* Days on which an invoice may have been reminded of by now: from the 2nd *)
(* to the 5th, plus one for a sweep that crosses midnight into the 6th.    *)
ReminderDays(i) ==
    CASE today[1] <= monthOf(i)     -> 0
      [] today[1] = monthOf(i) + 1 /\ today[2] < suspendDay -> today[2] - generateDay
      [] OTHER                      -> suspendDay - generateDay

(* At most one reminder per invoice per day, no matter how often the       *)
(* sweeper fires, crashes or fails: neither the counter of the row nor the *)
(* messages that went out exceed the days there were. (dunningRemind)      *)
OneReminderADay ==
    \A i \in InvoiceId :
        /\ invoice[i].reminderCount <= ReminderDays(i)
        /\ remindersSent[i] <= ReminderDays(i)

(* The automated run bills nobody twice, whatever crashes between a bill   *)
(* and its marker: the claimed day keeps a restarted sweeper out.  (An     *)
(* admin's run or a final invoice may.)  (dunningGenerate, sendOneBill)    *)
AutomatedRunBillsOnce ==
    Request \cap {"generate", "finalInvoice"} = {} =>
        \A i \in InvoiceId : billsSent[i] <= 1

(* bill_sent_at is never set for a bill that did not go out. (sendOneBill) *)
MarkedBillsWentOut ==
    \A i \in InvoiceId : Exists(i) /\ invoice[i].billSentAt => billsSent[i] >= 1

(* While bills go out, each one queued or sent-but-unmarked has its invoice *)
(* row behind it, unless the account was deleted under the run: no customer *)
(* is billed from a tally that was never committed. (InsertInvoices, the    *)
(* bill_sent_at selection, account deletion)                                *)
QueuedBillsAreInvoices ==
    \A r \in Runner, i \in InvoiceId :
        job[r].phase \in {"committed", "sending"} /\ i \in job[r].todo \cup job[r].doing =>
            Exists(i) \/ ~Present(owner(i))

(* The runs that will still send the bill of i. *)
Queued(i) == {r \in Runner : job[r].phase = "sending" /\ i \in job[r].todo}

(* Two runs of a month may overlap and select the same unsent bills, and   *)
(* nothing looks again before a message goes out.  Still nobody gets a     *)
(* bill over and over: once its marker is set no run queues it again, at   *)
(* most one run is left that had, and the message of that run is the last. *)
(* (notifyFreshInvoices, sendOneBill)                                      *)
OneMoreAfterTheMarker ==
    [][\A i \in InvoiceId : Exists(i) /\ invoice[i].billSentAt =>
          /\ Queued(i)' \subseteq Queued(i)
          /\ billsSent'[i] # billsSent[i] => Queued(i)' = {}]_vars

-----------------------------------------------------------------------------
(* The money.                                                              *)

(* A settled invoice keeps the payment that settled it: no webhook, late,  *)
(* doubled or racing the admin, writes its reference over a paid invoice.  *)
(* (process: the re-check inside the UPDATE)                               *)
WebhookNeverOverwrites ==
    [][\A i \in InvoiceId :
          IsPaid(i) /\ Exists(i)' => invoice'[i].paid = invoice[i].paid]_vars

(* The audit row and the invoice agree: a payment recorded as refused      *)
(* (ALREADY_PAID, UNMATCHED) settled nothing, and the reference on an      *)
(* invoice is a payment made for that invoice. (process, finish)           *)
AuditAgrees ==
    \A p \in Payment, i \in InvoiceId : invoice[i].paid = p =>
        paidFor[p] = i /\ outcome[p] \in {"IGNORED", "APPLIED"}

Refused == {"ALREADY_PAID", "UNMATCHED"}

(* However often an event is delivered, the customer gets one receipt for  *)
(* it, and none for a payment recorded as refused. (claimEvent, OnPaid)    *)
OneReceiptPerPayment ==
    \A p \in Payment : receipts[p] <= 1 /\ (outcome[p] \in Refused => receipts[p] = 0)

(* The ledger the rows stand for: a bill is gone with its customer, and an *)
(* event that is claimed and no more is not ruled on yet.                  *)
Standing(i) ==
    CASE ~Present(owner(i)) -> "gone"
      [] Present(owner(i)) /\ ~Exists(i) -> "none"
      [] Present(owner(i)) /\ Unpaid(i) -> "open"
      [] OTHER -> "settled"

Ruling(p) ==
    CASE outcome[p] = "APPLIED" -> "applied"
      [] outcome[p] \in Refused -> "refused"
      [] OTHER -> NONE

Ledger == INSTANCE PaymentLedger WITH
    Month <- BilledMonth,
    MayFail <- Fallible,
    MayReopen <- ("PENDING" \in MarkStatus),
    bill <- [i \in InvoiceId |-> Standing(i)],
    settledBy <- [i \in InvoiceId |-> invoice[i].paid],
    madeFor <- paidFor,
    ruling <- [p \in Payment |-> Ruling(p)]

(* The cycle implements the ledger: however deliveries, two payments, the  *)
(* admin's hand, deletions and crashes fall between the statements, an     *)
(* open bill is settled by one payment of it, which settles no other bill  *)
(* and not this one again; a payment recorded as APPLIED leaves its bill   *)
(* settled, by itself or by what overtook it, or its customer gone; and    *)
(* one that settled its bill is never recorded as refused.  (process, the  *)
(* re-check in its UPDATE, finish, MarkPaid, account deletion)             *)
PaymentsFollowTheLedger == Ledger!LedgerSpec

(* A suspended customer is back on the rounds only through an admin's      *)
(* approval or a payment, not refused, of the very invoice it is suspended *)
(* for, which is settled by then (unless the admin set it back to PENDING  *)
(* by hand): nothing the customer types brings the milk back. (OnPaid,     *)
(* ResumeIfSuspended, the message handlers)                                *)
OnlyPaymentRestoresService ==
    [][\A c \in Customer :
          customer[c].status = "suspended" /\ customer'[c].isActive =>
              \/ Approve(c)
              \/ /\ \E p \in Payment : /\ paidFor[p] = customer[c].suspendedFor
                                       /\ outcome[p] \notin Refused
                 /\ "PENDING" \notin MarkStatus => IsPaid(customer[c].suspendedFor)]_vars

-----------------------------------------------------------------------------
(* What eventually happens while nothing fails.                            *)

(* A bill still unpaid in its grace days ends in a suspension, a payment   *)
(* or a closed account. (runDunning, dunningSuspend)                       *)
UnpaidIsChased ==
    \A i \in InvoiceId :
        Unpaid(i) /\ today[1] = monthOf(i) + 1 /\ ~GraceOver(i)
            ~> IsPaid(i) \/ customer[owner(i)].status \in {"suspended", "ABSENT"}

(* Every invoice that is raised gets its bill sent, unless its customer is *)
(* deleted first. (notifyFreshInvoices, FinalInvoice)                      *)
EveryInvoiceIsBilled ==
    \A i \in InvoiceId : Exists(i) ~> billsSent[i] >= 1 \/ ~Exists(i)

(* Money Razorpay captured for an invoice settles it, through redelivery   *)
(* and whatever else is happening to the invoice. (HandleWebhook, process) *)
CapturedMoneySettles ==
    \A p \in Payment, i \in InvoiceId : paidFor[p] = i ~> IsPaid(i) \/ ~Exists(i)

(* A suspension standing when the webhook records its invoice's payment is *)
(* lifted. (process, OnPaid, ResumeIfSuspended)                            *)
PaymentLiftsSuspension ==
    \A p \in Payment, c \in Customer :
        worker[p] = "finish" /\ customer[c].status = "suspended"
                             /\ customer[c].suspendedFor = paidFor[p]
            ~> customer[c].status # "suspended" \/ customer[c].suspendedFor # paidFor[p]
=============================================================================

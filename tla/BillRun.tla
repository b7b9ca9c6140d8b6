------------------------------ MODULE BillRun ------------------------------
(***************************************************************************)
(* Month-end billing: the invoices of a finished month are inserted in one *)
(* transaction, then every invoice without bill_sent_at gets its bill over *)
(* WhatsApp.  Two goroutines run this code: the dunning sweeper on the     *)
(* 1st (dunningGenerate), which first claims the day in dunning_runs, and  *)
(* the admin's POST /generate (Generate), which may name any past month.   *)
(* FinalInvoice bills one leaving customer for the month still running.    *)
(*                                                                         *)
(* Deliveries appear as the set billable: the customers with something to  *)
(* pay for in a month.  Amounts, breakdowns and payment links are          *)
(* abstracted: nothing here depends on them.                               *)
(***************************************************************************)
EXTENDS BillingTables

VARIABLES
    billable,         \* the customer has DELIVERED rows in the month, worth > 0
    generateClaimed,  \* dunning_runs holds a GENERATE row for today's date
    job,              \* what each billing goroutine is in the middle of
    billsSent         \* history: bill messages WhatsApp accepted, per invoice

billRunVars == <<billable, generateClaimed, job, billsSent>>

Runner == {"sweeper", "admin"}

(* todo: tallied invoices, then the unsent ones, then the sweep's targets; *)
(* doing: those between their first effect and their last.                 *)
Phase == {"idle", "claimed", "tallied", "committed", "sending", "remind", "suspend"}
Job == [phase : Phase,
        month : BilledMonth, todo : SUBSET InvoiceId, doing : SUBSET InvoiceId]
Idle == [phase |-> "idle", month |-> 0, todo |-> {}, doing |-> {}]
Running(r) == job[r].phase # "idle"

Continue(r, phase, todo, doing) ==
    job' = [job EXCEPT ![r] = [phase |-> phase, month |-> job[r].month,
                               todo |-> todo, doing |-> doing]]
Start(r, phase, month, todo) ==
    job' = [job EXCEPT ![r] = [phase |-> phase, month |-> month, todo |-> todo, doing |-> {}]]
Rest(r) == job' = [job EXCEPT ![r] = Idle]

BillRunInit ==
    /\ billable \in IF "lateDelivery" \in Request THEN SUBSET InvoiceId ELSE {InvoiceId}
    /\ generateClaimed = FALSE
    /\ job = [r \in Runner |-> Idle]
    /\ billsSent = [i \in InvoiceId |-> 0]

(* aggregate: the customers with delivered orders in the month. *)
Tallies(m) == {i \in billable : monthOf(i) = m /\ Present(owner(i))}

(* A delivery of a month that has begun is logged or corrected afterwards. *)
LateDelivery(i) ==
    /\ "lateDelivery" \in Request
    /\ monthOf(i) <= today[1]
    /\ Present(owner(i))
    /\ billable' = billable \cup {i}
    /\ UNCHANGED <<tables, generateClaimed, job, billsSent>>

-----------------------------------------------------------------------------
(* The sweeper's claim: INSERT INTO dunning_runs ... ON CONFLICT DO        *)
(* NOTHING, before any work.  Someone else's row for today stops it here.  *)
(* (A claim, or a sweep's SELECT, that fails is a tick that did not happen.) *)
ClaimGenerate ==
    /\ ~Running("sweeper")
    /\ today[2] = generateDay
    /\ generateClaimed' = TRUE
    /\ IF generateClaimed THEN UNCHANGED job
       ELSE Start("sweeper", "claimed", targetMonth(today), {})
    /\ UNCHANGED <<tables, billable, billsSent>>

dunningGenerate ==
    /\ job["sweeper"].phase = "claimed"
    /\ Continue("sweeper", "tallied", Tallies(job["sweeper"].month), {})
    /\ UNCHANGED <<tables, billable, generateClaimed, billsSent>>

(* The admin's Generate refuses the current and future months. *)
Generate(m) ==
    /\ "generate" \in Request
    /\ ~Running("admin")
    /\ m < today[1]
    /\ Start("admin", "tallied", m, Tallies(m))
    /\ UNCHANGED <<tables, billable, generateClaimed, billsSent>>

(* The transaction that inserts the tallied invoices.  Bills are sent only *)
(* if it inserted at least one.  A tallied customer deleted meanwhile      *)
(* violates the foreign key and rolls the whole month back.                *)
InsertInvoices(r) ==
    LET generated == {i \in job[r].todo : ~Exists(i)}
    IN  /\ job[r].phase = "tallied"
        /\ \A i \in generated : Present(owner(i))
        /\ invoice' = [i \in InvoiceId |->
                          IF i \in generated THEN FreshInvoice ELSE invoice[i]]
        /\ IF generated = {} THEN Rest(r) ELSE Continue(r, "committed", job[r].todo, {})
        /\ UNCHANGED <<today, customer, billable, generateClaimed, billsSent>>

(* Mutant: the failed transaction is logged, and the bills go out anyway. *)
GenerateFailsUnnoticed(r) ==
    /\ Fallible /\ job[r].phase = "tallied"
    /\ Continue(r, "committed", job[r].todo, {})
    /\ UNCHANGED <<tables, billable, generateClaimed, billsSent>>

(* Any of a run's statements may fail; what it did before stays done.      *)
GenerateFails(r) ==
    /\ \/ Fallible /\ job[r].phase \in {"claimed", "tallied", "committed"}
       \/ job[r].phase = "tallied" /\ \E i \in job[r].todo : ~Present(owner(i))
    /\ Rest(r)
    /\ UNCHANGED <<tables, billable, generateClaimed, billsSent>>

(* Mutants: without the condition on bill_sent_at; and paused customers    *)
(* are left out of the query.                                              *)
notifyEveryInvoice(r) ==
    LET queue == {i \in job[r].todo : Exists(i)}
    IN  /\ job[r].phase = "committed"
        /\ IF queue = {} THEN Rest(r) ELSE Continue(r, "sending", queue, {})
        /\ UNCHANGED <<tables, billable, generateClaimed, billsSent>>

notifyActiveOnly(r) ==
    LET queue == {i \in job[r].todo : /\ Exists(i) /\ ~invoice[i].billSentAt
                                      /\ customer[owner(i)].status = "active"}
    IN  /\ job[r].phase = "committed"
        /\ IF queue = {} THEN Rest(r) ELSE Continue(r, "sending", queue, {})
        /\ UNCHANGED <<tables, billable, generateClaimed, billsSent>>

(* notifyFreshInvoices: SELECT ... WHERE bill_sent_at IS NULL. *)
notifyFreshInvoices(r) ==
    LET queue == {i \in job[r].todo : Exists(i) /\ ~invoice[i].billSentAt}
    IN  /\ job[r].phase = "committed"
        /\ IF queue = {} THEN Rest(r) ELSE Continue(r, "sending", queue, {})
        /\ UNCHANGED <<tables, billable, generateClaimed, billsSent>>

(* sendOneBill, by any of the five workers: the message goes out first,    *)
(* then the row is marked by customer and month.                           *)
notifyBill(r, i) ==
    /\ job[r].phase = "sending"
    /\ i \in job[r].todo
    /\ Present(owner(i))
    /\ billsSent' = [billsSent EXCEPT ![i] = @ + 1]
    /\ Continue(r, "sending", job[r].todo \ {i}, job[r].doing \cup {i})
    /\ UNCHANGED <<tables, billable, generateClaimed>>

MarkBillSent(r, i) ==
    /\ job[r].phase = "sending"
    /\ i \in job[r].doing
    /\ invoice' = IF Exists(i) THEN [invoice EXCEPT ![i].billSentAt = TRUE] ELSE invoice
    /\ Continue(r, "sending", job[r].todo, job[r].doing \ {i})
    /\ UNCHANGED <<today, customer, billable, generateClaimed, billsSent>>

(* Mutant: a bill whose marker failed is queued again. *)
SendFailsRequeue(r, i) ==
    /\ Fallible
    /\ job[r].phase = "sending"
    /\ i \in job[r].doing
    /\ Continue(r, "sending", job[r].todo \cup {i}, job[r].doing \ {i})
    /\ UNCHANGED <<tables, billable, generateClaimed, billsSent>>

(* Mutant: the error of the message is dropped, and the row marked. *)
SendFailsUnnoticed(r, i) ==
    /\ Fallible
    /\ job[r].phase = "sending"
    /\ i \in job[r].todo
    /\ Continue(r, "sending", job[r].todo \ {i}, job[r].doing \cup {i})
    /\ UNCHANGED <<tables, billable, generateClaimed, billsSent>>

(* A refused message, a failed UPDATE or a spent budget leaves the bill    *)
(* unmarked; so does a customer row deleted before its phone is looked up. *)
SendFails(r, i) ==
    /\ job[r].phase = "sending"
    /\ \/ Fallible /\ i \in job[r].todo \cup job[r].doing
       \/ i \in job[r].todo /\ ~Present(owner(i))
    /\ Continue(r, "sending", job[r].todo \ {i}, job[r].doing \ {i})
    /\ UNCHANGED <<tables, billable, generateClaimed, billsSent>>

(* recordBillRun upserts the GENERATE row of CURRENT_DATE, whoever ran and *)
(* whatever month it billed: afterwards the sweeper finds today claimed.   *)
(* Its error is dropped.                                                   *)
recordBillRun(r) ==
    /\ job[r].phase = "sending"
    /\ job[r].todo = {} /\ job[r].doing = {}
    /\ generateClaimed' \in {TRUE} \cup (IF Fallible THEN {generateClaimed} ELSE {})
    /\ Rest(r)
    /\ UNCHANGED <<tables, billable, billsSent>>

(* The final bill of a leaving customer: one transaction inserts the       *)
(* running month's invoice and pauses an active account; its bill is sent  *)
(* afterwards, without setting bill_sent_at.                               *)
FinalInvoice(c) ==
    LET i == <<c, today[1]>>
    IN  /\ "finalInvoice" \in Request
        /\ Present(c)
        /\ i \in billable
        /\ ~Exists(i)
        /\ invoice' = [invoice EXCEPT ![i] = FreshInvoice]
        /\ customer' = IF customer[c].status = "active"
                       THEN [customer EXCEPT ![c].status = "disabled", ![c].isActive = FALSE]
                       ELSE customer
        /\ \/ billsSent' = [billsSent EXCEPT ![i] = @ + 1]
           \/ Fallible /\ UNCHANGED billsSent
        /\ UNCHANGED <<today, billable, generateClaimed, job>>

SendStep(r) == \E i \in InvoiceId : notifyBill(r, i) \/ MarkBillSent(r, i) \/ SendFails(r, i)

RunnerStep(r) ==
    \/ InsertInvoices(r)
    \/ GenerateFails(r)
    \/ notifyFreshInvoices(r)
    \/ SendStep(r)
    \/ recordBillRun(r)

BillRunTypeOK ==
    /\ billable \subseteq InvoiceId
    /\ generateClaimed \in BOOLEAN
    /\ job \in [Runner -> Job]
    /\ billsSent \in [InvoiceId -> Nat]
=============================================================================

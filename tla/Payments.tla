----------------------------- MODULE Payments -----------------------------
(***************************************************************************)
(* Money arriving.  Razorpay reports a paid link through a webhook that it *)
(* redelivers until it sees a 2xx; the handler claims the event by its     *)
(* primary key, answers 200 and only then processes it in a goroutine:     *)
(* read the invoice, mark it paid, record the outcome, call OnPaid, which  *)
(* lifts a suspension.  MarkPaid is the admin's way to set a bill's status *)
(* by hand.                                                                *)
(*                                                                         *)
(* A payment stands for its payment_link.paid event; other event types are *)
(* recorded as IGNORED and touch nothing else.  Amounts are abstracted:    *)
(* outcome APPLIED stands for AMOUNT_MISMATCH too, which takes the same    *)
(* path.                                                                   *)
(***************************************************************************)
EXTENDS Dunning

CONSTANTS
    Payment,     \* the payments customers may make; a bound
    MarkStatus   \* the statuses the admin sets by hand, of allowedInvoiceStatus

allowedInvoiceStatus == InvoiceStatus

ASSUME PaymentsAssumption == MarkStatus \subseteq allowedInvoiceStatus

VARIABLES
    paidFor,    \* Razorpay: the invoice a captured payment was made for
    outcome,    \* payment_events.outcome; NONE: no row for the event
    worker,     \* the goroutine processing the event
    receipts    \* history: OnPaid calls per payment, each a receipt sent

paymentVars == <<paidFor, outcome, worker, receipts>>

Outcome == {"IGNORED", "UNMATCHED", "ALREADY_PAID", "APPLIED"}

(* NULL is no value of the columns it may stand in. *)
ASSUME NullAssumption ==
    /\ NONE \notin Payment
    /\ NONE \notin InvoiceId
    /\ NONE \notin Outcome
    /\ NONE \notin Date

WorkerStep == {"none", "read", "update", "finish", "onPaid"}

PaymentsInit ==
    /\ paidFor = [p \in Payment |-> NONE]
    /\ outcome = [p \in Payment |-> NONE]
    /\ worker = [p \in Payment |-> "none"]
    /\ receipts = [p \in Payment |-> 0]

-----------------------------------------------------------------------------
(* A customer pays a link.  Links are made for unpaid invoices and stay    *)
(* payable for thirty days, so the bill may have been settled since, and   *)
(* one bill may be paid through two links.                                 *)
CustomerPays(p, i) ==
    /\ paidFor[p] = NONE
    /\ Exists(i)
    /\ paidFor' = [paidFor EXCEPT ![p] = i]
    /\ UNCHANGED <<tables, billRunVars, dunningVars, outcome, worker, receipts>>

(* Mutants: without the primary key on the event id; and the response is   *)
(* sent but the processing never started.                                  *)
HandleEveryDelivery(p) ==
    /\ paidFor[p] # NONE
    /\ worker[p] = "none"
    /\ outcome' = [outcome EXCEPT ![p] = "IGNORED"]
    /\ worker' = [worker EXCEPT ![p] = "read"]
    /\ UNCHANGED <<tables, billRunVars, dunningVars, paidFor, receipts>>

HandleAndForget(p) ==
    /\ paidFor[p] # NONE
    /\ outcome[p] = NONE
    /\ outcome' = [outcome EXCEPT ![p] = "IGNORED"]
    /\ UNCHANGED <<tables, billRunVars, dunningVars, paidFor, worker, receipts>>

(* HandleWebhook, on the first delivery or any later one.  Razorpay may    *)
(* deliver an event any number of times; only the delivery that inserts    *)
(* the row goes on, all others answer "duplicate".                         *)
HandleWebhook(p) ==
    /\ paidFor[p] # NONE
    /\ outcome[p] = NONE
    /\ outcome' = [outcome EXCEPT ![p] = "IGNORED"]
    /\ worker' = [worker EXCEPT ![p] = "read"]
    /\ UNCHANGED <<tables, billRunVars, dunningVars, paidFor, receipts>>

Finish(p, result, next) ==
    /\ outcome' = [outcome EXCEPT ![p] = result]
    /\ worker' = [worker EXCEPT ![p] = next]

(* Mutants: the outcome recorded without the UPDATE; and no return after   *)
(* ALREADY_PAID.                                                           *)
ReadInvoiceAndFinish(p) ==
    LET i == paidFor[p]
    IN  /\ worker[p] = "read"
        /\ \/ ~Exists(i) /\ Finish(p, "UNMATCHED", "none")
           \/ IsPaid(i)  /\ Finish(p, "ALREADY_PAID", "none")
           \/ Unpaid(i)  /\ worker' = [worker EXCEPT ![p] = "finish"] /\ UNCHANGED outcome
        /\ UNCHANGED <<tables, billRunVars, dunningVars, paidFor, receipts>>

ReadInvoiceAndGoOn(p) ==
    LET i == paidFor[p]
    IN  /\ worker[p] = "read"
        /\ \/ ~Exists(i) /\ Finish(p, "UNMATCHED", "none")
           \/ IsPaid(i)  /\ Finish(p, "ALREADY_PAID", "update")
           \/ Unpaid(i)  /\ worker' = [worker EXCEPT ![p] = "update"] /\ UNCHANGED outcome
        /\ UNCHANGED <<tables, billRunVars, dunningVars, paidFor, receipts>>

(* process: the invoice is looked up, and a settled one left alone. *)
ReadInvoice(p) ==
    LET i == paidFor[p]
    IN  /\ worker[p] = "read"
        /\ \/ ~Exists(i) /\ Finish(p, "UNMATCHED", "none")
           \/ IsPaid(i)  /\ Finish(p, "ALREADY_PAID", "none")
           \/ Unpaid(i)  /\ worker' = [worker EXCEPT ![p] = "update"] /\ UNCHANGED outcome
        /\ UNCHANGED <<tables, billRunVars, dunningVars, paidFor, receipts>>

(* Mutant: the UPDATE without AND status NOT LIKE 'PAID%'. *)
SettledUnguarded(p, i) ==
    IF Exists(i) THEN [invoice EXCEPT ![i].status = "PAID_ONLINE", ![i].paid = p]
    ELSE invoice

(* UPDATE invoices SET status = 'PAID_ONLINE', payment_reference = $1      *)
(* WHERE id = $2 AND status NOT LIKE 'PAID%'.  The number of rows it       *)
(* changed is not looked at.                                               *)
SettledOnline(p, i) ==
    IF Unpaid(i) THEN [invoice EXCEPT ![i].status = "PAID_ONLINE", ![i].paid = p]
    ELSE invoice

MarkPaidOnline(p) ==
    /\ worker[p] = "update"
    /\ invoice' = SettledOnline(p, paidFor[p])
    /\ worker' = [worker EXCEPT ![p] = "finish"]
    /\ UNCHANGED <<today, customer, billRunVars, dunningVars, paidFor, outcome, receipts>>

(* Mutant: no return after the failure. *)
ProcessFailsAndGoesOn(p) ==
    /\ Fallible
    /\ worker[p] \in {"read", "update"}
    /\ Finish(p, "UNMATCHED", "onPaid")
    /\ UNCHANGED <<tables, billRunVars, dunningVars, paidFor, receipts>>

(* The SELECT or the UPDATE errors: the event ends as UNMATCHED. *)
ProcessFails(p) ==
    /\ Fallible
    /\ worker[p] \in {"read", "update"}
    /\ Finish(p, "UNMATCHED", "none")
    /\ UNCHANGED <<tables, billRunVars, dunningVars, paidFor, receipts>>

(* A finish that fails is logged, and the goroutine goes on: the event     *)
(* keeps the outcome IGNORED of its claim.  (For the other outcomes that   *)
(* is the same as a crash.)                                                *)
FinishApplied(p) ==
    /\ worker[p] = "finish"
    /\ \/ Finish(p, "APPLIED", "onPaid")
       \/ Fallible /\ Finish(p, outcome[p], "onPaid")
    /\ UNCHANGED <<tables, billRunVars, dunningVars, paidFor, receipts>>

(* The OnPaid callback of main.go: without the invoice's customer it       *)
(* returns at once, otherwise it lifts the suspension and sends a receipt. *)
OnPaid(p) ==
    /\ worker[p] = "onPaid"
    /\ worker' = [worker EXCEPT ![p] = "none"]
    /\ customer' = ResumeIfSuspended(paidFor[p])
    /\ receipts' = [receipts EXCEPT ![p] = IF Exists(paidFor[p]) THEN @ + 1 ELSE @]
    /\ UNCHANGED <<today, invoice, billRunVars, dunningVars, paidFor, outcome>>

(* A failed query inside the callback is logged; the suspension stays.     *)
(* After a failed resume the receipt still goes out.                       *)
OnPaidFails(p) ==
    /\ Fallible
    /\ worker[p] = "onPaid"
    /\ worker' = [worker EXCEPT ![p] = "none"]
    /\ \/ UNCHANGED receipts
       \/ Exists(paidFor[p]) /\ receipts' = [receipts EXCEPT ![p] = @ + 1]
    /\ UNCHANGED <<tables, billRunVars, dunningVars, paidFor, outcome>>

(* The admin's PUT of a bill's status: unconditional, and it does not go   *)
(* through OnPaid.                                                         *)
MarkPaid(i, s) ==
    /\ Exists(i)
    /\ invoice' = [invoice EXCEPT ![i].status = s]
    /\ UNCHANGED <<today, customer, billRunVars, dunningVars, paymentVars>>

ProcessStep(p) ==
    \/ ReadInvoice(p)
    \/ MarkPaidOnline(p)
    \/ ProcessFails(p)
    \/ FinishApplied(p)
    \/ OnPaid(p)
    \/ OnPaidFails(p)

PaymentsStep ==
    \/ \E p \in Payment :
          \/ \E i \in InvoiceId : CustomerPays(p, i)
          \/ HandleWebhook(p)
          \/ ProcessStep(p)
    \/ \E i \in InvoiceId, s \in MarkStatus : MarkPaid(i, s)

PaymentsTypeOK ==
    /\ paidFor \in [Payment -> InvoiceId \cup {NONE}]
    /\ outcome \in [Payment -> Outcome \cup {NONE}]
    /\ worker \in [Payment -> WorkerStep]
    /\ receipts \in [Payment -> Nat]
=============================================================================

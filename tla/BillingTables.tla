--------------------------- MODULE BillingTables ---------------------------
(***************************************************************************)
(* The database rows the billing cycle shares, and the calendar it runs    *)
(* on.  Every component of the cycle (BillRun, Dunning, Payments,          *)
(* Accounts) extends this module; BillingCycle composes them.              *)
(*                                                                         *)
(* A SQL statement is one atomic step: the pool runs every statement       *)
(* outside an explicit transaction as a transaction of its own, at read    *)
(* committed.  What one goroutine does between two statements interleaves  *)
(* with every other goroutine.                                             *)
(***************************************************************************)
EXTENDS Naturals, FiniteSets

CONSTANTS
    Customer,         \* the ids of the customers table
    LastMonth,        \* bound: months 0..LastMonth get billed
    DaysInMonth,      \* length of a month, the same for every month
    LastReminderDay,  \* lastReminderDay (5 in the code)
    Fallible,         \* TRUE: the process may crash, a statement or a send may fail
    Request,          \* what customers and the admin ask for, of AnyRequest
    NONE              \* SQL NULL

AnyRequest == {"generate", "finalInvoice",                   \* admin, billing
               "pause", "resume", "delete",                  \* WhatsApp messages
               "approve", "reject", "deleteCustomer",        \* admin, customers
               "lateDelivery"}                               \* a delivery entered afterwards

ASSUME RequestAssumption == Request \subseteq AnyRequest

ASSUME CalendarAssumption ==
    /\ LastMonth \in Nat
    /\ LastReminderDay \in Nat
    /\ LastReminderDay >= 1
    /\ DaysInMonth \in Nat
    /\ DaysInMonth > LastReminderDay
    /\ Fallible \in BOOLEAN

(***************************************************************************)
(* Calendar.  A day is <<month, day of month>>; month 0 is the first month *)
(* billed and the model starts on the first of month 1.  Go's now.In(IST)  *)
(* and CURRENT_DATE are the same clock: main.go pins the session timezone. *)
(***************************************************************************)
generateDay == 1
suspendDay  == LastReminderDay + 1

BilledMonth == 0..LastMonth
Date        == (1..(LastMonth + 1)) \X (1..DaysInMonth)

Before(d, e) == d[1] < e[1] \/ (d[1] = e[1] /\ d[2] < e[2])

(* The month being chased is always the one that just ended. *)
targetMonth(d) == d[1] - 1

-----------------------------------------------------------------------------
(* Rows.  The key of an invoice is its customer and month, by the          *)
(* unique_monthly_invoice constraint.                                      *)

InvoiceId == Customer \X BilledMonth
owner(i)   == i[1]
monthOf(i) == i[2]

PaidStatus    == {"PAID_ONLINE", "PAID_CASH"}
InvoiceStatus == {"PENDING"} \cup PaidStatus

(* status <> 'suspended': what a customer can be put back to. *)
LiveStatus     == {"pending", "active", "disabled", "rejected"}
CustomerStatus == LiveStatus \cup {"suspended"}

(* ABSENT: no such row (not raised yet, or cascaded away with the customer). *)
NoInvoice == [status |-> "ABSENT", paid |-> NONE, lastReminderOn |-> NONE,
              reminderCount |-> 0, billSentAt |-> FALSE, suspendedAt |-> FALSE]
FreshInvoice == [NoInvoice EXCEPT !.status = "PENDING"]

NoCustomer == [status |-> "ABSENT", isActive |-> FALSE, before |-> NONE,
               suspendedFor |-> NONE]

VARIABLES
    today,     \* the calendar day
    customer,  \* customers: status, is_active, status_before_suspension,
               \*   suspended_for_invoice_id
    invoice    \* invoices: status, payment_reference, last_reminder_on,
               \*   reminder_count, bill_sent_at and suspended_at (set or not)

tables == <<today, customer, invoice>>

Exists(i)  == invoice[i].status # "ABSENT"
IsPaid(i)  == invoice[i].status \in PaidStatus
Present(c) == customer[c].status # "ABSENT"

(* WHERE i.status NOT LIKE 'PAID%' *)
Unpaid(i) == invoice[i].status = "PENDING"

InvoicesOf(m) == {i \in InvoiceId : monthOf(i) = m /\ Exists(i)}

-----------------------------------------------------------------------------
(* A customer as registration leaves it (pending), as an admin approved it  *)
(* (active) or as it paused itself (disabled) before the first month ends. *)
TablesInit ==
    /\ today = <<1, 1>>
    /\ customer \in [Customer -> {[NoCustomer EXCEPT !.status = s,
                                     !.isActive = (s = "active")] :
                                     s \in {"pending", "active", "disabled"}}]
    /\ invoice = [i \in InvoiceId |-> NoInvoice]

CustomerRow ==
    [status : CustomerStatus \cup {"ABSENT"}, isActive : BOOLEAN,
     before : CustomerStatus \cup {"ABSENT", NONE},
     suspendedFor : InvoiceId \cup {NONE}]

InvoiceRow(Payment) ==
    [status : InvoiceStatus \cup {"ABSENT"}, paid : Payment \cup {NONE},
     lastReminderOn : Date \cup {NONE}, reminderCount : Nat,
     billSentAt : BOOLEAN, suspendedAt : BOOLEAN]
=============================================================================

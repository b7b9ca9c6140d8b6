------------------------------ MODULE Dunning ------------------------------
(***************************************************************************)
(* The chase for unpaid bills: one goroutine wakes every hour, and by the  *)
(* day of the month generates (BillRun), reminds or suspends.  A reminder  *)
(* or suspension sweep SELECTs its targets once and works them off one by  *)
(* one, up to twenty minutes later, without looking at the bill again.     *)
(* ResumeIfSuspended is the way back, called when a payment is recorded.   *)
(***************************************************************************)
EXTENDS BillRun

VARIABLES
    ticked,         \* the sweeper has woken at least once today
    remindersSent   \* history: reminder messages sent, per invoice

dunningVars == <<ticked, remindersSent>>

DunningInit ==
    /\ ticked = FALSE
    /\ remindersSent = [i \in InvoiceId |-> 0]

-----------------------------------------------------------------------------
(* One tick, up to and including its first SQL statement.                  *)

TickGenerate ==
    /\ ClaimGenerate
    /\ ticked' = TRUE
    /\ UNCHANGED remindersSent

(* Mutant: without the condition on last_reminder_on. *)
ToRemindEveryTick == {i \in InvoicesOf(targetMonth(today)) : Unpaid(i)}

(* WHERE billing_month = $1 AND status NOT LIKE 'PAID%' AND                *)
(* (last_reminder_on IS NULL OR last_reminder_on < CURRENT_DATE)           *)
ToRemind == {i \in InvoicesOf(targetMonth(today)) :
                /\ Unpaid(i)
                /\ \/ invoice[i].lastReminderOn = NONE
                   \/ Before(invoice[i].lastReminderOn, today)}

(* Mutants: without the condition on the status, and with status = 'active'. *)
ToSuspendAgain == {i \in InvoicesOf(targetMonth(today)) : Unpaid(i)}

ToSuspendActive == {i \in InvoicesOf(targetMonth(today)) :
                      Unpaid(i) /\ customer[owner(i)].status = "active"}

(* ... AND c.status <> 'suspended' *)
ToSuspend == {i \in InvoicesOf(targetMonth(today)) :
                Unpaid(i) /\ customer[owner(i)].status # "suspended"}

StartSweep(phase, targets) ==
    /\ ~Running("sweeper")
    /\ IF targets = {} THEN UNCHANGED job
       ELSE Start("sweeper", phase, targetMonth(today), targets)
    /\ ticked' = TRUE
    /\ UNCHANGED <<tables, billable, generateClaimed, billsSent, remindersSent>>

TickRemind ==
    /\ today[2] > generateDay /\ today[2] <= LastReminderDay
    /\ StartSweep("remind", ToRemind)

TickSuspend ==
    /\ today[2] >= suspendDay
    /\ StartSweep("suspend", ToSuspend)

-----------------------------------------------------------------------------
(* The sweeps.  job["sweeper"].doing holds the target between its first    *)
(* statement and its message; the next target starts after that.           *)

sweep == job["sweeper"]

InPhase(phase) == sweep.phase = phase

(* SET last_reminder_on = CURRENT_DATE, reminder_count = reminder_count + 1 *)
Reminded(row) == [row EXCEPT !.lastReminderOn = today, !.reminderCount = row.reminderCount + 1]

(* Mark BEFORE sending. *)
MarkReminded(i) ==
    /\ InPhase("remind")
    /\ sweep.doing = {}
    /\ i \in sweep.todo
    /\ invoice' = IF Exists(i) THEN [invoice EXCEPT ![i] = Reminded(invoice[i])] ELSE invoice
    /\ Continue("sweeper", "remind", sweep.todo \ {i}, {i})
    /\ UNCHANGED <<today, customer, billable, generateClaimed, billsSent, dunningVars>>

SendPaymentReminder(i) ==
    /\ InPhase("remind")
    /\ i \in sweep.doing
    /\ remindersSent' = [remindersSent EXCEPT ![i] = @ + 1]
    /\ Continue("sweeper", "remind", sweep.todo, {})
    /\ UNCHANGED <<tables, billable, generateClaimed, billsSent, ticked>>

(* UPDATE customers ... FROM invoices WHERE i.id = $1: no look at what the *)
(* invoice or the customer has become since the SELECT.                    *)
SuspendCustomer(i) ==
    LET c == owner(i)
    IN  /\ InPhase("suspend")
        /\ sweep.doing = {}
        /\ i \in sweep.todo
        /\ customer' = IF Exists(i)
                       THEN [customer EXCEPT ![c] =
                                [status |-> "suspended", isActive |-> FALSE,
                                 before |-> customer[c].status, suspendedFor |-> i]]
                       ELSE customer
        /\ Continue("sweeper", "suspend", sweep.todo \ {i}, {i})
        /\ UNCHANGED <<today, invoice, billable, generateClaimed, billsSent, dunningVars>>

(* UPDATE invoices SET suspended_at, then the suspension notice. *)
StampSuspended(i) ==
    /\ InPhase("suspend")
    /\ i \in sweep.doing
    /\ invoice' = IF Exists(i) THEN [invoice EXCEPT ![i].suspendedAt = TRUE] ELSE invoice
    /\ Continue("sweeper", "suspend", sweep.todo, {})
    /\ UNCHANGED <<today, customer, billable, generateClaimed, billsSent, dunningVars>>

(* A failed statement or message is logged and the loop goes on to the     *)
(* next target.  Nothing of this target is retried in this sweep.          *)
TargetFails(i) ==
    /\ Fallible
    /\ sweep.phase \in {"remind", "suspend"}
    /\ i \in IF sweep.doing = {} THEN sweep.todo ELSE sweep.doing
    /\ Continue("sweeper", sweep.phase, sweep.todo \ {i}, {})
    /\ UNCHANGED <<tables, billable, generateClaimed, billsSent, dunningVars>>

EndSweep ==
    /\ sweep.phase \in {"remind", "suspend"}
    /\ sweep.todo = {} /\ sweep.doing = {}
    /\ Rest("sweeper")
    /\ UNCHANGED <<tables, billable, generateClaimed, billsSent, dunningVars>>

-----------------------------------------------------------------------------
(* ResumeIfSuspended, as the customers table it leaves: one UPDATE, for    *)
(* the customer suspended for exactly this invoice, back to the status     *)
(* held before (COALESCE(..., 'active')).                                  *)
Restored(row) ==
    LET back == IF row.before = NONE THEN "active" ELSE row.before
    IN  [status |-> back, isActive |-> back = "active", before |-> NONE, suspendedFor |-> NONE]

(* Mutants: any of the customer's payments resumes it; only a customer     *)
(* that was active before is put back.                                     *)
ResumeOnAnyPayment(i) ==
    [c \in Customer |->
        IF customer[c].status = "suspended" /\ c = owner(i)
        THEN Restored(customer[c]) ELSE customer[c]]

ResumeIfWasActive(i) ==
    [c \in Customer |->
        IF /\ customer[c].status = "suspended" /\ customer[c].suspendedFor = i
           /\ customer[c].before = "active"
        THEN Restored(customer[c]) ELSE customer[c]]

ResumeIfSuspended(i) ==
    [c \in Customer |->
        IF customer[c].status = "suspended" /\ customer[c].suspendedFor = i
        THEN Restored(customer[c]) ELSE customer[c]]

Tick == TickGenerate \/ TickRemind \/ TickSuspend

TargetStep == \E i \in InvoiceId :
    \/ MarkReminded(i)
    \/ SendPaymentReminder(i)
    \/ SuspendCustomer(i)
    \/ StampSuspended(i)
    \/ TargetFails(i)

SweepStep == Tick \/ TargetStep \/ EndSweep

DunningTypeOK ==
    /\ ticked \in BOOLEAN
    /\ remindersSent \in [InvoiceId -> Nat]
=============================================================================

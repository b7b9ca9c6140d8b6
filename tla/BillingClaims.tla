--------------------------- MODULE BillingClaims ---------------------------
(***************************************************************************)
(* What the comments of the code say of the billing cycle, where the code  *)
(* does something else.  Each is checked by a run that finds it violated.  *)
(***************************************************************************)
EXTENDS BillingCycle

(* main.go:205-208: the suspension is lifted "for both the Razorpay        *)
(* webhook and an admin marking a bill PAID_CASH, since both route through *)
(* OnPaid".  MarkPaid does not call OnPaid: a customer whose bill is       *)
(* settled in cash stays suspended.                                        *)
SuspendedFor(i) ==
    customer[owner(i)].status = "suspended" /\ customer[owner(i)].suspendedFor = i

CashLiftsSuspension ==
    \A i \in InvoiceId :
        [](SuspendedFor(i) /\ Unpaid(i) => [](IsPaid(i) => <>~SuspendedFor(i)))

(* billing.go:493-494: a run that dies partway "leaves the remaining       *)
(* invoices still marked unsent, and the next run picks up exactly those". *)
(* The next Generate inserts nothing, and then sends nothing: unsent bills *)
(* stay unsent although no other run is at work on the month.              *)
NextRunSendsTheRest ==
    [][\A r \in Runner :
          /\ InsertInvoices(r)
          /\ job'[r] = Idle
          /\ \A other \in Runner \ {r} : ~Running(other)
          => \A i \in job[r].todo : invoice[i].billSentAt]_vars

(* dunning.go:18-19: "making every phase idempotent means a missed hour is *)
(* caught by the next one".  The day is claimed before the work: a crash   *)
(* or a failed statement after the claim leaves a GENERATE row that keeps  *)
(* every later tick of the 1st out, with no invoice raised.                *)
ClaimedDayGetsGenerated ==
    generateClaimed /\ today[2] = generateDay /\ ~Running("sweeper") =>
        \A i \in Tallies(targetMonth(today)) : Exists(i)

(* webhook.go:127-128: "The event row is claimed, so the work is safe to   *)
(* finish after the response."  A crash after the response leaves an event *)
(* recorded as IGNORED that no goroutine is working on, and every          *)
(* redelivery is turned away as a duplicate.                               *)
ClaimedEventIsWorkedOn ==
    \A p \in Payment : outcome[p] = "IGNORED" => worker[p] # "none"
=============================================================================

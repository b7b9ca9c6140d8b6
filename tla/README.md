# Formal models of pgsBackend

pgsBackend runs a milk round: customers subscribe over WhatsApp, drivers deliver twice a day, and at
the end of each month the office bills, chases and collects. It is one Go process in front of one
PostgreSQL database. This directory holds TLA+ models of it, the TLC configurations that check them
and the TLAPS proofs about them. Paths are relative to the repository's root.

## 1. The system

### What is concurrent, and what can fail

* One process, many goroutines: an HTTP handler per request, a goroutine per WhatsApp message, one per
  payment event after its response is sent, a pool of five per billing run, and the tickers that `main.go`
  starts (dunning and price promotion, hourly; manifest lock, change and auto-end sweepers, more often).
* They share nothing but the database. A statement outside an explicit transaction is a transaction of
  its own, at read committed. **Every hazard of this system is of the form: a goroutine reads in one
  statement, decides, and writes in a later one.**
* A crash or a deploy loses every goroutine and keeps every row. Nothing is resumed: what is not
  recoverable from a row is lost.
* Outgoing WhatsApp messages can fail and have no retry of their own. Razorpay's webhook is delivered
  at least once, until it sees a 2xx.

### Inventory

| component | state | operations | hard behaviour | what makes it correct |
|---|---|---|---|---|
| **Month-end billing** `internal/billing/billing.go`, `billing_corrections.go` | `invoices`, `dunning_runs` | Generate, the send pool and its marker, FinalInvoice, RegenerateInvoice, MarkPaid, live tallies | two runs at once; a crash between commit, message and marker; a send budget that expires; a customer deleted under the run | an invoice per customer and month; a marked bill went out; each bill goes out, once |
| **Dunning sweeper** `internal/billing/dunning.go` | `invoices.last_reminder_on, reminder_count, suspended_at`; `customers.status, is_active, suspended_for_invoice_id, status_before_suspension` | hourly tick: generate (1st), remind (2nd–5th), suspend (6th on); ResumeIfSuspended | targets SELECTed once, worked off up to 20 minutes later; restarts; midnight in mid-sweep | one reminder a day; a suspension has grounds and a way back; the unpaid are chased |
| **Payments** `internal/payment/` | `payment_events`, `invoices.status, payment_reference`, link columns | CreateLinkForInvoice, HandleWebhook, process, finish, OnPaid (in `main.go`), the pay page | redelivery, two payments of a bill, payment against admin or deletion, a crash after the 200 | captured money settles; nothing settled is overwritten; the audit agrees; one receipt |
| **Customer accounts** `internal/customer/routes.go`, `internal/webhook/whatsapp.go` | `customers` | WhatsApp PAUSE/RESUME/DELETE behind a gatekeeper; admin approve, reject, update, delete | the gatekeeper's answer is stale when the handler writes; check-then-delete | a suspended customer is served again only after paying or by the admin |
| **Manifest locking and routes** `internal/route/` | `manifest_locks`, `routes`, `delivery_logs.planned_order` | LockManifest, its sweeper, GenerateManifest, stop ordering | changes of subscriptions and overrides against the lock | a locked round is what was ordered at the lock, and does not move |
| **Delivery logging** `internal/delivery/delivery.go` | `delivery_logs`, corrections, flagged issues | LogDelivery, AdminUpsert, Update, SubmitIssue, Resolve | offline duplicates, late sync after the round is closed | one outcome per customer, date and slot; no delivered litre unbilled |
| **Drivers and shifts** `internal/driver/` | `shifts`, `delivery_logs` | StartShift, EndShift, CloseRoute, Sync, the auto-end sweeper, reopenRound | a closing round against late logs, a reopened one | what is closed as missed can still become delivered, and not the other way |
| **Subscription changes** `internal/update/`, `internal/subscription/` | `subscriptions`, `pending_subscription_changes` | Submit, approve, reject, the due-change sweeper, the admin's editor | sweeps missed, failed half way or begun anew; the sweep against the lock; two changes due at once | an approved change is applied once, not before its day, and before its round is locked; the newest stands |
| **Order overrides** `internal/override/` | `order_overrides` | Submit through a link | the cutoff read before, the row written after the lock; a cutoff that moves | a locked round is closed to the customer |
| **Prices** `internal/route/pricing.go` | `routes.price_*, pending_price_*, pending_effective_from` | SetPrices, CancelPendingPrices, the promotion sweeper | a request across the end of a month; the first of the month missed; a report that arrives late | a month's price stands; a queued price lands; what is delivered is charged, at the price of its day |
| **Schedule** `internal/schedule/` | none | `item_due_on` and the expressions over it (SQL), its mirror and `NextDelivery`, `ValidateItemSchedules` (Go) | two implementations of one rule | they agree; a delivery promised takes place |
| **Registration and tokens** `internal/registration/` | `registration_tokens`, `customers` | GenerateToken, ValidatePhone, Submit, MarkUsed | a link is read, used and marked in separate statements; a number registered already | one order, one slot |
| **Configuration** `internal/config/` | one row | Update | read live by forms and sweeps | – |
| Statistics, notifications, web pages, middleware, `cmd/` | – | queries, formatting, rendering, test drivers | none of their own | not modelled |

### How they interact

    deliveries ──tally──▶ Generate / dunningGenerate ──▶ invoices ◀── MarkPaid (admin)
                                                          │  ▲
                               remind, suspend ◀──────────┘  └── process ◀── HandleWebhook ◀── Razorpay
                                    │                              │
                                    ▼                              ▼ OnPaid
        WhatsApp, admin ──▶    customers   ◀──────────── ResumeIfSuspended

        cutoff: LockManifest ──▶ delivery_logs ◀── LogDelivery ◀── the driver's app
                                    ▲   ▲
         CloseRouteForSlot, reopenRound │   └── Update, AdminUpsert (admin)
                 ▲          ▲
              EndShift   sweepAutoEnd

        pages ──▶ pending_subscription_changes ◀── approve, reject (admin)
          │                  │ applyDueChanges, hourly
          ▼                  ▼
    order_overrides     subscriptions ◀── CreateOrUpdate (admin), registration
          └──── LockManifest ────┘

        SetPrices ──▶ queue ──promotePendingPrices──▶ routes.price_* ──▶ the row's unit price ──▶ invoice ──▶ link ──▶ payment

The core is the first of these, the billing cycle: it handles the money, all four of its
components write `customers` or `invoices` behind each other's back, and its mistakes surface a month later. The second, a round, makes the deliveries that are billed; the third decides what is on a round;
the last what a delivery costs. Each is a composition of its own (`BillingCycle`, `Rounds`, `Orders`, `Charges`).

## 2. The modules

| module | models |
|---|---|
| `BillingTables` | the rows of `customers` and `invoices`, the calendar, the constants |
| `BillRun` (EXTENDS BillingTables) | `Generate`, `dunningGenerate`, `notifyFreshInvoices` and its pool, `recordBillRun`, `FinalInvoice` |
| `Dunning` (EXTENDS BillRun) | the tick, the reminder and suspension sweeps, `ResumeIfSuspended` |
| `Payments` (EXTENDS Dunning) | `HandleWebhook`, `process`, `finish`, the `OnPaid` callback, `MarkPaid` |
| `Accounts` (EXTENDS Payments) | the WhatsApp gatekeeper and its handlers; the admin's approve, reject, delete |
| `PaymentLedger` | abstractly, what billing promises about money: a bill is open until a payment of it or a person settles it, a payment settles one bill once and is ruled on once |
| `BillingCycle` (EXTENDS Accounts) | the composition: `Init`, midnight, crash, `Next`, fairness, the properties; refines `PaymentLedger` |
| `BillingClaims` (EXTENDS BillingCycle) | what the comments say and the code does not do |
| `MCBillingCycle` | the instance for TLC, with the symmetry |
| `BillingCycleProofs`, `MoneyProofs`, `ChaseProofs`, `BillsProofs` | the theorems about the billing cycle |
| `StopLedger` | abstractly, what a round promises about each stop: what the driver said or an admin entered, never taken back |
| `Rounds` | one round: `LockManifest`, `LogDelivery`, `Update`, `AdminUpsert`, `EditPlannedOrder`, `UpdateDriver`, `StartShift`, `EndShift`, `CloseRouteForSlot`, `reopenRound`, `sweepAutoEnd`; refines `StopLedger` |
| `MCRounds` (EXTENDS Rounds) | the instance for TLC, and a comment's claim the code does not keep |
| `RoundsProofs` (EXTENDS Rounds) | the theorems about a round |
| `Schedule` | `item_due_on` and the SQL over it, the Go mirror, `NextDelivery`, validation |
| `OrderTables` (EXTENDS Schedule) | the rows of `subscriptions`, `order_overrides`, `pending_subscription_changes`, the clock, the constants |
| `Forms` (EXTENDS OrderTables) | links, and the three pages they open: registration, overrides, updates |
| `ChangeRequests` (EXTENDS Forms) | `ApprovePendingChange`, `RejectPendingChange`, the hourly `applyDueChanges` |
| `ChangeBook` | abstractly, what the review of changes promises: one waits at a time, an approved one comes into force once, from the next day |
| `Orders` (EXTENDS ChangeRequests) | the composition with the admin, the configuration, the lock and time; refines `ChangeBook` |
| `MCOrders` (EXTENDS Orders) | the instance for TLC |
| `OrdersProofs`, `ChangeProofs` | the theorems about orders |
| `ChargeTables` | one delivery's price, row, invoice and links, the constants |
| `Prices` (EXTENDS ChargeTables) | `SetPrices`, `CancelPendingPrices`, `promotePendingPrices` |
| `DeliveryRows` (EXTENDS Prices) | what `LogDelivery`, `Update`, `AdminUpsert`, the lock, complaints and `Resolve` do to the row's quantity and price |
| `Bills` (EXTENDS DeliveryRows) | `Generate`, `RegenerateInvoice`, `MarkPaid`, `CreateLinkForInvoice` and `process`, with amounts |
| `Charges` (EXTENDS Bills) | the composition, fairness and the properties |
| `MCCharges` (EXTENDS Charges) | the instance for TLC |
| `ChargesProofs` (EXTENDS Charges) | the theorems about charges |

### State and code

* **`customer[c]`** is the customer's row: `status`, `isActive`, `before` (`status_before_suspension`),
  `suspendedFor` (`suspended_for_invoice_id`). An absent row has status `"ABSENT"`; `NONE` is NULL.
* **`invoice[<<c, m>>]`** is the invoice of customer c for month m (the unique key
  `unique_monthly_invoice`): `status`, `paid` (`payment_reference`), `lastReminderOn`, `reminderCount`,
  and whether `bill_sent_at` and `suspended_at` are set.
* **`today`** is a day `<<month, day>>`; month m is billed from `<<m+1, 1>>` on.
* **`billable`** stands for `delivery_logs`: the customers and months with something to bill.
* **`generateClaimed`**: `dunning_runs` has a GENERATE row of today.
* **`job[r]`** is the local state of the two billing goroutines, the sweeper's and an admin request's: the phase
  it is in, the invoices still to do, and those half done (message sent and row not marked; or marked and message not sent). The
  sweeper's reminder and suspension sweeps use the same record, since it is one goroutine.
* **`paidFor[p]`, `outcome[p]`, `worker[p]`**: a captured payment, its row in `payment_events`, and where the
  goroutine processing it stands.
* **`chat[c]`, `admin[c]`**: the handler a customer's message was dispatched to and has not finished; the admin's
  delete request between its check and its transaction.
* `billsSent`, `remindersSent`, `receipts` are history: messages that left. No action reads them.

In `Rounds`, one route and slot on one date:

* **`log[c]`** is the row of `delivery_logs` of customer c: `status` (`"ABSENT"` without a row), `plan` (`planned_order`, NULL unless locked),
  and whether `route_id` is this route; **`locked`** is its row in `manifest_locks`; **`assigned`** the driver in `route_slot_drivers`.
* **`order[c]`** is what the order comes to on the date, by override or schedule, with inactive customers at 0 (`AnyItemDueExpr`, `ScheduledTotalExpr`).
* **`shift[d]`** is the driver's row in `shifts`; `reopened` says whether `reopened_at` is set.
* **`clock`** has the four hours that matter: before the order cutoff, after it, after the shift end, after midnight.
* **`said[c]`** is what the app holds for the stop. **`starting`, `closing`, `sweeper`** are the local state of requests and of the sweep between statements.
* `failed`, `swept`, `corrected` are history; the properties read them, and the clock waits for `swept`.

In `Orders`, one customer:

* **`sub[s]`** is the row of `subscriptions` for slot s: the standing order, `routed` (whether it has a route), and as history `from`, the change that wrote it.
  **`override[s][d]`** is the row of `order_overrides`; **`change[k]`** the k-th row of `pending_subscription_changes`, with the day of approval as history; **`status`** is `customers.status`.
* **`day`, `hour`** are the time in India; **`cutoff`** the configured order cutoffs, which forms and the lock sweeper read live.
* **`link[t]`** is a row of `registration_tokens` with the page it opens; **`form`** is a submission between its reads and its transaction.
* **`sweep`** is `applyDueChanges`: what its SELECT found and is not applied yet, and whether it has run since the clock moved.
* **`locked[s]`, `plan[s]`** are today's row in `manifest_locks` and the plan of the customer's stop. At midnight they begin anew: tomorrow's are other rows.
* **`notifying`**: `Approve` has committed and its goroutine has not worked out the first delivery yet. **`promise`**, what it told the customer, is history, as are `failed` and `incidents`.

In `Charges`, one customer, one product, the delivery of day 0 and the invoice of its month:

* **`price`, `queued`** are the route's live and pending price; **`log`** is the row of the delivery, with its unit price; **`invoice`** the row of its month: total, status, and the amount of the link on it.
* **`open`** is the state of Razorpay: the amounts of the links that can be paid.
* **`running`** holds the handlers that are between two of their statements, each with what the first of them read.
* Quantities are in thousandths (millilitres), and amounts in thousandths of a rupee, so that the division by 1000 of `aggregateOne` is a matter of unit.
* `unpriced`, `settled`, `raced`, a row's `source` and a queue's `asked` are history.

An action is one SQL statement or transaction together with the control flow up to the next one. That is where the interleavings
are: `SuspendCustomer`, for instance, is the one UPDATE of `dunningSuspend`, whose target was selected by `TickSuspend`,
with no second look. Every statement that can error has its failure (`GenerateFails`, `SendFails`, `TargetFails`, `ProcessFails`,
`OnPaidFails`, `MessageFails`, `DeleteFails`, and the last disjuncts of `recordBillRun`, `FinalInvoice`, `FinishApplied`; in `Orders`, `ApplyFails`; in
`Bills`, disjuncts of `MarkPaid`, `CreateLink`, `SaveLink`), enabled by the constant `Fallible` together with `Crash`. A statement that fails as the last of its handler is the handler not begun.

### Abstractions

* Breakdowns, message texts and phone numbers are left out everywhere, amounts and links everywhere but in `Charges`: in `Payments`, `AMOUNT_MISMATCH` takes the path of `APPLIED` and is
  one with it, and `Charges` tells them apart. "A customer pays" (`CustomerPays`) stands for link creation and the pay page: links live thirty days, so any raised
  invoice may be paid, also twice, also when settled already.
* A payment is its `payment_link.paid` event; other event types end as IGNORED and touch nothing.
* All months have the same length; time of day is abstracted to "the sweeper has woken at least once today" (`ticked`).
* A sweep reads the calendar once at its tick, and the later statements read `CURRENT_DATE` at their own time, in the code and in the model;
  `main.go` pins the session time zone to India, so both are one clock.
* The WhatsApp gatekeeper's other menu items (bill, order, override links) touch none of this state.
* "Has unbilled deliveries this month", which blocks a deletion too, and "has an order on file", which RESUME asks, are left open
  (either answer). For the admin's delete the open answer is the guard of `CheckDelete`, a step nothing makes happen.
* In `Rounds`: quantities are one number, positions, prices, complaints and the driver on the row are left out. `LogDelivery` reads only what it copies into the
  left-out columns, so that it is one step. The driver's app sends decisions, though the handler accepts any status. Another round is another instance: nothing in
  these statements crosses from one to another, except that a driver has one route per slot (the unique index), hence `assigned = d`. The shift end is taken to be later
  than the order cutoff of the same slot, as the configured times are. A second StartShift or EndShift of one driver while the first is between its statements is left out, as is deleting a customer with its rows.
* In `Orders`: a customer has one submission under way at a time, so that its reads are one step, and its transaction one with the marking of the link after it, which may be lost
  (`MarkUsed`): what one submission reads, no other of the same customer takes away. Overrides of days past, which the handler accepts, are dropped, for nothing reads them. A product's quantity is its identity: the SQL's `COALESCE` over
  override and order is by product. A form's eight seconds and a link's half hour are at most one move of the clock. Incidents (pausing, rejecting, editing, moving a cutoff, a link left unmarked) are bounded together by `LastIncident`.
* In `Charges`: one delivery, so that the month's total is its worth; other deliveries of the month would add a constant between recalculations. Two links of one amount count as one, hence
  "paying a link" pays them both. Links do not expire. A driver's report and an admin's upsert name both the quantity and the status; a status that is not DELIVERED comes with quantity 0 from the driver and with any from the admin.
  What reads several rows before one write (`Resolve`, `RegenerateInvoice`) is one read: nothing that the property speaks of happens between them that could not happen after.
* The admin's PUT of a whole customer row is out: it writes any column over any other and satisfies no property by itself.

## 3. What is checked

`Rounds` and `NeverOpened` are runs of `MCRounds`, `Orders` of `MCOrders`, `Charges` of `MCCharges`, the others of `MCBillingCycle`. `Request` names what customers and the admin may ask for, `MarkStatus` what the
admin may set a bill to by hand; runs differ in these, so that each question is asked with all of the actors that bear on it and
within TLC's reach. The theorems of section 4 hold for all of them together.

| run | instance | shows |
|---|---|---|
| `Chase` | 1 customer, 1 payment, months of 4 days, reminders to day 3; failures; pause, resume, delete, approve, reject; PAID_CASH by hand | `TypeOK`; `SuspensionGrounds`: a suspended customer is off the rounds, names its own raised bill past its grace days, and knows a status, not `suspended`, to go back to; `OneReminderADay`, counted in the row and in messages; `AutomatedRunBillsOnce`; `OnlyPaymentRestoresService`; `PaymentsFollowTheLedger`: the cycle implements `PaymentLedger` |
| `Money` | 1 customer, 2 payments, months of 3 days; failures; approve, the admin's delete, any status by hand | `AuditAgrees`: a refused payment is on no invoice, and a reference on an invoice is a payment made for it; `OneReceiptPerPayment`; `WebhookNeverOverwrites`: no step changes the reference of a settled bill |
| `BillRun` | 2 customers, months of 2 days; failures; admin's generate, final invoice, delete, late deliveries | `MarkedBillsWentOut`; `QueuedBillsAreInvoices`: nobody is billed from a tally that was rolled back; `OneMoreAfterTheMarker`: a marked bill is queued by no further run, and goes out at most once more |
| `Liveness` | 1 customer, 2 months of bills, 1 payment, no failures; pause, resume, PAID_CASH; under `FairSpec` | `UnpaidIsChased`, `EveryInvoiceIsBilled`, `CapturedMoneySettles`, `PaymentLiftsSuspension`; and, with two bills at once, `SuspensionGrounds` and `OnlyPaymentRestoresService` again |
| `CashPaid`, `UnsentBills`, `ClaimedDay`, `ClaimedEvent` | the smallest instance | the findings of section 5 (a violation each) |
| `Rounds` | 1 customer, 1 driver, orders 0 or 1, one decision; failures; every admin request; under `FairSpec` | `TypeOK`; `DecisionsStand`: the round implements `StopLedger`; `PlanStands`; `SweepSparesFirstShifts`: under an active shift the sweep closes a round only after a restart; `ForgottenShiftIsClosed` |
| `NeverOpened` | the same, without failures or admin | a finding of section 5 |
| `Orders` | 1 customer, three days, hours 0, 3 and 15, 1 link, 2 changes, 1 incident; an order of two products with an alternate and a weekday schedule; cutoffs that may move; failures; under `FairSpec` | `TypeOK`; `PromiseKept`; `ChangesReachTheRound`; `PlannedADayAhead`; `NewestApprovalIsLive`; `OneSlotPerCustomer`; `RoundClosed`; `ChangesFollowTheBook`: the review implements `ChangeBook`; `ApprovedChangesLand` |
| `Charges` | 2 prices, 2 quantities, two months of two days, 4 requests, 2 handlers at a time; failures; under `FairSpec` | `TypeOK`; `PricesStandWithinMonth`; `ChargedAtAPrice`; `CorrectionsKeepPrices`; `SettledTotalStands`; `AppliedIsExact`; `QueuedPricesLand` |

What the properties of the last two say: the first delivery a customer is told of takes place, if nothing it was worked out from has changed (`PromiseKept`); no round is locked on an old order while a change is due
(`ChangesReachTheRound`), and none on a change of the same day (`PlannedADayAhead`); of two changes of different days the later stands (`NewestApprovalIsLive`); a second slot comes only from the admin or from a registration
of a number registered before (`OneSlotPerCustomer`); an override of a locked round is written only by a form that read the clock before (`RoundClosed`); every approved change is applied, sweeps failing or not
(`ApprovedChangesLand`). A priced route's price moves only in a later month than it was asked in (`PricesStandWithinMonth`); what is delivered on a route never without a price is charged, except on rows the lock inserted
(`ChargedAtAPrice`); only a driver's report reprices a row (`CorrectionsKeepPrices`); a paid bill's total moves only if payment and recalculation overlapped (`SettledTotalStands`), and but for that a payment
taken as exact is what the bill comes to, whatever links were handed out (`AppliedIsExact`); a queued price lands, is cancelled or replaced (`QueuedPricesLand`).

**Bounds.** `LastMonth` bounds the calendar (the last month billed), `Payment` the payments, `DaysInMonth` and `LastReminderDay` shrink
the code's 28–31 and 5; the phases of a month are kept: a generate day, one or more reminder days, a suspension day and, in `Chase`,
`Money` and `Liveness`, the change to it while a sweep runs. One customer is enough where a property speaks of one customer and its rows: the statements
touch one customer's rows each, except the month's transaction and the send queue, which `BillRun` and `UnsentBills` exercise with two. Two payments
are what it takes for one to find a bill settled by another; a second month of bills is what it takes for a customer to be suspended for one
bill while paying another. The clock stops at the end of the last month, and a run that has come to rest there has no step left: the runs do not check deadlock. (No goroutine waits for another one
in these modules.) `Symmetry` permutes customers and payments, used in the two runs with two of either, which check no liveness.
A round's statements act on each row by itself, so that one customer stands for all; no statement tells one decision from another, so one does; a second driver would only be
one the round is not assigned to, which the one driver is too when `assigned` is NULL or changed. The proofs of section 4 have none of these bounds. A round comes to rest after midnight, hence no deadlock check;
so do `Orders` and `Charges` after their last day.
In `Orders`, three days are what a change takes to be asked for, approved, and miss or make two rounds; the hours are midnight and the cutoffs; two changes are what it takes for one to be applied over the other; the run starts
with a new number or with an order on file. In `Charges`, a month of two days has a first and another; the run starts in the first month with a delivery to come or in the second with one that is billed, on a route with or without
a price; four requests suffice for the longest case of the properties (a recalculation, a link, a payment, a correction), and two handlers at a time for any race of two.

**Fairness** (`Fairness` in `BillingCycle`), assumed by the liveness run and by `CashPaid`:
* the sweeper is a loop on an hourly ticker, which fires at start too, so it wakes on every day the process is up; a sweep is
  straight-line code whose calls carry timeouts (20 minutes in all), so it ends, having crossed at most one midnight: `NextDay` waits for `ticked`;
* a goroutine that can run is scheduled: the billing runs, the payment worker, a dispatched message handler, the admin's delete;
* Razorpay redelivers an event until it is answered, so `HandleWebhook` is fair; midnight comes.
* Nothing makes a customer pay or write, nor the admin act, nor anything fail. Liveness is checked with `Fallible = FALSE`, since with failures the code does not
  promise it: section 5 says how it fails.

In `Rounds` the sweepers' tickers (five and ten minutes) are far faster than the hours of its clock, so `Tick` waits for the sweep that is due, unless `Fallible`, and then `failed` records it;
a request or sweep that has begun runs on; time passes. No driver, customer or admin is made to do anything: `ForgottenShiftIsClosed` is about the one who does nothing.

In `Orders` likewise, the change sweep (hourly and at boot) and the lock sweep (every ten minutes) run within each hour of the clock, or `failed` records it; both, and time, are weakly fair, and the application of a change is strongly
fair: it is retried by sweep after sweep, and what fails it (a lost connection, a deadlock) goes away. In `Charges` days pass and the promotion is weakly fair, since the ticker outlives a sweep that failed; crashes are
steps there, and do not disable it. No request is made to happen, and no handler to end.

## 4. What is proved

For every set of customers and payments, number of months, length of month, set of requests and statuses, with and without failures:

| theorem | module | statement |
|---|---|---|
| `TypeCorrect` | `BillingCycleProofs` | `Spec => []TypeOK` |
| `AuditCorrect` | `MoneyProofs` | `Spec => []AuditAgrees` |
| `ReceiptsCorrect` | `MoneyProofs` | `Spec => []OneReceiptPerPayment` |
| `SettledStaysSettled` | `MoneyProofs` | `Spec => WebhookNeverOverwrites` |
| `SuspensionCorrect` | `ChaseProofs` | `Spec => []SuspensionGrounds` |
| `ServiceCorrect` | `ChaseProofs` | `Spec => OnlyPaymentRestoresService` |
| `CycleImplementsLedger` | `ChaseProofs` | `Spec => PaymentsFollowTheLedger`, the refinement of `PaymentLedger` |
| `MarkersAreTrue`, `QueueCorrect` | `BillsProofs` | `Spec => []MarkedBillsWentOut`, `[]QueuedBillsAreInvoices` |
| `LastBill` | `BillsProofs` | `Spec => OneMoreAfterTheMarker` |
| `BilledOnce` | `BillsProofs` | `Spec => []AutomatedRunBillsOnce` |
| `RemindedOnceADay` | `BillsProofs` | `Spec => []OneReminderADay` |
| `RoundTypeCorrect` | `RoundsProofs` | `Spec => []TypeOK` |
| `PlanCorrect` | `RoundsProofs` | `Spec => PlanStands` |
| `RoundImplementsLedger` | `RoundsProofs` | `Spec => DecisionsStand`, the refinement of `StopLedger` |
| `SweepSparesDrivers` | `RoundsProofs` | `Spec => []SweepSparesFirstShifts` |
| `MirrorAgrees` | `OrdersProofs` | from the anchors on, `itemDueOn` of the Go mirror is `ItemDue` of the SQL |
| `OrderTypeCorrect` | `OrdersProofs` | `Spec => [](TypeOK /\ BatchDue)` |
| `ChangesInTime`, `PlannedAhead`, `NewestLive` | `ChangeProofs` | `Spec => []ChangesReachTheRound`, `[]PlannedADayAhead`, `[]NewestApprovalIsLive` |
| `OneSlot`, `ClosedRounds` | `ChangeProofs` | `Spec => OneSlotPerCustomer`, `RoundClosed` |
| `ReviewImplementsBook` | `ChangeProofs` | `Spec => ChangesFollowTheBook`, the refinement of `ChangeBook` |
| `PromisesKept` | `ChangeProofs` | `Spec => []PromiseKept` |
| `ChargeTypeCorrect`, `DeliveriesCharged`, `AppliedCorrect` | `ChargesProofs` | `Spec => []TypeOK`, `[]ChargedAtAPrice`, `[]AppliedIsExact` |
| `PricesStand`, `CorrectionsKeep`, `SettledTotals` | `ChargesProofs` | `Spec => PricesStandWithinMonth`, `CorrectionsKeepPrices`, `SettledTotalStands` |

Those about orders hold for any slots' cutoffs, hours, orders of any products and schedules, and bounds. They rest on `OrderAssumption` (orders are ones `ValidateItemSchedules` passes, NULL is none of the values)
and `CutoffAssumption`: a round is configured to close no earlier than the Go mirror's approximation (2 and 13 o'clock) assumes. The code does not enforce the latter, and `PromisesKept` needs it.
Those about charges hold for any prices, quantities, length of month and bounds, under `ChargesAssumption` and `NullAssumption` (NULL is no number and no row).

The four about rounds hold for any customers, drivers, orders, decisions and requests. They rest on `RoundsAssumption` (decisions and requests are ones the code knows, NULL is none of the values).
The others rest on four assumptions; TLC evaluates all of them on every run: `RequestAssumption` and `PaymentsAssumption` (requests
and statuses are ones the code accepts), `CalendarAssumption` (a month is longer than its reminder days, and there is at least one of those),
`NullAssumption` (NULL is no payment, invoice, outcome or date).

**The arguments.**

* *Types.* By cases on the actions, one lemma per component.
* *Money.* `AuditAgrees` and `OneReceiptPerPayment` are not inductive: whether `MarkPaidOnline` may write a reference depends on what the event's row
  and worker say of each other. `MoneyInv` adds three facts: `WorkerMatches` (a worker that is reading or updating has an IGNORED event, and a refused event
  no worker), `ReceiptMatches` (a receipt was sent only after the worker ended, and a worker under way has sent none) and `ReferenceMatches`
  (a reference is a payment for that bill, and its event is not refused and its worker is past the update). That one event has at most one worker, for ever, is where the claim by
  primary key enters: without it the mutant of `HandleWebhook` breaks the invariant. `SettledStaysSettled` is then the guard inside `SettledOnline`, and that deletion and
  insertion act on no paid row that survives.
* *Suspension.* `SuspensionGrounds` needs the sweep's targets to be still good when the sweep gets to them, though nothing looks again. `SuspensionInv` adds
  `TargetsStillOpen` (the targets a suspension sweep has left are bills of
  one month, past their grace days, of customers not suspended) and `ForeignKey` (an invoice has its customer). The point of the argument is that
  only the sweeper suspends, and the sweeper is one goroutine, and a customer has one bill in the month swept, so a customer selected while not suspended cannot have become so before its turn; hence `status_before_suspension` is never `suspended`. `Quiet` is the
  lemma for the many actions that touch none of this.
* *Service.* `SettledBeforeLifting` says that a worker that has reached OnPaid belongs to a payment of a settled bill, unless the admin may set PENDING by hand or the account is gone. With it,
  the only steps that make a suspended customer active are `Approve` and an `OnPaid` for the bill named by the suspension.
* *The ledger.* A bill's standing is read off its row and its customer's (`Standing`: none, open, settled, gone), a payment's ruling off its event (`Ruling`: an event that is claimed and no more is not ruled on). One lemma per component shows each of its steps a step of
  `PaymentLedger` or a stutter (`BillingLedger`, `OtherLedger`, `PayLedger`, `AccountsLedger`). What decides the hard cases is in the invariants above: a worker past its UPDATE has its bill settled or gone (`SettledBeforeLifting`), though the UPDATE's row count is never looked at, so that APPLIED is
  true even of a payment that was overtaken; one that is still before it is on no invoice (`MoneyInv`), so that refusing it loses nothing that was written. One fact is added, `NoRowNoReference`: a row that is raised is new, and bears no reference. The ledger has two switches, both constants: `MayFail`,
  since a failed statement turns captured money away from an open bill, and `MayReopen`, since the admin may set PENDING. It does not know of customers whose bill is deleted unpaid: that is `Leave`.
* *Bills.* `BillsInv` adds to the two properties that a bill between its message and its marker has been sent. An invoice goes only with its customer, and no customer comes back (`HereOrGone`), so what was queued keeps its row or has lost its account.
  `OnceInv` is about the month: until it is claimed no bill of it has gone out, and a claimed month stays claimed (`ClaimedStays`), because the row of the day is never taken back and the months that end afterwards are others; a sweeper that
  is sending has in its queue only bills not sent yet, and a crash empties the queue.
  For `LastBill`, `QueueInv` says that a bill a run has half done is not in that run's queue as well, and that a bill that is marked is in the queue of one run at most: both select unmarked bills only, and the run that set the marker has dropped it. The message of the other is then the last.
* *Reminders.* Nothing in `MarkReminded` looks at the date of the last reminder: what bounds the counter is where the sweep's targets come from. `ReminderInv` says that a sweep under way is on one of its days, or on the day after and before the
  next tick (`TargetsInv`: `ticked` is what keeps it from a second midnight); that a row not reminded today has a day to spare (`CountsInv`); and that the messages, with the one that is marked and not yet sent, stay behind the counter while the row exists
  (`SentInv`), which ends with the account, so that each target carries the bound itself.

* *Rounds.* A frozen plan needs one fact beside the types, `NoRowNoPlan`: a row the lock inserts replaces no plan. For the refinement, `Entry` maps the rows to the ledger;
  PENDING, UNATTEMPTED and the absent row are all "nothing entered", so that locking, closing and reopening are stutters exactly because each of them tests for these statuses in its own
  statement (`QuietSteps`): the mutant of `reopenRound` without its last condition is what breaks it. `corrected` flips at each correction so that the ledger cannot pass a system step off as an admin's.
  For the sweep, `SweepInv` says that whoever it has listed has begun a shift, and that a round is being closed for it only if the shift is over or was begun again: what ends a shift is one UPDATE, from which only a restart, marked by `reopened`, leads back.

* *Orders.* `OrderTypeCorrect` carries `BatchDue`: what a sweep has selected is due and stays so until applied, because only the sweep takes a change out of APPROVED. `ReviewInv` adds the fact that a change is effective the day after its
  approval (`Dated`), that a sweep which has looked since the clock moved has everything due in its batch (`SweepComplete`), that by the time the clock has moved past midnight nothing is due that is not in hand (`CaughtUp`),
  and that a round is locked only after the first hour's sweep (`LockedLate`), which is where the cutoffs being later than midnight enters. `ChangesReachTheRound` follows. `LiveInv` adds that an order's origin is an applied change
  and, with `CaughtUp`, that an older change cannot be left to be applied after a newer one. For `OneSlot`, `NewNumber` (a number without an account has no orders) does the work; for `ClosedRounds`, `FormInTime` (a form whose
  clock and cutoff have not moved was read before the cutoff).
* *Promises.* `Backed` says that a standing promise for a day is a day on which the order has a stop; it is made true by `NextDelivery` through `MirrorAgrees`, and keeps by the definition of when a promise stands. When the round is locked the customer is on it.
  The assumption on cutoffs is what makes a promise of "today" come before today's lock.
* *The book of changes.* `Entries` maps PENDING, APPROVED, APPLIED and REJECTED to the four standings. Only five steps of the model write `change`, one per step of the book (`ChangeMoves`); the partial unique index gives "one waits at a time".
* *Charges.* `TypeInv` carries `Grounded`: a handler that needs a row or an invoice finds it, since neither is deleted. `Priced` says that on a route never without a price every row and every handler about to insert one has a price, except for the lock's
  row. `Dated` says that a queued price, or one about to be queued, is for the first day of a month later than the request's; `LaterMonth` is the arithmetic. `Exact` says of a payment between its comparison and its write that the outcome
  still is true, unless a recalculation overlaps (`raced`): an invoice's total is written by nothing else.

TLC checked each of these invariants before it was proved.

**Only model-checked:** the liveness properties (`ApprovedChangesLand` and `QueuedPricesLand` among them): liveness under fairness, and ENABLED, are beyond the proof system's reach, as is induction over data, so that no theorem speaks of
what a recursive definition computes. Every invariant that a run checks is also proved.

## 5. What the checks found

Five places where the code does not do what its comments say, each a run that must fail:

* `CashPaid`: the comment at `src/main.go:205-208` says that a bill marked PAID_CASH by the admin lifts the suspension. `MarkPaid` (`billing.go:867`) does not call `OnPaid`: the customer stays suspended.
* `UnsentBills`: bills left unsent by a dead or expired run are, by the comment at `billing.go:493-494`, picked up by the next one. The next one sends nothing unless it inserted something
  (`billing.go:462`, `dunning.go:184`), and the invoices are already there.
* `ClaimedDay`: the day's GENERATE row is claimed before the work (`dunning.go:126`) and stays if the work fails; the hourly retries that `dunning.go:18-19` counts on all turn back.
* `ClaimedEvent`: an event is claimed and answered before it is processed (`webhook.go:127`); a crash then leaves it IGNORED, and a redelivery, if there is one, is a duplicate.
* `NeverOpened`: by the comment at `driver.go:343` the auto-end sweeper covers "a driver who never opens the app at all". It looks for ACTIVE shifts (`shifts.go:438`); without a start there is none, and the locked stops stay PENDING for ever.

Of rounds also: the comment at `shifts.go:271-273` lets EndShift ignore a failed closing because "the auto-end sweeper will close the round anyway", but the shift is ENDED by then and the sweeper
does not find it (the model has the step, `CloseFails`, without a run of its own); the same holds of a shift reopened and forgotten, of one begun between the sweeper's two statements, and
of a server that is down from the shift end to midnight. A driver who ends the shift before the cutoff leaves rows without a plan, which the lock then skips, so that "on a locked round this finds nothing" (`driver.go:360`) and the frozen plan fail for them.
A report sent again overwrites an admin's correction.

Of orders:
* A form that has read the clock and the cutoff before the lock may write its override after it, and a moved cutoff reopens a locked round for the customer; the round keeps its plan. `RoundClosed` names these windows and shows that there is no other.
* A second slot comes of a registration sent twice for one number: `ON CONFLICT (customer_id, slot)` adds the other slot, and rewrites an existing order without review, whatever the customer's status.
* `applyDueChanges` has no ORDER BY: of two changes approved on one day, either may be applied last. A change that failed is retried each hour, and can then come after a newer one.
* `NextDelivery` knows no overrides and no stop, and its cutoffs are constants: with a cutoff configured earlier than 02:00 or 13:00 it can promise a delivery of a round already closed (`CutoffAssumption`). Before the anchor of an alternate schedule the SQL
  delivers and the Go mirror does not; `MirrorAgrees` therefore speaks of days from the anchors on.
* A client that goes away between the transaction and `MarkUsed` leaves the link usable.

Of charges:
* A row the lock inserted has price 0, and neither `Update` nor `AdminUpsert` prices an existing row: a stop that an admin, and not the driver, records as DELIVERED on a locked round is billed at nothing. This is the recovery the comment at
  `delivery.go:730-752` is about. `ChargedAtAPrice` excepts exactly these rows (`source`).
* `SetPrices` answers "This month's deliveries are unaffected" (`pricing.go:140`). A delivery of the month whose report is synced after the promotion is priced at the new price, since `LogDelivery` reads the price when it runs; so is any report sent again. The exception in
  `CorrectionsKeepPrices` is for these.
* `RegenerateInvoice` refuses a paid invoice, but its UPDATE has no such condition: a payment that lands in between is followed by a new total, although the comment at `billing_corrections.go:191-193` rules that out. Two properties except it by `raced`.
* `CreateLinkForInvoice` reuses any link whose amount matches, so a link that was cancelled or has expired is handed out again, where `paypage.go:25-27` says that the page "self-heals expired links".
* A payment of another amount than the bill's still marks it PAID_ONLINE, with AMOUNT_MISMATCH in the audit alone.
* A complaint that arrives between `Resolve`'s load and its UPDATE is cleared unread. The amount `Resolve` reports and sends to the customer is not divided by 1000, and is stated for rows that are not DELIVERED as well. `aggregateOne` (`billing_corrections.go:81`)
  stores prices per millilitre in the breakdown where `billing.go:154` stores them per litre. (Wording and breakdowns are not modelled; these were met while reading.)
* A new request before the promotion of the first of the month postpones the queued price by another month; a product priced for the first time on a route that has prices is queued like any other, and delivered for nothing until the first.

Also seen, and not promised otherwise by the repository, so no run states it: overlapping runs of one month bill twice; a final invoice is sent again by a run for its
month, because `FinalInvoice` does not set `bill_sent_at`; a payment landing between the suspension sweep's SELECT and its UPDATE leaves
a customer suspended for a paid bill; a second payment that raced the first is recorded as APPLIED although its UPDATE changed no row; PAUSE and
RESUME overwrite a suspension that lands between the gatekeeper and the handler; the account deletion of `whatsapp.go` goes ahead when the query for unpaid bills fails.

## 6. Plan

Done: the billing cycle, rounds, orders, charges, in that order, each with its composition, instance, runs and proofs. Left, by what it would add:

1. The send pool as channels and workers: `notifyFreshInvoices` checks its budget before an unbuffered send, so that if all workers leave between that check and the send it blocks for ever.
2. `Rounds` and `Charges` over one row: an admin's plan edit is not what `LogDelivery` records by default, and an order's quantities are one number in `Rounds`.

Not modelled: rendering, authentication, paging, statistics, message texts, the test drivers of `cmd/`, driver accounts, stop sequences, route creation and the listings, which keep no state or decide nothing about it; the admin's
PUT of a whole customer row, which writes any value over any other.

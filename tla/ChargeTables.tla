---------------------------- MODULE ChargeTables ----------------------------
(***************************************************************************)
(* What one customer is charged for one delivery: the price of the route,  *)
(* the row of the delivery, the invoice of its month and the payment links *)
(* of the invoice.  Prices, DeliveryRows, Bills and Charges extend this    *)
(* module.                                                                 *)
(*                                                                         *)
(* One product, whose price is per litre; its quantity is in millilitres,  *)
(* and amounts are in thousandths of a rupee, so that quantity times price *)
(* is an amount.  The delivery is of day 0; month m begins on day          *)
(* m * MonthLength.                                                        *)
(***************************************************************************)
EXTENDS Integers, FiniteSets

CONSTANTS
    Price,        \* the prices an admin may set
    Quantity,     \* the quantities a driver or an admin may enter
    MonthLength,  \* days in a month
    LastDay,      \* bound: days 0..LastDay
    LastRequest,  \* bound: requests of the admin, the driver's app and the customer
    MaxRunning,   \* bound: handlers at work at a time
    Fallible,     \* TRUE: the process may crash, Razorpay or a statement fail
    NONE          \* SQL NULL, a missing row

ASSUME ChargesAssumption ==
    /\ MonthLength \in Nat \ {0} /\ LastDay \in Nat
    /\ LastRequest \in Nat /\ MaxRunning \in Nat
    /\ Price \subseteq Nat /\ Quantity \subseteq Nat
    /\ Fallible \in BOOLEAN

VARIABLES
    day,
    price,      \* routes.price_*: 0, not priced yet
    queued,     \* routes.pending_price_* and pending_effective_from, and
                \*   (history) the month of the request behind them
    log,        \* delivery_logs: the row of the delivery
    invoice,    \* invoices: the row of the delivery's month
    open,       \* Razorpay: the amounts of the links that can be paid
    running,    \* the handlers between two of their statements
    requests,   \* bound: how many requests there have been
    unpriced,   \* history: the price has been 0 at some time
    settled,    \* history: the payment the invoice was settled by
    raced       \* history: a recalculation and a payment overlapped

priceVars == <<price, queued, unpriced>>
billVars  == <<invoice, open, settled, raced>>

Month(d)     == d \div MonthLength
NextMonth(d) == (Month(d) + 1) * MonthLength

Queued == [price : Nat, from : Nat, asked : Nat]

RowStatus == {"PENDING", "DELIVERED", "SKIPPED"}

(* source is a history: what inserted the row or, later, the driver. *)
Row == [status : RowStatus, qty : Nat, unit : Nat, flagged : BOOLEAN,
        source : {"lock", "driver", "admin"}]

InvoiceStatus == {"PENDING", "PAID_ONLINE", "PAID_CASH"}
Invoice       == [total : Nat, status : InvoiceStatus, link : Nat \cup {NONE}]

(* NULL is no value of the columns it may stand in, and no row. *)
ASSUME NullAssumption ==
    /\ NONE \notin Nat
    /\ NONE \notin Queued
    /\ NONE \notin Row
    /\ NONE \notin Invoice

Paid(i) == i.status # "PENDING"

(* The row's part of the month's bill. *)
Worth(row) == IF row.status = "DELIVERED" THEN row.qty * row.unit ELSE 0

(* A handler at work keeps what its first statement read; "issue" is the   *)
(* page of a complaint. *)
Handler ==
    [op : {"prices"}, price : Nat, from : Nat \cup {NONE}, asked : Nat]
    \cup [op : {"report"}, status : RowStatus, qty : Nat, unit : Nat, flagged : BOOLEAN]
    \cup [op : {"upsert"}, status : RowStatus, qty : Nat, unit : Nat]
    \cup [op : {"issue"}]
    \cup [op : {"resolve"}, qty : Nat \cup {NONE}, row : Row]
    \cup [op : {"generate", "regenerate", "save", "paid"}, total : Nat]
    \cup [op : {"reissue"}, total : Nat, old : Nat \cup {NONE}]
    \cup [op : {"settle"}, total : Nat, outcome : {"APPLIED", "AMOUNT_MISMATCH"}]

At(op) == {r \in running : r.op = op}

(* A request is taken; the handler writes later, or dies with the process. *)
Request   == requests < LastRequest /\ requests' = requests + 1
Starts(r) == Cardinality(running) < MaxRunning /\ r \notin running /\ running' = running \cup {r}
Ends(r)   == running' = running \ {r}

TablesTypeOK ==
    /\ day \in 0..LastDay
    /\ price \in Nat
    /\ queued \in Queued \cup {NONE}
    /\ log \in Row \cup {NONE}
    /\ invoice \in Invoice \cup {NONE}
    /\ open \subseteq Nat
    /\ running \subseteq Handler
    /\ requests \in 0..LastRequest
    /\ unpriced \in BOOLEAN
    /\ settled = NONE \/ settled \in [amount : Nat, outcome : {"APPLIED", "AMOUNT_MISMATCH"}]
    /\ raced \in BOOLEAN

(* A new route, a priced one, or one whose delivery has been billed, with  *)
(* a link to pay it. *)
TablesInit ==
    /\ queued = NONE /\ running = {} /\ requests = 0
    /\ settled = NONE /\ raced = FALSE
    /\ price \in Price \cup {0}
    /\ unpriced = (price = 0)
    /\ \/ day = 0 /\ log = NONE /\ invoice = NONE /\ open = {}
       \/ /\ MonthLength <= LastDay
          /\ \E q \in Quantity :
                /\ q * price > 0
                /\ open = {q * price}
                /\ day = MonthLength
                /\ log = [status |-> "DELIVERED", qty |-> q, unit |-> price, flagged |-> FALSE,
                          source |-> "driver"]
                /\ invoice = [total |-> q * price, status |-> "PENDING", link |-> q * price]
=============================================================================

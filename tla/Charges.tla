------------------------------ MODULE Charges ------------------------------
(***************************************************************************)
(* What a delivery costs: prices, the row of the delivery and its bill     *)
(* together, over the days of two months.                                  *)
(***************************************************************************)
EXTENDS Bills

chargeVars == <<day, priceVars, log, billVars, running, requests>>

Init == TablesInit

Tick ==
    /\ day < LastDay
    /\ day' = day + 1
    /\ UNCHANGED <<priceVars, log, billVars, running, requests>>

(* Handlers die with the process; the database and Razorpay do not. *)
Crash ==
    /\ Fallible
    /\ running # {}
    /\ running' = {}
    /\ UNCHANGED <<day, priceVars, log, billVars, requests>>

Next == PriceStep \/ RowStep \/ BillStep \/ Tick \/ Crash

Spec == Init /\ [][Next]_chargeVars

(* Days pass, and the ticker of the sweeper outlives any failed sweep. *)
FairSpec == Spec /\ WF_chargeVars(Tick) /\ WF_chargeVars(promotePendingPrices)

-----------------------------------------------------------------------------
(* Properties                                                              *)

(* Every table and handler holds values of its columns. *)
TypeOK == TablesTypeOK

(* The price of a priced route moves only in a month later than the one in *)
(* which the new price was asked for, whenever the sweeper comes to it; a  *)
(* route without a price, or one that had none when the request read it,   *)
(* is priced at once. *)
PricesStandWithinMonth ==
    [][price' # price =>
         \/ price = 0
         \/ queued # NONE /\ price' = queued.price /\ queued.asked < Month(day)
         \/ \E r \in At("prices") : r.from = NONE /\ price' = r.price
      ]_chargeVars

(* On a route that was never without a price, what is delivered is charged *)
(* for, whoever wrote the row and when: the driver, the admin who restores *)
(* a report that was lost, or both at once.  A row that locking the round  *)
(* wrote first is the exception: an admin's correction leaves it free.     *)
ChargedAtAPrice ==
    log # NONE =>
        (/\ ~unpriced /\ log.status = "DELIVERED" /\ log.qty > 0 /\ log.unit = 0
         => log.source = "lock")

(* No correction, complaint or bill prices a delivery anew, even if the    *)
(* route's price has moved since it was made; only a report of the driver  *)
(* does. *)
CorrectionsKeepPrices ==
    [][log # NONE /\ log'.unit # log.unit =>
         \E r \in At("report") : r \notin running' /\ log'.unit = r.unit]_chargeVars

(* The total of a paid bill moves only if the payment came while the bill  *)
(* was being recalculated. *)
SettledTotalStands ==
    [][invoice # NONE /\ Paid(invoice) /\ Paid(invoice') /\ invoice'.total # invoice.total
         => raced']_chargeVars

(* A payment is recorded as exact only if it is what the bill came to:     *)
(* links outlive the amounts they were made for, and the page may have     *)
(* handed out any of them. *)
AppliedIsExact ==
    settled # NONE /\ settled.outcome = "APPLIED" /\ ~raced =>
        settled.amount = invoice.total

(* A queued price lands, is cancelled or moved to another month, even if   *)
(* the process was down on the first. *)
QueuedPricesLand ==
    \A d \in 0..LastDay :
        (queued # NONE /\ queued.from = d) ~> ~(queued # NONE /\ queued.from = d)
=============================================================================

------------------------------- MODULE Prices -------------------------------
(***************************************************************************)
(* The price list of a route.  The first price of a route is live at once, *)
(* every later one is queued for the first of next month, when the hourly  *)
(* sweeper promotes it.                                                    *)
(***************************************************************************)
EXTENDS ChargeTables

Live(v)  == price' = v /\ unpriced' = (unpriced \/ v = 0)

(* Mutant: the first of this month. *)
SetPricesThisMonth(v) ==
    /\ Request
    /\ Starts([op |-> "prices", price |-> v, asked |-> Month(day),
               from |-> IF price = 0 THEN NONE ELSE NextMonth(day) - MonthLength])
    /\ UNCHANGED <<day, priceVars, log, billVars>>

(* SetPrices reads whether the route has a price, and the clock; *)
SetPrices(v) ==
    /\ Request
    /\ Starts([op |-> "prices", price |-> v, asked |-> Month(day),
               from |-> IF price = 0 THEN NONE ELSE NextMonth(day)])
    /\ UNCHANGED <<day, priceVars, log, billVars>>

(* then it sets the price, which clears the queue, or the queue. *)
SetPricesWrites(r) ==
    /\ r.op = "prices"
    /\ Ends(r)
    /\ \/ r.from = NONE /\ Live(r.price) /\ queued' = NONE
       \/ /\ r.from # NONE
          /\ queued' = [price |-> r.price, from |-> r.from, asked |-> r.asked]
          /\ UNCHANGED <<price, unpriced>>
    /\ UNCHANGED <<day, log, billVars, requests>>

CancelPendingPrices ==
    /\ Request
    /\ queued # NONE
    /\ queued' = NONE
    /\ UNCHANGED <<day, price, unpriced, log, billVars, running>>

(* Mutant: = instead of <=. *)
promoteOnTheDay ==
    /\ queued # NONE /\ queued.from = day
    /\ Live(queued.price)
    /\ queued' = NONE
    /\ UNCHANGED <<day, log, billVars, running, requests>>

(* Hourly, and at boot. *)
promotePendingPrices ==
    /\ queued # NONE /\ queued.from <= day
    /\ Live(queued.price)
    /\ queued' = NONE
    /\ UNCHANGED <<day, log, billVars, running, requests>>

PriceStep ==
    \/ \E v \in Price : SetPrices(v)
    \/ \E r \in running : SetPricesWrites(r)
    \/ CancelPendingPrices
    \/ promotePendingPrices
=============================================================================

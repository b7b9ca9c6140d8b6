------------------------------- MODULE Bills -------------------------------
(***************************************************************************)
(* The bill of the month: raised and recalculated from the row, marked by  *)
(* the admin, and paid through a Razorpay link, which is for the amount    *)
(* the bill had when the link was made.                                    *)
(***************************************************************************)
EXTENDS DeliveryRows

billOthers == <<day, priceVars, log>>

(* Generate sums up a month that is over; *)
Generate ==
    /\ Request
    /\ Month(day) > 0
    /\ log # NONE /\ Worth(log) > 0
    /\ Starts([op |-> "generate", total |-> Worth(log)])
    /\ UNCHANGED <<billOthers, billVars>>

(* INSERT ... ON CONFLICT DO NOTHING. *)
GenerateWrites(r) ==
    /\ r.op = "generate"
    /\ Ends(r)
    /\ invoice' = IF invoice = NONE
                  THEN [total |-> r.total, status |-> "PENDING", link |-> NONE]
                  ELSE invoice
    /\ UNCHANGED <<billOthers, open, settled, raced, requests>>

(* Mutant: without the check for a paid invoice. *)
RegenerateAnyInvoice ==
    /\ Request
    /\ invoice # NONE
    /\ log # NONE /\ log.status = "DELIVERED"
    /\ Starts([op |-> "regenerate", total |-> Worth(log)])
    /\ UNCHANGED <<billOthers, billVars>>

(* RegenerateInvoice reads that the invoice is unpaid, and sums up again; *)
RegenerateInvoice ==
    /\ Request
    /\ invoice # NONE /\ ~Paid(invoice)
    /\ log # NONE /\ log.status = "DELIVERED"
    /\ Starts([op |-> "regenerate", total |-> Worth(log)])
    /\ UNCHANGED <<billOthers, billVars>>

(* the UPDATE is of the invoice whatever its status has become. *)
RegenerateInvoiceWrites(r) ==
    /\ r.op = "regenerate"
    /\ Ends(r)
    /\ invoice' = [invoice EXCEPT !.total = r.total]
    /\ raced' = (raced \/ At("settle") # {})
    /\ UNCHANGED <<billOthers, open, settled, requests>>

(* A paid invoice's link is cancelled, in a goroutine that may fail. *)
MarkPaid(status) ==
    /\ Request
    /\ invoice # NONE
    /\ invoice' = [invoice EXCEPT !.status = status]
    /\ \/ status # "PENDING" /\ open' = open \ {invoice.link}
       \/ (status = "PENDING" \/ Fallible) /\ open' = open
    /\ settled' = NONE
    /\ raced' = (raced \/ At("regenerate") # {})
    /\ UNCHANGED <<billOthers, running>>

-----------------------------------------------------------------------------
(* Links.                                                                  *)

(* CreateLinkForInvoice, called with a bill, a corrected bill and by the   *)
(* bill's page: a link of the invoice's amount is used again, which is no  *)
(* step; *)
CreateLinkForInvoice ==
    /\ Request
    /\ invoice # NONE /\ ~Paid(invoice)
    /\ invoice.total > 0 /\ invoice.link # invoice.total
    /\ Starts([op |-> "reissue", total |-> invoice.total, old |-> invoice.link])
    /\ UNCHANGED <<billOthers, billVars>>

(* a link of another amount is cancelled, if Razorpay does, and a new one  *)
(* made, *)
CreateLink(r) ==
    /\ r.op = "reissue"
    /\ \E kept \in {open \ {r.old}} \cup (IF Fallible THEN {open} ELSE {}) :
          \/ /\ open' = kept \cup {r.total}
             /\ running' = (running \ {r}) \cup {[op |-> "save", total |-> r.total]}
          \/ Fallible /\ open' = kept /\ Ends(r)
    /\ UNCHANGED <<billOthers, invoice, settled, raced, requests>>

(* and recorded; should that fail, it is handed out all the same. *)
SaveLink(r) ==
    /\ r.op = "save"
    /\ Ends(r)
    /\ \/ invoice' = [invoice EXCEPT !.link = r.total]
       \/ Fallible /\ invoice' = invoice
    /\ UNCHANGED <<billOthers, open, settled, raced, requests>>

-----------------------------------------------------------------------------
(* Payments.                                                               *)

(* The customer pays a link of amount a, which pays no other. *)
Pay(a) ==
    /\ Request
    /\ a \in open
    /\ open' = open \ {a}
    /\ Starts([op |-> "paid", total |-> a])
    /\ UNCHANGED <<billOthers, invoice, settled, raced>>

(* Mutant: the amount expected is the link's. *)
processLinkAmount(r) ==
    /\ r.op = "paid"
    /\ \/ Paid(invoice) /\ Ends(r)
       \/ /\ ~Paid(invoice)
          /\ running' = (running \ {r}) \cup
                {[op |-> "settle", total |-> r.total,
                  outcome |-> IF r.total = invoice.link THEN "APPLIED" ELSE "AMOUNT_MISMATCH"]}
    /\ UNCHANGED <<billOthers, billVars, requests>>

(* process compares the payment with the invoice, unless that is paid; *)
process(r) ==
    /\ r.op = "paid"
    /\ \/ Paid(invoice) /\ Ends(r)
       \/ /\ ~Paid(invoice)
          /\ running' = (running \ {r}) \cup
                {[op |-> "settle", total |-> r.total,
                  outcome |-> IF r.total = invoice.total THEN "APPLIED" ELSE "AMOUNT_MISMATCH"]}
    /\ UNCHANGED <<billOthers, billVars, requests>>

(* Mutant: a status no column takes. *)
processWritesPaid(r) ==
    /\ r.op = "settle"
    /\ Ends(r)
    /\ IF Paid(invoice)
       THEN UNCHANGED billVars
       ELSE /\ invoice' = [invoice EXCEPT !.status = "PAID"]
            /\ settled' = [amount |-> r.total, outcome |-> r.outcome]
            /\ raced' = (raced \/ At("regenerate") # {})
            /\ UNCHANGED open
    /\ UNCHANGED <<billOthers, requests>>

(* a payment of another amount settles it too, but what is paid by now     *)
(* keeps its status. *)
processWrites(r) ==
    /\ r.op = "settle"
    /\ Ends(r)
    /\ IF Paid(invoice)
       THEN UNCHANGED billVars
       ELSE /\ invoice' = [invoice EXCEPT !.status = "PAID_ONLINE"]
            /\ settled' = [amount |-> r.total, outcome |-> r.outcome]
            /\ raced' = (raced \/ At("regenerate") # {})
            /\ UNCHANGED open
    /\ UNCHANGED <<billOthers, requests>>

BillStep ==
    \/ Generate
    \/ RegenerateInvoice
    \/ \E status \in InvoiceStatus : MarkPaid(status)
    \/ CreateLinkForInvoice
    \/ \E a \in open : Pay(a)
    \/ \E r \in running :
          \/ GenerateWrites(r) \/ RegenerateInvoiceWrites(r)
          \/ CreateLink(r) \/ SaveLink(r)
          \/ process(r) \/ processWrites(r)
=============================================================================

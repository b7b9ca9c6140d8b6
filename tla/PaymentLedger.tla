--------------------------- MODULE PaymentLedger ---------------------------
(***************************************************************************)
(* What billing promises about money, without webhooks, goroutines,        *)
(* redelivery or the audit table's rows: a bill is open until a payment of *)
(* it, or a person, settles it; a payment settles its bill once and is     *)
(* ruled on once; it is not ruled applied while its bill stands open, and  *)
(* not refused if it settled anything.  BillingCycle implements it.        *)
(***************************************************************************)
CONSTANTS
    Customer,
    Month,
    Payment,
    MayFail,    \* TRUE: captured money may be turned away from an open bill
    MayReopen,  \* TRUE: settled bills may be opened again by hand
    NONE

Bill == Customer \X Month

VARIABLES
    bill,       \* none, open or settled; gone for good with its customer
    settledBy,  \* the payment that settled the bill, if one did
    madeFor,    \* the bill a payment was made for
    ruling      \* what was ruled of the payment

ledgerVars == <<bill, settledBy, madeFor, ruling>>

LedgerInit ==
    /\ bill = [b \in Bill |-> "none"]
    /\ settledBy = [b \in Bill |-> NONE]
    /\ madeFor = [p \in Payment |-> NONE]
    /\ ruling = [p \in Payment |-> NONE]

(* A month's bills are raised together, or one of a leaving customer. *)
Raise(raised) ==
    /\ \A b \in raised : bill[b] = "none"
    /\ bill' = [b \in Bill |-> IF b \in raised THEN "open" ELSE bill[b]]
    /\ UNCHANGED <<settledBy, madeFor, ruling>>

(* A link outlives the settling of its bill. *)
Pay(p, b) ==
    /\ madeFor[p] = NONE
    /\ bill[b] \in {"open", "settled"}
    /\ madeFor' = [madeFor EXCEPT ![p] = b]
    /\ UNCHANGED <<bill, settledBy, ruling>>

Settle(p, b) ==
    /\ madeFor[p] = b
    /\ ruling[p] = NONE
    /\ bill[b] = "open"
    /\ settledBy[b] # p
    /\ bill' = [bill EXCEPT ![b] = "settled"]
    /\ settledBy' = [settledBy EXCEPT ![b] = p]
    /\ UNCHANGED <<madeFor, ruling>>

MarkByHand(b, standing) ==
    /\ bill[b] \in {"open", "settled"}
    /\ bill[b] = "settled" /\ standing = "open" => MayReopen
    /\ bill' = [bill EXCEPT ![b] = standing]
    /\ UNCHANGED <<settledBy, madeFor, ruling>>

Closed(b) == bill[b] \in {"settled", "gone"}

Apply(p, b) ==
    /\ madeFor[p] = b
    /\ ruling[p] = NONE
    /\ Closed(b) \/ MayReopen
    /\ ruling' = [ruling EXCEPT ![p] = "applied"]
    /\ UNCHANGED <<bill, settledBy, madeFor>>

Refuse(p, b) ==
    /\ madeFor[p] = b
    /\ ruling[p] = NONE
    /\ settledBy[b] # p
    /\ Closed(b) \/ MayFail
    /\ ruling' = [ruling EXCEPT ![p] = "refused"]
    /\ UNCHANGED <<bill, settledBy, madeFor>>

Leave(c) ==
    /\ bill' = [b \in Bill |-> IF b[1] = c THEN "gone" ELSE bill[b]]
    /\ settledBy' = [b \in Bill |-> IF b[1] = c THEN NONE ELSE settledBy[b]]
    /\ UNCHANGED <<madeFor, ruling>>

LedgerNext ==
    \/ \E raised \in SUBSET Bill : Raise(raised)
    \/ \E p \in Payment, b \in Bill : Pay(p, b) \/ Settle(p, b) \/ Apply(p, b) \/ Refuse(p, b)
    \/ \E b \in Bill, standing \in {"open", "settled"} : MarkByHand(b, standing)
    \/ \E c \in Customer : Leave(c)

LedgerSpec == LedgerInit /\ [][LedgerNext]_ledgerVars
=============================================================================

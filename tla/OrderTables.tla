---------------------------- MODULE OrderTables ----------------------------
(***************************************************************************)
(* The rows one customer's orders are made of, and the clock.  Forms,      *)
(* ChangeRequests and Orders extend this module.  Nothing in their         *)
(* statements crosses from one customer to another.                        *)
(***************************************************************************)
EXTENDS Schedule

CONSTANTS
    LastDay,    \* bound: days 0..LastDay
    Hour,       \* the hours that matter; an hour lasts until the next of them
    Cutoff,     \* per slot, the cutoffs the configuration may hold
    Order,      \* the standing orders a page may send
    Items,      \* the quantities an override may set
    LastLink,   \* bound: links 1..LastLink are asked for
    LastChange, \* bound: change requests 1..LastChange
    LastIncident,\* bound: pauses, rejected or edited customers, cutoffs moved and
                 \*   links left unmarked, together
    Held,       \* the slots whose order may be on file at the start
    Fallible    \* TRUE: the process may crash or be down, a statement may fail

Slot   == {"morning", "evening"}
Day    == 0..LastDay
Link   == 1..LastLink
Change == 1..LastChange

VARIABLES
    day, hour,  \* the time, in India
    cutoff,     \* system_config: each slot's order cutoff
    status,     \* customers.status
    sub,        \* subscriptions, per slot: the order, whether it is routed,
                \*   and (history) what wrote it
    override,   \* order_overrides, per slot and date; those of the past are left out
    change,     \* pending_subscription_changes, and (history) the day of approval
    locked,     \* manifest_locks: per slot, today's round is locked
    plan,       \* delivery_logs.planned_order of today's stop, and (history) what
                \*   wrote the order
    failed,     \* history: something failed, or the process was down
    incidents   \* bound: how many there have been

clockVars == <<day, hour>>
orderVars == <<status, sub, override>>
roundVars == <<locked, plan>>

Status == {"ABSENT", "pending", "active", "disabled", "rejected"}

(* What wrote an order on file: an approved change; NONE, a registration   *)
(* or an admin. *)
Origin == Change \cup {NONE}

ReviewStatus == {"PENDING", "APPROVED", "APPLIED", "REJECTED"}

ChangeRow ==
    [status : ReviewStatus, slot : Slot, order : Order, assigned : BOOLEAN,
     approvedOn : Day \cup {NONE}, effective : Nat \cup {NONE}]

SubscriptionRow == [order : StandingOrder, routed : BOOLEAN, from : Origin]
PlanRow         == [qty : [Product -> Nat], from : Origin]

ASSUME OrderAssumption ==
    /\ LastDay \in Nat /\ LastLink \in Nat /\ LastChange \in Nat /\ LastIncident \in Nat
    /\ Hour \subseteq Nat /\ 0 \in Hour
    /\ Fallible \in BOOLEAN
    /\ Items \subseteq [Product -> Nat]
    /\ Held \subseteq Slot
    /\ Order \subseteq SentOrder
    /\ \A o \in Order : ValidOrder(o) /\ \E p \in Product : o.qty[p] > 0
    /\ NONE \notin Int \cup Order \cup PlanRow \cup ChangeRow

(* A round is configured to close no earlier than the messages assume.     *)
(* (The defaults are 03:00 and 15:00; nothing checks what the admin sets.) *)
ASSUME CutoffAssumption ==
    \A s \in Slot :
        /\ Cutoff[s] # {} /\ Cutoff[s] \subseteq Nat
        /\ \A c \in Cutoff[s] : c >= cutoffHour(s)

Subscribed(s)   == sub[s] # NONE
FreeChange      == {k \in Change : change[k] = NONE}
IsChange(k, st) == change[k] # NONE /\ change[k].status = st
Passed(s)       == hour >= cutoff[s]

Incident == incidents < LastIncident /\ incidents' = incidents + 1

NoOverrides == [s \in Slot |-> [d \in Day |-> NONE]]

Subscription(o, routed, origin) == [order |-> o, routed |-> routed, from |-> origin]

(* INSERT ... ON CONFLICT (customer_id, slot) DO UPDATE: routing is in     *)
(* neither list, so that an existing row keeps it.                         *)
Upserted(s, o, origin) ==
    [sub EXCEPT ![s] = Subscription(o, Subscribed(s) /\ sub[s].routed, origin)]

TablesTypeOK ==
    /\ day \in Day /\ hour \in Hour
    /\ DOMAIN cutoff = Slot /\ \A s \in Slot : cutoff[s] \in Cutoff[s]
    /\ status \in Status
    /\ sub \in [Slot -> SubscriptionRow \cup {NONE}]
    /\ override \in [Slot -> [Day -> Items \cup {NONE}]]
    /\ change \in [Change -> ChangeRow \cup {NONE}]
    /\ \A k \in Change : change[k] # NONE =>
          (change[k].status \in {"APPROVED", "APPLIED"} <=> change[k].effective # NONE)
    /\ locked \in [Slot -> BOOLEAN]
    /\ plan \in [Slot -> PlanRow \cup {NONE}]
    /\ failed \in BOOLEAN
    /\ incidents \in 0..LastIncident

TablesInit ==
    /\ day = 0 /\ hour = 0
    /\ cutoff = [s \in Slot |-> Min(Cutoff[s])]
    /\ override = NoOverrides
    /\ change = [k \in Change |-> NONE]
    /\ locked = [s \in Slot |-> FALSE]
    /\ plan = [s \in Slot |-> NONE]
    /\ failed = FALSE
    /\ incidents = 0
    /\ \/ /\ status = "ABSENT"
          /\ sub = [s \in Slot |-> NONE]
       \/ \E s \in Held, o \in Order :
             /\ status = "pending"
             /\ sub = [t \in Slot |-> IF t = s THEN Subscription(StoredOrder(o, 0), FALSE, NONE)
                                      ELSE NONE]
=============================================================================

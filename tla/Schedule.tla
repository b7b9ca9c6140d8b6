------------------------------ MODULE Schedule ------------------------------
(***************************************************************************)
(* Which products of a standing order are due on a date.  The rule exists  *)
(* twice: item_due_on() in SQL decides what a round delivers, its mirror   *)
(* in Go what a message promises.                                          *)
(*                                                                         *)
(* A standing order is a record: type, days and anchor are the slot's      *)
(* schedule, qty the quantity of each product, items the product's own     *)
(* schedule where it has one.  A day is a number; day 0 is a Sunday.       *)
(***************************************************************************)
EXTENDS Integers, FiniteSetsExt

CONSTANTS
    Product,   \* Products
    NONE       \* SQL NULL, a missing JSON key, an empty string

Week         == 0..6
Weekday(d)   == d % 7
ScheduleType == {"daily", "alternate", "custom"}

ItemSchedule == [type : ScheduleType, days : (SUBSET Week) \cup {NONE}, anchor : Int \cup {NONE}]

(* What a page sends.  An order on file has a start day, always. *)
SentOrder ==
    [type : ScheduleType, days : SUBSET Week, anchor : Int \cup {NONE},
     qty : [Product -> Nat], items : [Product -> ItemSchedule \cup {NONE}]]

StandingOrder ==
    [type : ScheduleType, days : SUBSET Week, anchor : Int,
     qty : [Product -> Nat], items : [Product -> ItemSchedule \cup {NONE}]]

-----------------------------------------------------------------------------
(* In SQL.                                                                 *)

(* An item's schedule falls back to the slot's field by field. *)
item_due_on(item, o, d) ==
    LET type   == IF item = NONE THEN o.type ELSE item.type
        days   == IF item = NONE \/ item.days = NONE THEN o.days ELSE item.days
        anchor == IF item = NONE \/ item.anchor = NONE THEN o.anchor ELSE item.anchor
    IN  /\ type = "custom" => Weekday(d) \in days
        /\ type = "alternate" => (d - anchor) % 2 = 0

ItemDue(o, p, d)    == item_due_on(o.items[p], o, d)
AnyItemDue(o, d)    == \E p \in Product : o.qty[p] > 0 /\ ItemDue(o, p, d)

(* An override beats the schedule, product by product. *)
ScheduledQty(o, override, p, d) ==
    IF override # NONE THEN override[p] ELSE IF ItemDue(o, p, d) THEN o.qty[p] ELSE 0

PlannedOrder(o, override, d) == [p \in Product |-> ScheduledQty(o, override, p, d)]

(* WHERE (any item due OR o.id IS NOT NULL) AND total > 0 *)
HasStop(o, override, d) ==
    /\ AnyItemDue(o, d) \/ override # NONE
    /\ \E p \in Product : ScheduledQty(o, override, p, d) > 0

-----------------------------------------------------------------------------
(* In Go.                                                                  *)

(* Whole days since the anchor; before it nothing is due. *)
EverySecondDay(anchor, d) == d >= anchor /\ (d - anchor) % 2 = 0

slotDueOn(o, d) ==
    /\ o.type = "alternate" => EverySecondDay(o.anchor, d)
    /\ o.type = "custom" => Weekday(d) \in o.days

itemDueOn(o, p, d) ==
    LET item == o.items[p] IN
    IF item = NONE THEN slotDueOn(o, d)
    ELSE /\ item.type = "alternate" =>
                EverySecondDay(IF item.anchor = NONE THEN o.anchor ELSE item.anchor, d)
         /\ item.type = "custom" => item.days # NONE /\ Weekday(d) \in item.days

dueOn(o, d) == \E p \in Product : o.qty[p] > 0 /\ itemDueOn(o, p, d)

(* The hour from which a message no longer promises today's round. *)
cutoffHour(slot) == IF slot = "evening" THEN 13 ELSE 2

searchHorizon == 14

(* Mutant: today's round is promised at any hour. *)
NextDeliveryFromToday(o, routed, slot, day, hour) ==
    LET due == {d \in day .. day + searchHorizon : dueOn(o, d)}
    IN  IF routed /\ due # {} THEN Min(due) ELSE NONE

(* The date a message promises for a slot's first delivery. *)
NextDelivery(o, routed, slot, day, hour) ==
    LET start == IF hour >= cutoffHour(slot) THEN day + 1 ELSE day
        due   == {d \in start .. day + searchHorizon : dueOn(o, d)}
    IN  IF routed /\ due # {} THEN Min(due) ELSE NONE

-----------------------------------------------------------------------------
(* What a page sends, and what is stored of it.                            *)

ValidItem(item) ==
    /\ item.type \in ScheduleType
    /\ item.type = "custom" => item.days # NONE /\ item.days # {} /\ item.days \subseteq Week

(* ValidateItemSchedules, entry by entry: only the fields the type uses,   *)
(* all seven days is daily, an alternate item without a start takes the    *)
(* slot's.                                                                 *)
CleanItem(item, slotAnchor) ==
    CASE item.type = "custom" /\ item.days # Week ->
            [type |-> "custom", days |-> item.days, anchor |-> NONE]
      [] item.type = "alternate" ->
            [type |-> "alternate", days |-> NONE,
             anchor |-> IF item.anchor = NONE THEN slotAnchor ELSE item.anchor]
      [] OTHER -> [type |-> "daily", days |-> NONE, anchor |-> NONE]

ValidOrder(o) == \A p \in Product : o.items[p] # NONE => ValidItem(o.items[p])

(* The row written for an order: days count for a custom slot only, the    *)
(* start date for an alternate one; the anchor is the writing day else.    *)
StoredOrder(o, day) ==
    LET anchor == IF o.type = "alternate" /\ o.anchor # NONE THEN o.anchor ELSE day
    IN  [type |-> o.type, days |-> IF o.type = "custom" THEN o.days ELSE Week,
         anchor |-> anchor, qty |-> o.qty,
         items |-> [p \in Product |-> IF o.items[p] = NONE THEN NONE
                                      ELSE CleanItem(o.items[p], anchor)]]
=============================================================================

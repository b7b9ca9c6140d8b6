------------------------------ MODULE MCOrders ------------------------------
(* One customer's orders.  The standing order has milk every second day    *)
(* from day 2, and butter on Mondays, day 1, only.                         *)
EXTENDS Orders, TLC

Each(milk, butter) == [p \in Product |-> IF p = "milk" THEN milk ELSE butter]

MondayButter == [type |-> "custom", days |-> {1}, anchor |-> NONE]

MilkAndButter ==
    [type |-> "alternate", days |-> Week, anchor |-> 2,
     qty |-> Each(1, 1), items |-> Each(NONE, MondayButter)]

MCOrder  == {MilkAndButter}
MCItems  == {Each(0, 0)}
MCCutoff == [s \in Slot |-> IF s = "morning" THEN {3} ELSE {15, 18}]
=============================================================================

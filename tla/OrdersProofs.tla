---------------------------- MODULE OrdersProofs ----------------------------
(***************************************************************************)
(* What holds of orders for any products, orders, cutoffs, links and       *)
(* failures: the two forms of the schedule agree, and every row, form and  *)
(* sweep keeps its shape.                                                  *)
(***************************************************************************)
EXTENDS Orders, WellFoundedInduction, TLAPS

(* The least element of a set of numbers. *)
LEMMA MinNat ==
    ASSUME NEW S \in SUBSET Nat, S # {}
    PROVE  Min(S) \in S /\ \A n \in S : Min(S) <= n
<1> DEFINE R == OpToRel(<, Nat)
<1>1. PICK n \in S : \A m \in S : ~(<<m, n>> \in R)
  <2> HIDE DEF R
  <2>1. IsWellFoundedOn(R, Nat)
    BY NatLessThanWellFounded DEF R
  <2>2. QED
    BY <2>1, WFMin
<1>2. \A m \in Nat : m < n => <<m, n>> \in R
  BY DEF OpToRel
<1> HIDE DEF R
<1>3. ASSUME NEW m \in S
      PROVE  n <= m
  <2>1. <<m, n>> \notin R
    BY <1>1
  <2>2. m \in Nat /\ n \in Nat
    OBVIOUS
  <2>3. QED
    BY <1>2, <2>1, <2>2
<1>4. QED
  BY <1>3 DEF Min
-----------------------------------------------------------------------------
(* Schedules.                                                              *)

(* What the Go mirror finds due, SQL delivers. *)
LEMMA PromisedIsDue ==
    ASSUME NEW o, NEW d, dueOn(o, d)
    PROVE  AnyItemDue(o, d)
<1>1. ASSUME NEW p \in Product, itemDueOn(o, p, d)
      PROVE  ItemDue(o, p, d)
  BY <1>1 DEF itemDueOn, slotDueOn, EverySecondDay, ItemDue, item_due_on
<1>2. QED
  BY <1>1 DEF dueOn, AnyItemDue

(* From the start days on the two forms of the rule agree, product by      *)
(* product, if a product's own weekdays are given, as validation ensures   *)
(* (item_due_on; Slot.itemDueOn). *)
THEOREM MirrorAgrees ==
    ASSUME NEW o \in StandingOrder, NEW p \in Product, NEW d \in Int, d >= o.anchor,
           o.items[p] # NONE =>
              /\ o.items[p].anchor # NONE => d >= o.items[p].anchor
              /\ o.items[p].type = "custom" => o.items[p].days # NONE
    PROVE  itemDueOn(o, p, d) <=> ItemDue(o, p, d)
<1>1. CASE o.items[p] = NONE
  BY <1>1 DEF itemDueOn, slotDueOn, EverySecondDay, ItemDue, item_due_on, StandingOrder
<1>2. CASE o.items[p] # NONE
  BY <1>2 DEF itemDueOn, EverySecondDay, ItemDue, item_due_on, StandingOrder, ItemSchedule
<1>3. QED
  BY <1>1, <1>2

LEMMA CleanItemTyped ==
    ASSUME NEW item \in ItemSchedule, ValidItem(item), NEW a \in Int
    PROVE  CleanItem(item, a) \in ItemSchedule
BY DEF CleanItem, ItemSchedule, ValidItem, ScheduleType

LEMMA SentItems ==
    ASSUME NEW o \in Order, NEW p \in Product, o.items[p] # NONE
    PROVE  o.items[p] \in ItemSchedule /\ ValidItem(o.items[p])
BY OrderAssumption DEF SentOrder, ValidOrder

LEMMA StoredOrderTyped ==
    ASSUME NEW o \in Order, NEW d \in Int
    PROVE  StoredOrder(o, d) \in StandingOrder
<1> DEFINE anchor == IF o.type = "alternate" /\ o.anchor # NONE THEN o.anchor ELSE d
           items  == [p \in Product |-> IF o.items[p] = NONE THEN NONE
                                        ELSE CleanItem(o.items[p], anchor)]
<1>1. o \in SentOrder
  BY OrderAssumption
<1>2. anchor \in Int
  BY <1>1 DEF SentOrder
<1>3. items \in [Product -> ItemSchedule \cup {NONE}]
  BY <1>2, SentItems, CleanItemTyped
<1>4. QED
  BY <1>1, <1>2, <1>3 DEF StoredOrder, SentOrder, StandingOrder, Week

LEMMA EditedOrderTyped ==
    ASSUME TypeOK, NEW s \in Slot, NEW o \in Order
    PROVE  EditedOrder(s, o) \in StandingOrder
<1> DEFINE anchor == IF o.anchor = NONE THEN day ELSE o.anchor
           kept   == Subscribed(s) /\ \A p \in Product : o.items[p] = NONE
           items  == IF kept THEN sub[s].order.items
                     ELSE [p \in Product |-> IF o.items[p] = NONE THEN NONE
                                             ELSE CleanItem(o.items[p], anchor)]
<1>1. o \in SentOrder
  BY OrderAssumption
<1>2. anchor \in Int
  BY <1>1 DEF SentOrder, TypeOK, TablesTypeOK, Day
<1>3. items \in [Product -> ItemSchedule \cup {NONE}]
  <2>1. CASE kept
    BY <2>1 DEF Subscribed, TypeOK, TablesTypeOK, SubscriptionRow, StandingOrder
  <2>2. CASE ~kept
    BY <2>2, <1>2, SentItems, CleanItemTyped
  <2>3. QED
    BY <2>1, <2>2
<1>4. QED
  BY <1>1, <1>2, <1>3 DEF EditedOrder, SentOrder, StandingOrder, Week

-----------------------------------------------------------------------------
(* Types.                                                                  *)

LEMMA TypeInit == Init => TypeOK
<1> SUFFICES ASSUME Init
             PROVE  TypeOK
  OBVIOUS
<1>1. \A s \in Slot : cutoff[s] \in Cutoff[s]
  BY CutoffAssumption, MinNat DEF Init, TablesInit
<1>2. sub \in [Slot -> SubscriptionRow \cup {NONE}]
  <2>1. 0 \in Int
    OBVIOUS
  <2>2. \A o \in Order : Subscription(StoredOrder(o, 0), FALSE, NONE) \in SubscriptionRow
    BY <2>1, StoredOrderTyped DEF Subscription, SubscriptionRow, Origin
  <2>3. QED
    BY <2>2 DEF Init, TablesInit
<1>3. TablesTypeOK
  <2>1. day \in Day /\ hour \in Hour /\ incidents \in 0..LastIncident
    BY OrderAssumption DEF Init, TablesInit, Day
  <2>2. /\ DOMAIN cutoff = Slot
        /\ override \in [Slot -> [Day -> Items \cup {NONE}]]
        /\ change \in [Change -> ChangeRow \cup {NONE}] /\ \A k \in Change : change[k] = NONE
        /\ locked \in [Slot -> BOOLEAN]
        /\ plan \in [Slot -> PlanRow \cup {NONE}]
    BY DEF Init, TablesInit, NoOverrides
  <2>3. status \in Status /\ failed \in BOOLEAN
    BY DEF Init, TablesInit, Status
  <2>4. QED
    BY <1>1, <1>2, <2>1, <2>2, <2>3 DEF TablesTypeOK
<1>4. FormsTypeOK
  BY DEF Init, FormsInit, FormsTypeOK, LinkRow
<1>5. QED
  BY <1>3, <1>4 DEF Init, SweepInit, TypeOK, SweepState

(* The row an upsert writes. *)
LEMMA UpsertedTyped ==
    ASSUME TypeOK, NEW s \in Slot, NEW o \in StandingOrder, NEW k \in Origin
    PROVE  /\ Upserted(s, o, k) \in [Slot -> SubscriptionRow \cup {NONE}]
           /\ Upserted(s, o, k)[s] \in SubscriptionRow
           /\ \A t \in Slot : t # s => Upserted(s, o, k)[t] = sub[t]
<1>1. Subscription(o, Subscribed(s) /\ sub[s].routed, k) \in SubscriptionRow
  <2>1. CASE Subscribed(s)
    BY <2>1 DEF Subscribed, Subscription, SubscriptionRow, TypeOK, TablesTypeOK
  <2>2. CASE ~Subscribed(s)
    BY <2>2 DEF Subscription, SubscriptionRow
  <2>3. QED
    BY <2>1, <2>2
<1>2. QED
  BY <1>1 DEF Upserted, TypeOK, TablesTypeOK

LEMMA RoutedTyped ==
    ASSUME NEW row \in SubscriptionRow, NEW b \in BOOLEAN
    PROVE  /\ [row EXCEPT !.routed = @ \/ b] \in SubscriptionRow
           /\ [row EXCEPT !.routed = @ \/ b].from = row.from
BY DEF SubscriptionRow

LEMMA LinksTyped ==
    ASSUME TypeOK, NEW t \in Link,
           \/ GenerateToken(t)
           \/ \E s \in Slot :
                 \/ \E o \in Order : SubmitRegistration(t, s, o) \/ SubmitUpdate(t, s, o)
                 \/ \E d \in Day, q \in Items \cup {NONE} : SubmitOverride(t, s, d, q)
    PROVE  TablesTypeOK' /\ FormsTypeOK'
<1>1. TablesTypeOK'
  <2>1. UNCHANGED <<clockVars, cutoff, orderVars, change, roundVars, failed, incidents>>
    BY DEF GenerateToken, SubmitRegistration, SubmitUpdate, SubmitOverride, Sent
  <2>2. QED
    BY <2>1 DEF clockVars, orderVars, roundVars, TypeOK, TablesTypeOK
<1>2. CASE GenerateToken(t)
  <2>1. PagesFor(status) \subseteq Page
    BY DEF PagesFor, Page
  <2>2. form' = form /\ \E page \in Page : link' = [link EXCEPT ![t].page = page]
    BY <1>2, <2>1 DEF GenerateToken
  <2>3. QED
    BY <1>1, <2>2 DEF LinkRow, TypeOK, FormsTypeOK
<1>3. ASSUME NEW s \in Slot, NEW o \in Order, SubmitRegistration(t, s, o) \/ SubmitUpdate(t, s, o)
      PROVE  FormsTypeOK'
  <2>1. /\ form' = [link |-> t, page |-> link[t].page, slot |-> s, order |-> o,
                    date |-> NONE, items |-> NONE, cutoff |-> NONE, old |-> FALSE]
        /\ link[t].page \in {"register", "update"}
        /\ link' = link
    BY <1>3 DEF SubmitRegistration, SubmitUpdate, Opens, Sent
  <2>2. o # NONE
    BY OrderAssumption
  <2>3. QED
    BY <2>1, <2>2 DEF FormRow, Page, TypeOK, FormsTypeOK
<1>4. ASSUME NEW s \in Slot, NEW d \in Day, NEW q \in Items \cup {NONE}, SubmitOverride(t, s, d, q)
      PROVE  FormsTypeOK'
  <2>1. cutoff[s] \in Nat /\ d \in Int /\ NONE \notin Int
    BY CutoffAssumption, OrderAssumption DEF TypeOK, TablesTypeOK, Day
  <2>2. QED
    BY <1>4, <2>1 DEF SubmitOverride, Opens, Sent, FormRow, Page, TypeOK, FormsTypeOK
<1>5. FormsTypeOK'
  <2>1. CASE \E s \in Slot, o \in Order : SubmitRegistration(t, s, o) \/ SubmitUpdate(t, s, o)
    BY <1>3, <2>1
  <2>2. CASE \E s \in Slot, d \in Day, q \in Items \cup {NONE} : SubmitOverride(t, s, d, q)
    BY <1>4, <2>2
  <2>3. QED
    BY <1>2, <2>1, <2>2
<1>6. QED
  BY <1>1, <1>5

LEMMA MarkUsedTyped ==
    ASSUME TypeOK, form # NONE, MarkUsed
    PROVE  link' \in [Link -> LinkRow] /\ incidents' \in 0..LastIncident
<1>1. link' \in [Link -> LinkRow]
  <2>1. form.link \in Link /\ link \in [Link -> LinkRow]
    BY DEF FormRow, TypeOK, FormsTypeOK
  <2>2. [page |-> "used", old |-> FALSE] \in LinkRow
    BY DEF LinkRow
  <2>3. QED
    BY <2>1, <2>2 DEF MarkUsed
<1>2. incidents' \in 0..LastIncident
  BY OrderAssumption DEF MarkUsed, Incident, TypeOK, TablesTypeOK
<1>3. QED
  BY <1>1, <1>2

LEMMA FormsTyped ==
    ASSUME TypeOK, Register \/ WriteOverride \/ StageChange \/ Abandon
    PROVE  TablesTypeOK' /\ FormsTypeOK'
<1>1. form \in FormRow
  BY DEF Register, WriteOverride, StageChange, Abandon, IsForm, TypeOK, FormsTypeOK
<1>2. CASE Register
  <2>1. form.order \in Order /\ form.slot \in Slot /\ day \in Int
    BY <1>1, <1>2 DEF Register, IsForm, FormRow, TypeOK, TablesTypeOK, FormsTypeOK, Day
  <2>2. sub' \in [Slot -> SubscriptionRow \cup {NONE}]
    BY <1>2, <2>1, StoredOrderTyped, UpsertedTyped DEF Register, Origin
  <2>3. link' \in [Link -> LinkRow] /\ incidents' \in 0..LastIncident
    BY <1>2, MarkUsedTyped DEF Register, IsForm
  <2>4. QED
    BY <1>2, <2>2, <2>3 DEF Register, clockVars, roundVars, Status, TypeOK, TablesTypeOK, FormsTypeOK
<1>3. CASE WriteOverride
  <2>1. form.slot \in Slot /\ form.date \in Day /\ form.items \in Items \cup {NONE}
    BY <1>1, <1>3 DEF WriteOverride, IsForm, FormRow, TypeOK, FormsTypeOK
  <2>2. override' \in [Slot -> [Day -> Items \cup {NONE}]]
    BY <1>3, <2>1 DEF WriteOverride, TypeOK, TablesTypeOK
  <2>3. link' \in [Link -> LinkRow] /\ incidents' \in 0..LastIncident
    BY <1>3, MarkUsedTyped DEF WriteOverride, IsForm
  <2>4. QED
    BY <1>3, <2>2, <2>3 DEF WriteOverride, clockVars, roundVars, TypeOK, TablesTypeOK, FormsTypeOK
<1>4. CASE StageChange
  <2>1. CASE \E k \in Change : IsChange(k, "PENDING")
    BY <1>4, <2>1 DEF StageChange, clockVars, orderVars, roundVars, TypeOK, TablesTypeOK, FormsTypeOK
  <2>2. CASE ~\E k \in Change : IsChange(k, "PENDING")
    <3>1. StagedChange(form.slot, form.order) \in ChangeRow
      BY <1>1, <1>4 DEF StageChange, IsForm, FormRow, StagedChange, ChangeRow, ReviewStatus,
         TypeOK, FormsTypeOK
    <3>2. Min(FreeChange) \in Change
      BY <1>4, <2>2, MinNat DEF StageChange, FreeChange, Change
    <3>3. /\ change' = [change EXCEPT ![Min(FreeChange)] = StagedChange(form.slot, form.order)]
          /\ form' = NONE
          /\ UNCHANGED <<clockVars, cutoff, orderVars, roundVars, failed>>
      BY <1>4, <2>2 DEF StageChange
    <3>4. link' \in [Link -> LinkRow] /\ incidents' \in 0..LastIncident
      BY <1>4, <2>2, MarkUsedTyped DEF StageChange, IsForm
    <3>5. QED
      BY <3>1, <3>2, <3>3, <3>4 DEF StagedChange, clockVars, orderVars, roundVars, TypeOK,
         TablesTypeOK, FormsTypeOK
  <2>3. QED
    BY <2>1, <2>2
<1>5. CASE Abandon
  BY <1>5 DEF Abandon, clockVars, orderVars, roundVars, TypeOK, TablesTypeOK, FormsTypeOK
<1>6. QED
  BY <1>2, <1>3, <1>4, <1>5

(* A sweep holds approved changes whose day has come, and nothing else. *)
BatchDue == \A k \in sweep.batch : Due(k)

(* Moving one change on. *)
LEMMA StatusTyped ==
    ASSUME TypeOK, NEW k \in Change, change[k] # NONE, NEW st \in ReviewStatus,
           change' = [change EXCEPT ![k].status = st],
           change[k].status \in {"PENDING", "APPROVED"},
           st = IF change[k].status = "APPROVED" THEN "APPLIED" ELSE "REJECTED"
    PROVE  /\ change' \in [Change -> ChangeRow \cup {NONE}]
           /\ \A j \in Change : change'[j] # NONE =>
                 (change'[j].status \in {"APPROVED", "APPLIED"} <=> change'[j].effective # NONE)
<1>1. change[k] \in ChangeRow
  BY DEF TypeOK, TablesTypeOK
<1>2. /\ [change[k] EXCEPT !.status = st] \in ChangeRow
      /\ [change[k] EXCEPT !.status = st].effective = change[k].effective
      /\ [change[k] EXCEPT !.status = st].status = st
  BY <1>1 DEF ChangeRow
<1>3. /\ change'[k] = [change[k] EXCEPT !.status = st]
      /\ \A j \in Change \ {k} : change'[j] = change[j]
      /\ DOMAIN change' = Change
  BY DEF TypeOK, TablesTypeOK
<1>4. change' = [j \in Change |-> change'[j]]
  BY DEF TypeOK, TablesTypeOK
<1>5. change' \in [Change -> ChangeRow \cup {NONE}]
  BY <1>2, <1>3, <1>4 DEF TypeOK, TablesTypeOK
<1>6. change[k].status \in {"APPROVED", "APPLIED"} <=> change[k].effective # NONE
  BY DEF TypeOK, TablesTypeOK
<1>7. QED
  BY <1>2, <1>3, <1>5, <1>6 DEF ChangeRow, ReviewStatus, TypeOK, TablesTypeOK

LEMMA SlotsTyped ==
    ASSUME TypeOK, NEW k \in Change, change[k] # NONE
    PROVE  /\ SlotsAfter(k) \in [Slot -> SubscriptionRow \cup {NONE}]
           /\ OverridesAfter(k) \in [Slot -> [Day -> Items \cup {NONE}]]
           /\ \A t \in Slot : SlotsAfter(k)[t] # NONE => SlotsAfter(k)[t].from = k
<1> DEFINE s   == change[k].slot
           row == Upserted(s, StoredOrder(change[k].order, day), k)[s]
<1>1. s \in Slot /\ change[k].order \in Order /\ change[k].assigned \in BOOLEAN /\ day \in Int
  BY DEF ChangeRow, TypeOK, TablesTypeOK, Day
<1>2. row \in SubscriptionRow
  BY <1>1, StoredOrderTyped, UpsertedTyped DEF Origin
<1>3. row.from = k
  BY <1>1 DEF Upserted, Subscription, TypeOK, TablesTypeOK
<1>4. /\ [row EXCEPT !.routed = @ \/ change[k].assigned] \in SubscriptionRow
      /\ [row EXCEPT !.routed = @ \/ change[k].assigned].from = k
  BY <1>1, <1>2, <1>3, RoutedTyped
<1>5. SlotsAfter(k) = [t \in Slot |-> IF t # s THEN NONE
                                     ELSE [row EXCEPT !.routed = @ \/ change[k].assigned]]
  BY DEF SlotsAfter
<1>6. OverridesAfter(k) \in [Slot -> [Day -> Items \cup {NONE}]]
  BY DEF OverridesAfter, TypeOK, TablesTypeOK
<1> HIDE DEF row
<1>7. QED
  BY <1>4, <1>5, <1>6

LEMMA ReviewTyped ==
    ASSUME TypeOK, BatchDue, NEW k \in Change, ChangeStep(k)
    PROVE  TablesTypeOK' /\ sweep' \in SweepState /\ BatchDue'
<1>0. \A j \in Change : change[j] # NONE => change[j] \in ChangeRow
  BY DEF TypeOK, TablesTypeOK
<1>1. ASSUME NEW assigned \in BOOLEAN, ApprovePendingChange(k, assigned)
      PROVE  TablesTypeOK' /\ sweep' \in SweepState /\ BatchDue'
  <2>1. change[k] \in ChangeRow /\ day \in Day /\ day + 1 \in Nat /\ NONE \notin Int
    BY <1>1, OrderAssumption DEF ApprovePendingChange, IsChange, TypeOK, TablesTypeOK, Day
  <2>2. [change[k] EXCEPT !.status = "APPROVED", !.assigned = assigned, !.approvedOn = day,
                          !.effective = day + 1] \in ChangeRow
    BY <2>1 DEF ChangeRow, ReviewStatus
  <2>3. change'[k].effective # NONE /\ change'[k].status = "APPROVED"
    BY <1>1, <2>1 DEF ApprovePendingChange, ChangeRow, TypeOK, TablesTypeOK
  <2>4. change' \in [Change -> ChangeRow \cup {NONE}]
        /\ \A j \in Change \ {k} : change'[j] = change[j]
    BY <1>1, <2>2 DEF ApprovePendingChange, TypeOK, TablesTypeOK
  <2>5. UNCHANGED <<clockVars, cutoff, orderVars, roundVars, failed, incidents, sweep>>
    BY <1>1 DEF ApprovePendingChange
  <2>6. k \notin sweep.batch
    BY <1>1 DEF ApprovePendingChange, BatchDue, Due, IsChange
  <2>7. BatchDue'
    BY <2>4, <2>5, <2>6 DEF BatchDue, Due, IsChange, clockVars, TypeOK, SweepState
  <2>8. QED
    BY <2>3, <2>4, <2>5, <2>7 DEF clockVars, orderVars, roundVars, TypeOK, TablesTypeOK
<1>2. CASE RejectPendingChange(k)
  <2>1. UNCHANGED <<clockVars, cutoff, orderVars, roundVars, failed, incidents, sweep>>
    BY <1>2 DEF RejectPendingChange
  <2>2. /\ change' = [change EXCEPT ![k].status = "REJECTED"]
        /\ change[k] # NONE /\ change[k].status = "PENDING" /\ "REJECTED" \in ReviewStatus
    BY <1>2 DEF RejectPendingChange, IsChange, ReviewStatus
  <2>3. TablesTypeOK'
    BY <2>1, <2>2, StatusTyped DEF clockVars, orderVars, roundVars, TypeOK, TablesTypeOK
  <2>4. BatchDue'
    <3>1. \A j \in Change \ {k} : change'[j] = change[j]
      BY <2>2 DEF TypeOK, TablesTypeOK
    <3>2. k \notin sweep.batch
      BY <2>2 DEF BatchDue, Due, IsChange
    <3>3. QED
      BY <2>1, <3>1, <3>2 DEF BatchDue, Due, IsChange, clockVars, TypeOK, SweepState
  <2>5. QED
    BY <2>1, <2>3, <2>4 DEF TypeOK
<1>3. CASE applyOneChange(k)
  <2>1. UNCHANGED <<clockVars, cutoff, status, roundVars, failed, incidents>>
    BY <1>3 DEF applyOneChange
  <2>2. /\ change' = [change EXCEPT ![k].status = "APPLIED"]
        /\ change[k] # NONE /\ change[k].status = "APPROVED" /\ "APPLIED" \in ReviewStatus
        /\ sub' = SlotsAfter(k) /\ override' = OverridesAfter(k)
        /\ sweep' = [sweep EXCEPT !.batch = @ \ {k}]
    BY <1>3 DEF applyOneChange, BatchDue, Due, IsChange, ReviewStatus, Without
  <2>3. TablesTypeOK'
    BY <2>1, <2>2, StatusTyped, SlotsTyped DEF clockVars, roundVars, TypeOK, TablesTypeOK
  <2>4. sweep' \in SweepState /\ sweep'.batch = sweep.batch \ {k}
    BY <2>2 DEF TypeOK, SweepState
  <2>5. BatchDue'
    <3>1. \A j \in Change \ {k} : change'[j] = change[j]
      BY <2>2 DEF TypeOK, TablesTypeOK
    <3>2. QED
      BY <2>1, <2>4, <3>1 DEF BatchDue, Due, IsChange, clockVars, TypeOK, SweepState
  <2>6. QED
    BY <2>3, <2>4, <2>5
<1>4. CASE ApplyFails(k)
  <2>1. sweep' \in SweepState /\ sweep'.batch = sweep.batch \ {k}
    BY <1>4 DEF ApplyFails, Without, TypeOK, SweepState
  <2>2. UNCHANGED <<clockVars, cutoff, orderVars, change, roundVars, incidents>> /\ failed' = TRUE
    BY <1>4 DEF ApplyFails
  <2>3. QED
    BY <2>1, <2>2 DEF BatchDue, Due, IsChange, clockVars, orderVars, roundVars, TypeOK, TablesTypeOK
<1>5. QED
  BY <1>1, <1>2, <1>3, <1>4 DEF ChangeStep

(* The date a message names is one the mirror finds due, of a routed       *)
(* order, and today only before the hour it assumes. *)
LEMMA NextOfDue ==
    ASSUME TypeOK, NEW s \in Slot, NextOf(s) # NONE
    PROVE  /\ NextOf(s) \in Nat /\ NextOf(s) >= day
           /\ NextOf(s) = day => hour < cutoffHour(s)
           /\ Subscribed(s) /\ sub[s].routed /\ dueOn(sub[s].order, NextOf(s))
<1> DEFINE start == IF hour >= cutoffHour(s) THEN day + 1 ELSE day
           due   == {d \in start .. day + searchHorizon : dueOn(sub[s].order, d)}
<1>1. Subscribed(s) /\ sub[s].routed /\ due # {} /\ NextOf(s) = Min(due)
  BY DEF NextOf, NextDelivery
<1>2. day \in Nat /\ hour \in Nat /\ cutoffHour(s) \in Nat
  BY OrderAssumption DEF TypeOK, TablesTypeOK, Day, cutoffHour
<1>3. /\ due \in SUBSET Nat
      /\ \A d \in due : /\ d >= day /\ dueOn(sub[s].order, d)
                        /\ d = day => hour < cutoffHour(s)
  BY <1>2 DEF searchHorizon
<1>4. Min(due) \in due
  BY <1>1, <1>3, MinNat
<1> HIDE DEF due
<1>5. QED
  BY <1>1, <1>2, <1>3, <1>4

LEMMA FirstDeliveryDue ==
    ASSUME TypeOK, FirstDelivery # NONE
    PROVE  /\ FirstDelivery \in [day : Nat, slot : Slot]
           /\ NextOf(FirstDelivery.slot) = FirstDelivery.day
           /\ NextOf(FirstDelivery.slot) # NONE
<1> DEFINE dates == {NextOf(s) : s \in Slot} \ {NONE}
           slot  == IF NextOf("evening") = Min(dates) THEN "evening" ELSE "morning"
<1>1. dates # {} /\ FirstDelivery = [day |-> Min(dates), slot |-> slot]
  BY DEF FirstDelivery
<1>2. dates \in SUBSET Nat
  BY NextOfDue
<1>3. Min(dates) \in dates
  BY <1>1, <1>2, MinNat
<1>4. NextOf("evening") = Min(dates) \/ NextOf("morning") = Min(dates)
  BY <1>3 DEF Slot
<1>5. Min(dates) \in Nat /\ Min(dates) # NONE
  BY <1>2, <1>3
<1> HIDE DEF dates
<1>6. slot \in Slot /\ NextOf(slot) = Min(dates)
  BY <1>4 DEF Slot
<1> HIDE DEF slot
<1>7. QED
  BY <1>1, <1>5, <1>6

(* The admin, the account and the lock. *)
LEMMA DeskTyped ==
    ASSUME TypeOK,
           \/ AdminStep \/ handleDisableAccount \/ handleReactivateAccount
           \/ \E s \in Slot : LockManifest(s)
    PROVE  /\ TablesTypeOK'
           /\ notifying' \in BOOLEAN
           /\ UNCHANGED <<clockVars, change, formVars, sweep>>
<1>1. ASSUME NEW slots \in SUBSET Slot, Approve(slots)
      PROVE  TablesTypeOK' /\ notifying' \in BOOLEAN
  <2>1. sub' \in [Slot -> SubscriptionRow \cup {NONE}]
    <3>1. \A s \in slots : sub[s] \in SubscriptionRow
      BY <1>1 DEF Approve, Subscribed, TypeOK, TablesTypeOK
    <3>2. \A s \in slots : [sub[s] EXCEPT !.routed = TRUE] \in SubscriptionRow
      BY <3>1 DEF SubscriptionRow
    <3>3. QED
      BY <1>1, <3>2 DEF Approve, TypeOK, TablesTypeOK
  <2>2. incidents' \in 0..LastIncident
    BY <1>1, OrderAssumption DEF Approve, Incident, TypeOK, TablesTypeOK
  <2>3. QED
    BY <1>1, <2>1, <2>2 DEF Approve, clockVars, roundVars, Status, TypeOK, TablesTypeOK
<1>2. CASE Reject \/ handleDisableAccount \/ handleReactivateAccount
  <2>1. incidents' \in 0..LastIncident /\ status' \in Status
    BY <1>2, OrderAssumption DEF Reject, handleDisableAccount, handleReactivateAccount, SetStatus,
       Incident, Status, TypeOK, TablesTypeOK
  <2>2. UNCHANGED <<clockVars, cutoff, sub, override, change, roundVars, failed, others>>
    BY <1>2 DEF Reject, handleDisableAccount, handleReactivateAccount, SetStatus
  <2>3. QED
    BY <2>1, <2>2 DEF clockVars, roundVars, others, TypeOK, TablesTypeOK
<1>3. ASSUME NEW s \in Slot, NEW o \in Order, NEW routing \in BOOLEAN, CreateOrUpdate(s, o, routing)
      PROVE  TablesTypeOK' /\ notifying' \in BOOLEAN
  <2> DEFINE row == Upserted(s, EditedOrder(s, o), NONE)[s]
  <2>1. row \in SubscriptionRow
    BY EditedOrderTyped, UpsertedTyped DEF Origin
  <2>2. sub' = [sub EXCEPT ![s] = [row EXCEPT !.routed = @ \/ routing]]
    BY <1>3 DEF CreateOrUpdate
  <2> HIDE DEF row
  <2>3. sub' \in [Slot -> SubscriptionRow \cup {NONE}]
    BY <2>1, <2>2, RoutedTyped DEF TypeOK, TablesTypeOK
  <2>4. incidents' \in 0..LastIncident
    BY <1>3, OrderAssumption DEF CreateOrUpdate, Incident, TypeOK, TablesTypeOK
  <2>5. UNCHANGED <<clockVars, cutoff, status, override, change, roundVars, failed, others>>
    BY <1>3 DEF CreateOrUpdate
  <2>6. QED
    BY <2>3, <2>4, <2>5 DEF clockVars, roundVars, others, TypeOK, TablesTypeOK
<1>4. ASSUME NEW s \in Slot, NEW c \in Cutoff[s], UpdateConfig(s, c)
      PROVE  TablesTypeOK' /\ notifying' \in BOOLEAN
  <2>1. incidents' \in 0..LastIncident
    BY <1>4, OrderAssumption DEF UpdateConfig, Incident, TypeOK, TablesTypeOK
  <2>2. QED
    BY <1>4, <2>1 DEF UpdateConfig, clockVars, orderVars, roundVars, others, TypeOK, TablesTypeOK
<1>5. ASSUME NEW s \in Slot, LockManifest(s)
      PROVE  TablesTypeOK' /\ notifying' \in BOOLEAN
  <2>1. PlanNow(s) \in PlanRow \cup {NONE}
    <3>1. ASSUME OnRound(s)
          PROVE  PlannedOrder(sub[s].order, override[s][day], day) \in [Product -> Nat]
      <4>1. sub[s] \in SubscriptionRow /\ override[s][day] \in Items \cup {NONE}
        BY <3>1 DEF OnRound, Subscribed, TypeOK, TablesTypeOK
      <4>2. \A p \in Product : ScheduledQty(sub[s].order, override[s][day], p, day) \in Nat
        BY <4>1, OrderAssumption DEF ScheduledQty, SubscriptionRow, StandingOrder
      <4>3. QED
        BY <4>2 DEF PlannedOrder
    <3>2. OnRound(s) => sub[s].from \in Origin
      BY DEF OnRound, Subscribed, SubscriptionRow, TypeOK, TablesTypeOK
    <3>3. QED
      BY <3>1, <3>2 DEF PlanNow, PlanRow
  <2>2. QED
    BY <1>5, <2>1 DEF LockManifest, clockVars, orderVars, others, TypeOK, TablesTypeOK
<1>6. UNCHANGED <<clockVars, change, formVars, sweep>>
  BY DEF AdminStep, Approve, Reject, CreateOrUpdate, UpdateConfig, handleDisableAccount,
     handleReactivateAccount, SetStatus, LockManifest, others
<1>7. QED
  BY <1>1, <1>2, <1>3, <1>4, <1>5, <1>6 DEF AdminStep

(* The clock, restarts and the sweep's SELECT. *)
LEMMA ClockTyped ==
    ASSUME TypeOK, BatchDue, SelectDue \/ Tick \/ Crash
    PROVE  /\ TablesTypeOK' /\ FormsTypeOK' /\ sweep' \in SweepState /\ BatchDue'
<1>1. CASE SelectDue
  BY <1>1 DEF SelectDue, BatchDue, Due, IsChange, clockVars, orderVars, roundVars, formVars,
     SweepState, TypeOK, TablesTypeOK, FormsTypeOK
<1>2. CASE Crash
  BY <1>2 DEF Crash, BatchDue, clockVars, orderVars, roundVars, SweepState, TypeOK,
     TablesTypeOK, FormsTypeOK
<1>3. CASE Tick
  <2>1. /\ day' \in Day /\ hour' \in Hour /\ day' >= day
        /\ override' \in [Slot -> [Day -> Items \cup {NONE}]]
        /\ locked' \in [Slot -> BOOLEAN] /\ plan' \in [Slot -> PlanRow \cup {NONE}]
    <3>1. CASE LaterHours # {}
      <4>1. Min(LaterHours) \in Hour
        BY <3>1, MinNat, OrderAssumption DEF LaterHours
      <4>2. hour' = Min(LaterHours) /\ UNCHANGED <<day, override, locked, plan>>
        BY <1>3, <3>1 DEF Tick, roundVars
      <4>3. day \in Day /\ day <= day
        BY OrderAssumption DEF Day, TypeOK, TablesTypeOK
      <4>4. QED
        BY <4>1, <4>2, <4>3 DEF TypeOK, TablesTypeOK
    <3>2. CASE LaterHours = {}
      <4>1. /\ day < LastDay /\ day' = day + 1 /\ hour' = 0
            /\ override' = [s \in Slot |-> [override[s] EXCEPT ![day] = NONE]]
            /\ locked' = [s \in Slot |-> FALSE]
            /\ plan' = [s \in Slot |-> NONE]
        BY <1>3, <3>2 DEF Tick
      <4>2. /\ day' \in Day /\ hour' \in Hour /\ day' >= day
        BY <4>1, OrderAssumption DEF Day, TypeOK, TablesTypeOK
      <4>3. override' \in [Slot -> [Day -> Items \cup {NONE}]]
        BY <4>1 DEF TypeOK, TablesTypeOK
      <4>4. QED
        BY <4>1, <4>2, <4>3
    <3>3. QED
      BY <3>1, <3>2
  <2>2. failed' \in BOOLEAN /\ UNCHANGED <<cutoff, status, sub, change, incidents>>
    BY <1>3 DEF Tick, TypeOK, TablesTypeOK
  <2>3. TablesTypeOK'
    BY <2>1, <2>2 DEF TypeOK, TablesTypeOK
  <2>4. sweep' \in SweepState /\ sweep'.batch = sweep.batch
    BY <1>3 DEF Tick, TypeOK, SweepState
  <2>5. FormsTypeOK'
    <3>1. \A l \in LinkRow : Aged(l) \in LinkRow
      BY DEF Aged, LinkRow
    <3>2. form # NONE => form \in FormRow
      BY DEF TypeOK, FormsTypeOK
    <3>3. \/ form' = NONE
          \/ form # NONE /\ form' = [form EXCEPT !.old = TRUE]
      BY <1>3 DEF Tick, TimedOut
    <3>4. CASE form # NONE /\ form' = [form EXCEPT !.old = TRUE]
      <4>1. /\ form' \in FormRow /\ form'.page = form.page /\ form'.date = form.date
            /\ form'.cutoff = form.cutoff /\ form'.order = form.order
        BY <3>2, <3>4 DEF FormRow
      <4>2. QED
        BY <1>3, <3>1, <3>4, <4>1 DEF Tick, TypeOK, FormsTypeOK
    <3>5. CASE form' = NONE
      BY <1>3, <3>1, <3>5 DEF Tick, TypeOK, FormsTypeOK
    <3>6. QED
      BY <3>3, <3>4, <3>5
  <2>6. BatchDue'
    <3>1. \A k \in Change : change[k] # NONE => change[k].effective \in Nat \cup {NONE}
      BY DEF ChangeRow, TypeOK, TablesTypeOK
    <3>2. ASSUME NEW k \in sweep.batch
          PROVE  Due(k)'
      <4>1. k \in Change /\ Due(k)
        BY <3>2 DEF BatchDue, SweepState, TypeOK
      <4>2. change[k].effective \in Nat
        BY <3>1, <4>1 DEF Due, IsChange, TypeOK, TablesTypeOK
      <4>3. QED
        BY <2>1, <2>2, <4>1, <4>2 DEF Due, IsChange, Day, TypeOK, TablesTypeOK
    <3>3. QED
      BY <2>4, <3>2 DEF BatchDue
  <2>7. QED
    BY <2>3, <2>4, <2>5, <2>6
<1>4. QED
  BY <1>1, <1>2, <1>3

(* A form's step leaves approved changes alone: only a free row is taken. *)
LEMMA FormsKeepChanges ==
    ASSUME TypeOK, FormStep
    PROVE  /\ \A k \in Change : change[k] # NONE => change'[k] = change[k]
           /\ \A k \in Change : change'[k] = change[k] \/ IsChange(k, "PENDING")'
           /\ \A j, k \in Change : change'[j] # change[j] /\ change'[k] # change[k] => j = k
           /\ UNCHANGED <<clockVars, cutoff, roundVars, failed>>
<1>1. CASE StageChange
  <2>1. CASE \E k \in Change : IsChange(k, "PENDING")
    BY <1>1, <2>1 DEF StageChange
  <2>2. CASE ~\E k \in Change : IsChange(k, "PENDING")
    <3>1. Min(FreeChange) \in FreeChange
      BY <1>1, <2>2, MinNat DEF StageChange, FreeChange, Change
    <3>2. /\ change' = [change EXCEPT ![Min(FreeChange)] = StagedChange(form.slot, form.order)]
          /\ UNCHANGED <<clockVars, cutoff, roundVars, failed>>
      BY <1>1, <2>2 DEF StageChange
    <3>3. StagedChange(form.slot, form.order) \in ChangeRow
      BY <1>1 DEF StageChange, IsForm, FormRow, StagedChange, ChangeRow, ReviewStatus,
         TypeOK, FormsTypeOK
    <3>4. StagedChange(form.slot, form.order) # NONE
      BY <3>3, OrderAssumption
    <3>5. QED
      BY <3>1, <3>2, <3>4 DEF FreeChange, IsChange, StagedChange, TypeOK, TablesTypeOK
  <2>3. QED
    BY <2>1, <2>2
<1>2. CASE \/ \E t \in Link : LinkStep(t)
           \/ Register \/ WriteOverride \/ Abandon
  BY <1>2 DEF LinkStep, GenerateToken, SubmitRegistration, SubmitUpdate, SubmitOverride, Sent,
     Register, WriteOverride, Abandon
<1>3. QED
  BY <1>1, <1>2 DEF FormStep

LEMMA TypeStep == TypeOK /\ BatchDue /\ [Next]_vars => TypeOK' /\ BatchDue'
<1> SUFFICES ASSUME TypeOK, BatchDue, [Next]_vars
             PROVE  TypeOK' /\ BatchDue'
  OBVIOUS
<1>1. ASSUME UNCHANGED <<day, change, sweep>>
      PROVE  BatchDue'
  BY <1>1 DEF BatchDue, Due, IsChange
<1>2. CASE FormStep /\ UNCHANGED <<sweep, notifying>> /\ History
  <2>1. TablesTypeOK' /\ FormsTypeOK'
    BY <1>2, LinksTyped, FormsTyped DEF FormStep, LinkStep
  <2>2. BatchDue'
    BY <1>2, FormsKeepChanges DEF BatchDue, Due, IsChange, clockVars, SweepState, TypeOK
  <2>3. QED
    BY <1>2, <2>1, <2>2 DEF History, TypeOK
<1>3. CASE \E k \in Change : ChangeStep(k) /\ UNCHANGED notifying /\ History
  <2>1. PICK k \in Change : ChangeStep(k) /\ UNCHANGED notifying /\ History
    BY <1>3
  <2>2. UNCHANGED formVars
    BY <2>1 DEF ChangeStep, ApprovePendingChange, RejectPendingChange, applyOneChange, ApplyFails
  <2>3. QED
    BY <2>1, <2>2, ReviewTyped DEF History, formVars, TypeOK, FormsTypeOK
<1>4. CASE /\ \/ AdminStep \/ handleDisableAccount \/ handleReactivateAccount
              \/ \E s \in Slot : LockManifest(s)
           /\ History
  BY <1>1, <1>4, DeskTyped DEF History, clockVars, formVars, TypeOK, FormsTypeOK
<1>5. CASE /\ (SelectDue /\ UNCHANGED notifying) \/ Tick \/ Crash
           /\ History
  <2>1. notifying' \in BOOLEAN
    BY <1>5 DEF Tick, Crash, TypeOK
  <2>2. QED
    BY <1>5, <2>1, ClockTyped DEF History, TypeOK
<1>6. CASE notifyApproved
  <2>1. UNCHANGED <<clockVars, cutoff, orderVars, change, roundVars, failed, formVars, sweep, incidents>>
        /\ notifying' \in BOOLEAN /\ promise' \in {FirstDelivery, NONE}
    BY <1>6 DEF notifyApproved
  <2>2. promise' # NONE => promise' \in [day : Nat, slot : Slot]
    BY <2>1, FirstDeliveryDue
  <2>3. QED
    BY <1>1, <2>1, <2>2 DEF clockVars, orderVars, roundVars, formVars, TypeOK, TablesTypeOK,
       FormsTypeOK
<1>7. CASE UNCHANGED vars
  BY <1>1, <1>7 DEF vars, clockVars, orderVars, roundVars, formVars, TypeOK, TablesTypeOK,
     FormsTypeOK
<1>8. QED
  BY <1>2, <1>3, <1>4, <1>5, <1>6, <1>7 DEF Next

(* Rows, links, forms and the sweep keep their shape, and a sweep holds    *)
(* approved changes that have come due, for any orders, configuration and  *)
(* failures (applyDueChanges and every statement that writes a row). *)
THEOREM OrderTypeCorrect == Spec => [](TypeOK /\ BatchDue)
<1>1. Init => TypeOK /\ BatchDue
  BY TypeInit DEF Init, SweepInit, BatchDue
<1>2. QED
  BY <1>1, TypeStep, PTL DEF Spec
=============================================================================

------------------------------- MODULE Orders -------------------------------
(***************************************************************************)
(* One customer's orders from the pages to the locked rounds: the links    *)
(* and forms, the review of changes and the hourly sweep that applies      *)
(* them, the admin's approvals and edits, the configured cutoffs and the   *)
(* lock sweeper, under one clock.                                          *)
(***************************************************************************)
EXTENDS ChangeRequests

VARIABLES
    notifying,  \* Approve has committed and has not told the customer yet
    promise     \* history: the first delivery the customer was told of, while
                \*   order, overrides and account are as they were then

vars == <<clockVars, cutoff, orderVars, change, roundVars, failed, formVars,
          incidents, sweep, notifying, promise>>

others == <<formVars, sweep, notifying>>

Init ==
    /\ TablesInit
    /\ FormsInit
    /\ SweepInit
    /\ notifying = FALSE
    /\ promise = NONE

-----------------------------------------------------------------------------
(* The admin and the account.                                              *)

(* One transaction: route the slots, each of which must have an order, and *)
(* activate the customer, whatever the status was. *)
Approve(slots) ==
    /\ status # "ABSENT" /\ ~notifying
    /\ IF status = "pending" THEN UNCHANGED incidents ELSE Incident
    /\ slots # {} /\ \A s \in slots : Subscribed(s)
    /\ sub' = [s \in Slot |-> IF s \in slots THEN [sub[s] EXCEPT !.routed = TRUE] ELSE sub[s]]
    /\ status' = "active"
    /\ notifying' = TRUE
    /\ UNCHANGED <<clockVars, cutoff, override, change, roundVars, failed, formVars, sweep>>

NextOf(s) ==
    IF Subscribed(s) THEN NextDelivery(sub[s].order, sub[s].routed, s, day, hour) ELSE NONE

(* FirstDeliveryLabel: the earliest; on the same day the evening, whose    *)
(* row comes first in ORDER BY slot. *)
FirstDelivery ==
    LET dates == {NextOf(s) : s \in Slot} \ {NONE}
    IN  IF dates = {} THEN NONE
        ELSE [day |-> Min(dates),
              slot |-> IF NextOf("evening") = Min(dates) THEN "evening" ELSE "morning"]

(* After the commit, from the rows and the clock of that moment; if they   *)
(* cannot be read, the message names no day.  A customer who has paused in *)
(* between gets the message too, but it is no promise any more. *)
notifyApproved ==
    /\ notifying
    /\ notifying' = FALSE
    /\ promise' \in {IF status = "active" THEN FirstDelivery ELSE NONE, NONE}
    /\ UNCHANGED <<clockVars, cutoff, orderVars, change, roundVars, failed, formVars, sweep,
                   incidents>>

SetStatus(from, to) ==
    /\ status \in from
    /\ status' = to
    /\ UNCHANGED <<clockVars, cutoff, sub, override, change, roundVars, failed, others>>

(* PAUSE and RESUME on WhatsApp; a customer without an order cannot come   *)
(* back. *)
handleDisableAccount == Incident /\ SetStatus({"active"}, "disabled")

handleReactivateAccount ==
    /\ \E s \in Slot : Subscribed(s)
    /\ SetStatus({"disabled"}, "pending")
    /\ UNCHANGED incidents

Reject == Incident /\ SetStatus({"pending"}, "rejected")

(* The admin's editor.  What the request leaves out keeps its value         *)
(* (routing, the items' schedules) or gets a default (days, anchor). *)
EditedOrder(s, o) ==
    LET anchor == IF o.anchor = NONE THEN day ELSE o.anchor
        kept   == Subscribed(s) /\ \A p \in Product : o.items[p] = NONE
    IN  [type |-> o.type, days |-> IF o.days = {} THEN Week ELSE o.days, anchor |-> anchor,
         qty |-> o.qty,
         items |-> IF kept THEN sub[s].order.items
                   ELSE [p \in Product |-> IF o.items[p] = NONE THEN NONE
                                           ELSE CleanItem(o.items[p], anchor)]]

CreateOrUpdate(s, o, routing) ==
    /\ Incident
    /\ status # "ABSENT"
    /\ LET row == Upserted(s, EditedOrder(s, o), NONE)[s] IN
       sub' = [sub EXCEPT ![s] = [row EXCEPT !.routed = @ \/ routing]]
    /\ UNCHANGED <<clockVars, cutoff, status, override, change, roundVars, failed, others>>

UpdateConfig(s, c) ==
    /\ Incident
    /\ cutoff' = [cutoff EXCEPT ![s] = c]
    /\ UNCHANGED <<clockVars, orderVars, change, roundVars, failed, others>>

-----------------------------------------------------------------------------
(* The lock sweeper, every ten minutes: a round past its cutoff is claimed *)
(* and every stop that is due gets its plan.                               *)

OnRound(s) ==
    /\ status = "active" /\ Subscribed(s) /\ sub[s].routed
    /\ HasStop(sub[s].order, override[s][day], day)

PlanNow(s) ==
    IF OnRound(s)
    THEN [qty |-> PlannedOrder(sub[s].order, override[s][day], day), from |-> sub[s].from]
    ELSE NONE

LockManifest(s) ==
    /\ Passed(s)
    /\ ~locked[s]
    /\ locked' = [locked EXCEPT ![s] = TRUE]
    /\ plan' = [plan EXCEPT ![s] = PlanNow(s)]
    /\ UNCHANGED <<clockVars, cutoff, orderVars, change, failed, incidents, others>>

-----------------------------------------------------------------------------
(* Time.  Both sweepers run within every hour of the clock, so that before *)
(* it moves on they have, unless the process was down or they failed.      *)

OnTime ==
    /\ sweep.looked /\ sweep.batch = {}
    /\ \A s \in Slot : Passed(s) => locked[s]

LaterHours == {h \in Hour : h > hour}

(* A link or a form outlives one move of the clock at the most. *)
Aged(l) == IF l.page \notin Page THEN l
           ELSE IF l.old THEN [page |-> "expired", old |-> FALSE] ELSE [l EXCEPT !.old = TRUE]

TimedOut(f) == IF f = NONE \/ f.old THEN NONE ELSE [f EXCEPT !.old = TRUE]

Tick ==
    /\ OnTime \/ Fallible
    /\ IF LaterHours # {}
       THEN /\ hour' = Min(LaterHours)
            /\ UNCHANGED <<day, override, roundVars>>
       ELSE /\ day < LastDay /\ day' = day + 1 /\ hour' = 0
            /\ override' = [s \in Slot |-> [override[s] EXCEPT ![day] = NONE]]
            /\ locked' = [s \in Slot |-> FALSE]
            /\ plan' = [s \in Slot |-> NONE]
    /\ sweep' = [sweep EXCEPT !.looked = FALSE]
    /\ link' = [t \in Link |-> Aged(link[t])]
    /\ form' = TimedOut(form)
    /\ failed' = (failed \/ ~OnTime)
    /\ UNCHANGED <<cutoff, status, sub, change, incidents, notifying>>

Crash ==
    /\ Fallible
    /\ form' = NONE
    /\ sweep' = [batch |-> {}, looked |-> FALSE]
    /\ notifying' = FALSE
    /\ failed' = TRUE
    /\ UNCHANGED <<clockVars, cutoff, orderVars, change, roundVars, incidents, link>>

AdminStep ==
    \/ \E slots \in SUBSET Slot : Approve(slots)
    \/ Reject
    \/ \E s \in Slot :
          \/ \E o \in Order, routing \in BOOLEAN : CreateOrUpdate(s, o, routing)
          \/ \E c \in Cutoff[s] : UpdateConfig(s, c)

(* A promise stands for its day, until something it was made from changes. *)
History ==
    promise' = IF /\ promise # NONE /\ promise.day >= day'
                  /\ UNCHANGED orderVars \/ day' # day
               THEN promise ELSE NONE

Next ==
    \/ /\ \/ FormStep /\ UNCHANGED <<sweep, notifying>>
          \/ SelectDue /\ UNCHANGED notifying
          \/ \E k \in Change : ChangeStep(k) /\ UNCHANGED notifying
          \/ AdminStep
          \/ handleDisableAccount \/ handleReactivateAccount
          \/ \E s \in Slot : LockManifest(s)
          \/ Tick
          \/ Crash
       /\ History
    \/ notifyApproved

Spec == Init /\ [][Next]_vars

(* The sweepers tick and time passes; a failed transaction is tried again  *)
(* an hour later and fails for reasons that go away.                       *)
Fairness ==
    /\ WF_vars(Tick /\ History)
    /\ WF_vars(SelectDue /\ UNCHANGED notifying /\ History)
    /\ \A s \in Slot : WF_vars(LockManifest(s) /\ History)
    /\ \A k \in Change :
          SF_vars(applyOneChange(k) /\ UNCHANGED notifying /\ History)

FairSpec == Spec /\ Fairness

-----------------------------------------------------------------------------
(* Type invariant: rows, forms and the sweep have their shape; a change    *)
(* has an effective date if and only if it was approved, and a form what   *)
(* its page sends.                                                         *)
TypeOK ==
    /\ TablesTypeOK
    /\ FormsTypeOK
    /\ sweep \in SweepState
    /\ notifying \in BOOLEAN
    /\ promise # NONE => promise \in [day : Nat, slot : Slot]

(* The first delivery a customer is told of takes place: if nothing the    *)
(* date was worked out from has changed when that round is locked, the     *)
(* customer has a stop on it.  The date comes from the Go mirror and its   *)
(* approximate cutoffs, the round from SQL and the configured ones.  (The  *)
(* mirror knows no overrides: a date that has one is left out.)            *)
(* (notifyApproved, NextDelivery; item_due_on, LockManifest)               *)
PromiseKept ==
    /\ promise # NONE /\ promise.day = day
    /\ locked[promise.slot]
    /\ override[promise.slot][day] = NONE
    => plan[promise.slot] # NONE

(* "It will apply from tomorrow": no round is locked on the old order      *)
(* while an approved change has come due, unless something failed or the   *)
(* server was down. (ApprovePendingChange, applyDueChanges, LockManifest)  *)
ChangesReachTheRound ==
    (\E k \in Change : Due(k)) /\ (\E s \in Slot : locked[s]) => failed

(* What a customer submits and the admin approves today is on no plan of   *)
(* today: production was planned a day ahead, whatever failed.             *)
(* (ApprovePendingChange, applyOneChange, LockManifest)                    *)
PlannedADayAhead ==
    \A s \in Slot :
        plan[s] # NONE /\ plan[s].from # NONE => change[plan[s].from].approvedOn < day

(* Of two changes approved on different days the later one is in force,    *)
(* unless something failed.  (Two of the same day are applied in any       *)
(* order.) (applyDueChanges, applyOneChange)                               *)
NewestApprovalIsLive ==
    \A s \in Slot, k \in Change :
        Subscribed(s) /\ sub[s].from # NONE /\ IsChange(k, "APPLIED") =>
            change[k].approvedOn <= change[sub[s].from].approvedOn \/ failed

(* One slot per customer: a second one comes only from an admin's edit or  *)
(* from a registration sent for a number registered before.                *)
(* (registration.Submit, update.Submit, applyOneChange, CreateOrUpdate)    *)
OneSlotPerCustomer ==
    [][(\A s \in Slot : Subscribed(s))' =>
          \/ \A s \in Slot : Subscribed(s)
          \/ \E s \in Slot, o \in Order, routing \in BOOLEAN : CreateOrUpdate(s, o, routing)
          \/ IsForm("register") /\ status # "ABSENT"]_vars

(* "Changes closed": once a round is locked, an override for it changes     *)
(* only by a form whose clock or cutoff has moved since it read *)
(* them, while the admin has moved the cutoff past the present, or when a  *)
(* late sweep drops the slot.                                              *)
(* (Submit's cutoff check, LockManifest, applyOneChange)                   *)
RoundClosed ==
    [][\A s \in Slot :
          locked[s] /\ day' = day /\ override'[s][day] # override[s][day] =>
              \/ form # NONE /\ form.slot = s /\ form.date = day
                 /\ (form.old \/ form.cutoff # cutoff[s])
              \/ hour < cutoff[s]
              \/ failed]_vars

Standing == [PENDING |-> "waiting", APPROVED |-> "accepted", APPLIED |-> "inForce",
             REJECTED |-> "declined"]

(* How a request is entered in the book of changes. *)
EntryOf(row) ==
    IF row = NONE THEN [standing |-> "blank", from |-> NONE]
    ELSE [standing |-> Standing[row.status], from |-> row.effective]

Entries == [k \in Change |-> EntryOf(change[k])]

Book == INSTANCE ChangeBook WITH book <- Entries

(* The requests implement the book of changes: one waits at a time, an     *)
(* approved one comes into force once and not before the day after its     *)
(* approval, through pages sent twice, sweeps begun anew and crashes.      *)
(* (update.Submit, ApprovePendingChange, RejectPendingChange,              *)
(* applyDueChanges)                                                        *)
ChangesFollowTheBook == Book!BookSpec

(* An approved change is applied, though sweeps fail, crash and start      *)
(* over, if the clock reaches its day. (applyDueChanges)                   *)
ApprovedChangesLand ==
    \A k \in Change :
        IsChange(k, "APPROVED") /\ change[k].effective <= LastDay ~> IsChange(k, "APPLIED")
=============================================================================

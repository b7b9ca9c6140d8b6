-------------------------- MODULE ChangeRequests --------------------------
(***************************************************************************)
(* What becomes of a staged change: an admin approves it for tomorrow or   *)
(* rejects it, and an hourly sweep applies what has come due.  The sweep   *)
(* selects the due changes in no particular order and applies each in a    *)
(* transaction of its own; one that fails stays APPROVED for the next      *)
(* sweep.                                                                  *)
(***************************************************************************)
EXTENDS Forms

VARIABLE
    sweep   \* applyDueChanges: the changes selected and not applied yet, and
            \*   whether it has looked since the clock last moved

SweepState == [batch : SUBSET Change, looked : BOOLEAN]

SweepInit == sweep = [batch |-> {}, looked |-> FALSE]

(* Mutant: the approved order is effective at once. *)
ApproveForToday(k, assigned) ==
    /\ IsChange(k, "PENDING")
    /\ change' = [change EXCEPT ![k] = [@ EXCEPT !.status = "APPROVED", !.assigned = assigned,
                                           !.approvedOn = day, !.effective = day]]
    /\ UNCHANGED <<clockVars, cutoff, orderVars, roundVars, failed, incidents, formVars, sweep>>

(* UPDATE ... WHERE review_status = 'PENDING'.  Assignments, for a changed *)
(* address or a new slot, are optional. *)
ApprovePendingChange(k, assigned) ==
    /\ IsChange(k, "PENDING")
    /\ change' = [change EXCEPT ![k] = [@ EXCEPT !.status = "APPROVED", !.assigned = assigned,
                                           !.approvedOn = day, !.effective = day + 1]]
    /\ UNCHANGED <<clockVars, cutoff, orderVars, roundVars, failed, incidents, formVars, sweep>>

(* Mutant: without the status in the WHERE. *)
RejectAnyChange(k) ==
    /\ change[k] # NONE
    /\ change' = [change EXCEPT ![k].status = "REJECTED"]
    /\ UNCHANGED <<clockVars, cutoff, orderVars, roundVars, failed, incidents, formVars, sweep>>

RejectPendingChange(k) ==
    /\ IsChange(k, "PENDING")
    /\ change' = [change EXCEPT ![k].status = "REJECTED"]
    /\ UNCHANGED <<clockVars, cutoff, orderVars, roundVars, failed, incidents, formVars, sweep>>

-----------------------------------------------------------------------------
Due(k) == IsChange(k, "APPROVED") /\ change[k].effective <= day

(* Mutant: CURRENT_DATE of a session in UTC, still yesterday before 05:30. *)
SelectDueInUTC ==
    /\ sweep.batch = {}
    /\ LET today == IF hour < 5 THEN day - 1 ELSE day IN
       sweep' = [batch |-> {k \in Change : IsChange(k, "APPROVED") /\ change[k].effective <= today},
                 looked |-> TRUE]
    /\ UNCHANGED <<clockVars, cutoff, orderVars, change, roundVars, failed, incidents, formVars>>

(* Mutant: what a sweep missed on its day, none picks up later. *)
SelectDueToday ==
    /\ sweep.batch = {}
    /\ sweep' = [batch |-> {k \in Change : IsChange(k, "APPROVED") /\ change[k].effective = day},
                 looked |-> TRUE]
    /\ UNCHANGED <<clockVars, cutoff, orderVars, change, roundVars, failed, incidents, formVars>>

(* Mutant: without the status in the WHERE. *)
SelectDueAgain ==
    /\ sweep.batch = {}
    /\ sweep' = [batch |-> {k \in Change : /\ change[k] # NONE /\ change[k].effective # NONE
                                          /\ change[k].effective <= day},
                 looked |-> TRUE]
    /\ UNCHANGED <<clockVars, cutoff, orderVars, change, roundVars, failed, incidents, formVars>>

(* The SELECT of a sweep: hourly, and at boot. *)
SelectDue ==
    /\ sweep.batch = {}
    /\ sweep' = [batch |-> {k \in Change : Due(k)}, looked |-> TRUE]
    /\ UNCHANGED <<clockVars, cutoff, orderVars, change, roundVars, failed, incidents, formVars>>

Without(k) == sweep' = [sweep EXCEPT !.batch = @ \ {k}]

(* The one slot of a change gets its order, and its routing if one was     *)
(* assigned; the other slot goes, with its overrides from today on. *)
SlotsAfter(k) ==
    LET s == change[k].slot IN
    [t \in Slot |->
        IF t # s THEN NONE
        ELSE LET row == Upserted(s, StoredOrder(change[k].order, day), k)[s]
             IN  [row EXCEPT !.routed = @ \/ change[k].assigned]]

OverridesAfter(k) ==
    [t \in Slot |-> [d \in Day |->
        IF t # change[k].slot /\ d >= day THEN NONE ELSE override[t][d]]]

(* Mutant: the slot the customer left out is kept. *)
SlotsAdded(k) ==
    [t \in Slot |-> IF t = change[k].slot THEN SlotsAfter(k)[t] ELSE sub[t]]

applyKeepingSlots(k) ==
    /\ k \in sweep.batch
    /\ Without(k)
    /\ sub' = SlotsAdded(k)
    /\ change' = [change EXCEPT ![k].status = "APPLIED"]
    /\ UNCHANGED <<clockVars, cutoff, status, override, roundVars, failed, incidents, formVars>>

(* One transaction. *)
applyOneChange(k) ==
    /\ k \in sweep.batch
    /\ Without(k)
    /\ sub' = SlotsAfter(k)
    /\ override' = OverridesAfter(k)
    /\ change' = [change EXCEPT ![k].status = "APPLIED"]
    /\ UNCHANGED <<clockVars, cutoff, status, roundVars, failed, incidents, formVars>>

ApplyFails(k) ==
    /\ Fallible
    /\ k \in sweep.batch
    /\ Without(k)
    /\ failed' = TRUE
    /\ UNCHANGED <<clockVars, cutoff, orderVars, change, roundVars, incidents, formVars>>

ChangeStep(k) ==
    \/ \E assigned \in BOOLEAN : ApprovePendingChange(k, assigned)
    \/ RejectPendingChange(k)
    \/ applyOneChange(k)
    \/ ApplyFails(k)
=============================================================================

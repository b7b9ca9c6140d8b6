---------------------------- MODULE ChangeProofs ----------------------------
(***************************************************************************)
(* The review of changes, for any orders, configuration and failures: an   *)
(* approved change comes into force once, from the next day on, before     *)
(* that day's rounds are locked, and in the order of the approvals; a      *)
(* second slot is nobody's but the admin's or a second registration's; a   *)
(* locked round is closed to the pages.                                    *)
(***************************************************************************)
EXTENDS OrdersProofs

-----------------------------------------------------------------------------
(* What a step does to one change.                                         *)

Staged(k)  == change[k] = NONE /\ IsChange(k, "PENDING")'
Refused(k) == IsChange(k, "PENDING") /\ IsChange(k, "REJECTED")'
                 /\ change'[k].effective = change[k].effective
Accepted(k) == IsChange(k, "PENDING") /\ IsChange(k, "APPROVED")'
                  /\ change'[k].approvedOn = day /\ change'[k].effective = day + 1
Applied(k) == applyOneChange(k) /\ k \in sweep.batch /\ Due(k) /\ IsChange(k, "APPLIED")'
                 /\ change'[k].approvedOn = change[k].approvedOn
                 /\ change'[k].effective = change[k].effective

Only(k) == \A j \in Change \ {k} : change'[j] = change[j]

ChangeKept == change' = change

ChangeMoves ==
    \/ ChangeKept
    \/ /\ UNCHANGED <<day, hour, failed>>
       /\ \E k \in Change :
             /\ Only(k)
             /\ \/ Staged(k) \/ Refused(k) \/ Accepted(k)
                \/ Applied(k)

LEMMA ApplyMoves ==
    ASSUME TypeOK, BatchDue, NEW k \in Change, applyOneChange(k)
    PROVE  Applied(k) /\ Only(k)
<1>1. /\ change[k] # NONE /\ k \in sweep.batch /\ Due(k) /\ change[k] \in ChangeRow
      /\ change' = [change EXCEPT ![k].status = "APPLIED"]
  BY DEF applyOneChange, BatchDue, Due, IsChange, TypeOK, TablesTypeOK
<1>2. change'[k] = [change[k] EXCEPT !.status = "APPLIED"] /\ Only(k)
  BY <1>1 DEF Only, TypeOK, TablesTypeOK
<1>3. change'[k] \in ChangeRow
  BY <1>1, <1>2 DEF ChangeRow, ReviewStatus
<1>4. change'[k] # NONE
  BY <1>3, OrderAssumption
<1>5. QED
  BY <1>1, <1>2, <1>4 DEF Applied, IsChange, ChangeRow

LEMMA ReviewMoves ==
    ASSUME TypeOK, BatchDue, NEW k \in Change, ChangeStep(k)
    PROVE  ChangeMoves
<1>1. \A j \in Change : change[j] # NONE => change[j] \in ChangeRow
  BY DEF TypeOK, TablesTypeOK
<1>2. ASSUME NEW assigned \in BOOLEAN, ApprovePendingChange(k, assigned)
      PROVE  ChangeMoves
  <2>1. change[k] \in ChangeRow /\ day + 1 \in Nat /\ day \in Day
    BY <1>1, <1>2, OrderAssumption DEF ApprovePendingChange, IsChange, TypeOK, TablesTypeOK, Day
  <2>2. change' = [change EXCEPT ![k] = [@ EXCEPT !.status = "APPROVED", !.assigned = assigned,
                                           !.approvedOn = day, !.effective = day + 1]]
    BY <1>2 DEF ApprovePendingChange
  <2>3. /\ change'[k].status = "APPROVED" /\ change'[k].approvedOn = day
        /\ change'[k].effective = day + 1 /\ change'[k] \in ChangeRow
    BY <2>1, <2>2 DEF ChangeRow, ReviewStatus, TypeOK, TablesTypeOK
  <2>4. change'[k] # NONE
    BY <2>3, OrderAssumption
  <2>5. Accepted(k) /\ Only(k) /\ UNCHANGED <<day, hour, failed>>
    BY <1>2, <2>2, <2>3, <2>4 DEF ApprovePendingChange, Accepted, Only, IsChange, clockVars
  <2>6. QED
    BY <2>5 DEF ChangeMoves
<1>3. ASSUME change[k] # NONE, NEW st \in ReviewStatus, change' = [change EXCEPT ![k].status = st]
      PROVE  /\ Only(k) /\ change'[k] # NONE /\ change'[k].status = st
             /\ change'[k].approvedOn = change[k].approvedOn
             /\ change'[k].effective = change[k].effective
  <2>1. change'[k] = [change[k] EXCEPT !.status = st] /\ change[k] \in ChangeRow
    BY <1>1, <1>3 DEF TypeOK, TablesTypeOK
  <2>2. change'[k] \in ChangeRow
    BY <2>1 DEF ChangeRow
  <2>3. change'[k] # NONE
    BY <2>2, OrderAssumption
  <2>4. Only(k)
    BY <1>3 DEF Only
  <2>5. QED
    BY <2>1, <2>3, <2>4 DEF ChangeRow
<1>4. CASE RejectPendingChange(k)
  BY <1>3, <1>4 DEF RejectPendingChange, IsChange, ReviewStatus, ChangeMoves, Refused, clockVars
<1>5. CASE applyOneChange(k)
  BY <1>5, ApplyMoves DEF applyOneChange, ChangeMoves, clockVars
<1>6. CASE ApplyFails(k)
  BY <1>6 DEF ApplyFails, ChangeMoves, ChangeKept
<1>7. QED
  BY <1>2, <1>4, <1>5, <1>6 DEF ChangeStep

LEMMA StepMoves ==
    ASSUME TypeOK, BatchDue, [Next]_vars
    PROVE  ChangeMoves
<1>1. CASE FormStep
  <2>1. \A k \in Change : change[k] # NONE => change'[k] = change[k]
    BY <1>1, FormsKeepChanges
  <2>2. CASE \A k \in Change : change'[k] = change[k]
    <3>1. change' = change
      BY <1>1, <2>2, LinksTyped, FormsTyped DEF FormStep, LinkStep, TypeOK, TablesTypeOK
    <3>2. QED
      BY <3>1 DEF ChangeMoves, ChangeKept
  <2>3. CASE \E k \in Change : change'[k] # change[k]
    <3>1. PICK k \in Change : change'[k] # change[k]
      BY <2>3
    <3>2. \A j \in Change \ {k} : change'[j] = change[j]
      BY <1>1, <3>1, FormsKeepChanges
    <3>3. QED
      BY <1>1, <2>1, <3>1, <3>2, FormsKeepChanges DEF ChangeMoves, Staged, Only, clockVars
  <2>4. QED
    BY <2>2, <2>3
<1>2. CASE \E k \in Change : ChangeStep(k)
  BY <1>2, ReviewMoves
<1>3. CASE SelectDue \/ Tick \/ Crash \/ notifyApproved \/ UNCHANGED vars
  BY <1>3 DEF SelectDue, Tick, Crash, notifyApproved, vars, ChangeMoves, ChangeKept
<1>4. CASE \/ AdminStep \/ handleDisableAccount \/ handleReactivateAccount
           \/ \E s \in Slot : LockManifest(s)
  BY <1>4, DeskTyped DEF ChangeMoves, ChangeKept
<1>5. QED
  BY <1>1, <1>2, <1>3, <1>4 DEF Next

-----------------------------------------------------------------------------
(* Approvals and the sweep.                                                *)

(* An approved change is dated the day after its approval, and is applied  *)
(* no earlier. *)
Dated ==
    \A k \in Change :
        /\ IsChange(k, "APPROVED") \/ IsChange(k, "APPLIED") =>
              change[k].approvedOn \in Int /\ change[k].effective = change[k].approvedOn + 1
        /\ IsChange(k, "APPLIED") => change[k].effective <= day

(* While nothing fails, a sweep that has looked holds all that is due, and *)
(* what it leaves for another hour is not due yet, or only since midnight. *)
SweepComplete == ~failed /\ sweep.looked => \A k \in Change : Due(k) => k \in sweep.batch

CaughtUp ==
    ~failed => \A k \in Change : IsChange(k, "APPROVED") =>
                  change[k].effective > day \/ (change[k].effective = day /\ hour = 0)

(* A round is not locked before the hour the messages assume. *)
LockedLate ==
    \A s \in Slot : locked[s] => hour >= cutoffHour(s)

ReviewInv == TypeOK /\ BatchDue /\ Dated /\ SweepComplete /\ CaughtUp /\ LockedLate

LEMMA DayGrows ==
    ASSUME TypeOK, [Next]_vars
    PROVE  \/ UNCHANGED <<day, hour>>
           \/ Tick /\ day' = day /\ hour' > hour /\ locked' = locked
           \/ Tick /\ day' = day + 1 /\ hour' = 0 /\ \A s \in Slot : ~locked'[s]
<1>1. CASE Tick
  <2>1. CASE LaterHours # {}
    <3>1. Min(LaterHours) \in LaterHours
      BY <2>1, MinNat, OrderAssumption DEF LaterHours
    <3>2. QED
      BY <1>1, <2>1, <3>1 DEF Tick, LaterHours, roundVars
  <2>2. CASE LaterHours = {}
    BY <1>1, <2>2 DEF Tick
  <2>3. QED
    BY <2>1, <2>2
<1>2. CASE FormStep
  BY <1>2, FormsKeepChanges DEF clockVars
<1>3. CASE \E k \in Change : ChangeStep(k)
  BY <1>3 DEF ChangeStep, ApprovePendingChange, RejectPendingChange, applyOneChange, ApplyFails,
     clockVars
<1>4. CASE SelectDue \/ Crash \/ notifyApproved \/ UNCHANGED vars
  BY <1>4 DEF SelectDue, Crash, notifyApproved, vars, clockVars
<1>5. CASE \/ AdminStep \/ handleDisableAccount \/ handleReactivateAccount
           \/ \E s \in Slot : LockManifest(s)
  BY <1>5, DeskTyped DEF clockVars
<1>6. QED
  BY <1>1, <1>2, <1>3, <1>4, <1>5 DEF Next

LEMMA DatedStep ==
    ASSUME TypeOK, BatchDue, Dated, [Next]_vars
    PROVE  Dated'
<1>1. day \in Int /\ day' \in Int /\ day' >= day
  BY DayGrows DEF TypeOK, TablesTypeOK, Day
<1>2. CASE ChangeKept
  BY <1>1, <1>2 DEF ChangeKept, Dated, IsChange
<1>3. ASSUME NEW k \in Change, Only(k), UNCHANGED <<day, hour, failed>>,
             Staged(k) \/ Refused(k) \/ Accepted(k) \/ Applied(k)
      PROVE  Dated'
  <2>1. \A j \in Change \ {k} : change'[j] = change[j]
    BY <1>3 DEF Only
  <2>2. /\ IsChange(k, "APPROVED")' \/ IsChange(k, "APPLIED")' =>
              change'[k].approvedOn \in Int /\ change'[k].effective = change'[k].approvedOn + 1
        /\ IsChange(k, "APPLIED")' => change'[k].effective <= day
    BY <1>1, <1>3 DEF Staged, Refused, Accepted, Applied, Due, IsChange, Dated
  <2>3. QED
    BY <1>3, <2>1, <2>2 DEF Dated, IsChange
<1>4. QED
  BY <1>2, <1>3, StepMoves DEF ChangeMoves

(* What has come due before a step of the same day had done so already. *)
LEMMA DueKept ==
    ASSUME TypeOK, BatchDue, [Next]_vars, day' = day, NEW k \in Change, Due(k)'
    PROVE  Due(k) /\ ~Applied(k)
<1>1. day \in Int
  BY DEF TypeOK, TablesTypeOK, Day
<1>2. CASE ChangeKept
  BY <1>2 DEF ChangeKept, Due, IsChange, Applied
<1>3. ASSUME NEW j \in Change, Only(j), Staged(j) \/ Refused(j) \/ Accepted(j) \/ Applied(j)
      PROVE  Due(k) /\ ~Applied(k)
  <2>1. CASE k = j
    BY <1>1, <1>3, <2>1 DEF Staged, Refused, Accepted, Applied, Due, IsChange
  <2>2. CASE k # j
    BY <1>3, <2>2 DEF Only, Due, IsChange, Applied
  <2>3. QED
    BY <2>1, <2>2
<1>4. QED
  BY <1>2, <1>3, StepMoves DEF ChangeMoves

LEMMA SweepMoves ==
    ASSUME TypeOK, [Next]_vars
    PROVE  \/ UNCHANGED <<day, failed, sweep>>
           \/ SelectDue
           \/ ~sweep'.looked
           \/ failed'
           \/ \E k \in Change : applyOneChange(k)
<1>1. CASE FormStep /\ UNCHANGED <<sweep, notifying>>
  BY <1>1, FormsKeepChanges DEF clockVars
<1>2. CASE \E k \in Change : ChangeStep(k)
  BY <1>2 DEF ChangeStep, ApprovePendingChange, RejectPendingChange, ApplyFails, clockVars
<1>3. CASE Tick \/ Crash \/ notifyApproved \/ UNCHANGED vars
  BY <1>3 DEF Tick, Crash, notifyApproved, vars, clockVars, TypeOK, SweepState
<1>4. CASE \/ AdminStep \/ handleDisableAccount \/ handleReactivateAccount
           \/ \E s \in Slot : LockManifest(s)
  <2>1. UNCHANGED <<day, sweep>>
    BY <1>4, DeskTyped DEF clockVars
  <2>2. UNCHANGED failed
    BY <1>4 DEF AdminStep, Approve, Reject, CreateOrUpdate, UpdateConfig, handleDisableAccount,
       handleReactivateAccount, SetStatus, LockManifest
  <2>3. QED
    BY <2>1, <2>2
<1>5. QED
  BY <1>1, <1>2, <1>3, <1>4 DEF Next

LEMMA FailedStays ==
    ASSUME TypeOK, [Next]_vars, failed
    PROVE  failed'
<1>1. CASE FormStep
  BY <1>1, FormsKeepChanges
<1>2. CASE \E k \in Change : ChangeStep(k)
  BY <1>2 DEF ChangeStep, ApprovePendingChange, RejectPendingChange, applyOneChange, ApplyFails
<1>3. CASE SelectDue \/ Tick \/ Crash \/ notifyApproved \/ UNCHANGED vars
  BY <1>3 DEF SelectDue, Tick, Crash, notifyApproved, vars
<1>4. CASE \/ AdminStep \/ handleDisableAccount \/ handleReactivateAccount
           \/ \E s \in Slot : LockManifest(s)
  BY <1>4 DEF AdminStep, Approve, Reject, CreateOrUpdate, UpdateConfig, handleDisableAccount,
     handleReactivateAccount, SetStatus, LockManifest
<1>5. QED
  BY <1>1, <1>2, <1>3, <1>4 DEF Next

LEMMA SweepCompleteStep ==
    ASSUME ReviewInv, [Next]_vars
    PROVE  SweepComplete'
<1> USE DEF ReviewInv
<1> SUFFICES ASSUME ~failed', sweep'.looked, NEW k \in Change, Due(k)'
             PROVE  k \in sweep'.batch
  BY DEF SweepComplete
<1>1. CASE UNCHANGED <<day, failed, sweep>>
  BY <1>1, DueKept DEF SweepComplete
<1>2. CASE SelectDue
  BY <1>2 DEF SelectDue, Due, IsChange, clockVars
<1>3. ASSUME NEW j \in Change, applyOneChange(j)
      PROVE  k \in sweep'.batch
  <2>1. UNCHANGED <<day, failed>> /\ sweep' = [sweep EXCEPT !.batch = @ \ {j}]
    BY <1>3 DEF applyOneChange, Without, clockVars
  <2>2. sweep'.batch = sweep.batch \ {j} /\ sweep'.looked = sweep.looked
    BY <2>1 DEF TypeOK, SweepState
  <2>3. k # j
    BY <1>3, <2>1 DEF applyOneChange, Due, IsChange, TypeOK, TablesTypeOK, ChangeRow
  <2>4. Due(k)
    BY <2>1, DueKept
  <2>5. QED
    BY <2>1, <2>2, <2>3, <2>4 DEF SweepComplete
<1>4. QED
  BY <1>1, <1>2, <1>3, SweepMoves

LEMMA CaughtUpStep ==
    ASSUME ReviewInv, [Next]_vars
    PROVE  CaughtUp'
<1> USE DEF ReviewInv
<1> SUFFICES ASSUME ~failed', NEW k \in Change, IsChange(k, "APPROVED")'
             PROVE  change'[k].effective > day' \/ (change'[k].effective = day' /\ hour' = 0)
  BY DEF CaughtUp
<1>0. day \in Int
  BY DEF TypeOK, TablesTypeOK, Day
<1>1. CASE ~Tick
  <2>1. UNCHANGED <<day, hour>>
    BY <1>1, DayGrows
  <2>2. ~failed
    BY FailedStays
  <2>3. CASE IsChange(k, "APPROVED") /\ change'[k] = change[k]
    BY <2>1, <2>2, <2>3 DEF CaughtUp
  <2>4. ASSUME NEW j \in Change, Only(j), Staged(j) \/ Refused(j) \/ Accepted(j) \/ Applied(j)
        PROVE  \/ IsChange(k, "APPROVED") /\ change'[k] = change[k]
               \/ change'[k].effective = day + 1
    <3>1. CASE k = j
      BY <2>4, <3>1 DEF Staged, Refused, Accepted, Applied, IsChange
    <3>2. CASE k # j
      BY <2>4, <3>2 DEF Only, IsChange
    <3>3. QED
      BY <3>1, <3>2
  <2>5. CASE ChangeKept
    BY <2>3, <2>5 DEF ChangeKept, IsChange
  <2>6. QED
    BY <1>0, <2>1, <2>3, <2>4, <2>5, StepMoves DEF ChangeMoves
<1>2. CASE Tick
  <2>1. /\ ~failed /\ sweep.looked /\ sweep.batch = {}
        /\ change' = change
    BY <1>2 DEF Tick, OnTime
  <2>2. ~Due(k) /\ IsChange(k, "APPROVED")
    BY <2>1 DEF SweepComplete, IsChange
  <2>3. change[k].effective \in Int
    BY <2>2 DEF Dated
  <2>4. change[k].effective > day
    BY <1>0, <2>2, <2>3 DEF Due
  <2>5. QED
    BY <1>0, <1>2, <2>1, <2>3, <2>4, DayGrows
<1>3. QED
  BY <1>1, <1>2

(* Rounds are locked by the lock sweeper and unlocked at midnight. *)
LEMMA LockMoves ==
    ASSUME TypeOK, [Next]_vars, NEW s \in Slot, locked'[s] \/ plan'[s] # NONE
    PROVE  \/ locked'[s] = locked[s] /\ plan'[s] = plan[s]
           \/ /\ LockManifest(s)
              /\ locked'[s] /\ ~locked[s] /\ plan'[s] = PlanNow(s)
<1>1. CASE FormStep
  BY <1>1, FormsKeepChanges DEF roundVars
<1>2. CASE \E k \in Change : ChangeStep(k)
  BY <1>2 DEF ChangeStep, ApprovePendingChange, RejectPendingChange, applyOneChange, ApplyFails,
     roundVars
<1>3. CASE SelectDue \/ Crash \/ notifyApproved \/ UNCHANGED vars
  BY <1>3 DEF SelectDue, Crash, notifyApproved, vars, roundVars
<1>4. CASE Tick
  BY <1>4 DEF Tick, roundVars
<1>5. CASE AdminStep \/ handleDisableAccount \/ handleReactivateAccount
  BY <1>5 DEF AdminStep, Approve, Reject, CreateOrUpdate, UpdateConfig, handleDisableAccount,
     handleReactivateAccount, SetStatus, roundVars
<1>6. ASSUME NEW t \in Slot, LockManifest(t)
      PROVE  \/ locked'[s] = locked[s] /\ plan'[s] = plan[s]
             \/ LockManifest(s) /\ locked'[s] /\ ~locked[s] /\ plan'[s] = PlanNow(s)
  BY <1>6 DEF LockManifest, TypeOK, TablesTypeOK
<1>7. QED
  BY <1>1, <1>2, <1>3, <1>4, <1>5, <1>6 DEF Next

LEMMA LockedLateStep ==
    ASSUME TypeOK, TypeOK', LockedLate, [Next]_vars
    PROVE  LockedLate'
<1> SUFFICES ASSUME NEW s \in Slot, locked'[s]
             PROVE  hour' >= cutoffHour(s)
  BY DEF LockedLate
<1>1. hour \in Int /\ hour' \in Int /\ cutoffHour(s) \in Int
  BY OrderAssumption DEF TypeOK, TablesTypeOK, cutoffHour
<1>2. hour' >= hour
  BY <1>1, DayGrows
<1>3. CASE locked'[s] = locked[s]
  BY <1>1, <1>2, <1>3 DEF LockedLate
<1>4. CASE LockManifest(s)
  <2>1. hour >= cutoff[s] /\ cutoff[s] >= cutoffHour(s) /\ cutoff[s] \in Int
    BY <1>4, CutoffAssumption DEF LockManifest, Passed, TypeOK, TablesTypeOK
  <2>2. QED
    BY <1>1, <1>2, <2>1
<1>5. QED
  BY <1>3, <1>4, LockMoves

LEMMA ReviewInit == Init => ReviewInv
<1> SUFFICES ASSUME Init
             PROVE  ReviewInv
  OBVIOUS
<1>1. /\ \A k \in Change : change[k] = NONE
      /\ \A s \in Slot : ~locked[s]
      /\ sweep.batch = {} /\ ~sweep.looked
  BY DEF Init, TablesInit, SweepInit
<1>2. QED
  BY <1>1, TypeInit DEF ReviewInv, BatchDue, Dated, SweepComplete, CaughtUp, LockedLate, IsChange

LEMMA ReviewInvariant == Spec => []ReviewInv
<1>1. Init => ReviewInv
  BY ReviewInit
<1>2. ReviewInv /\ [Next]_vars => ReviewInv'
  <2> SUFFICES ASSUME ReviewInv, [Next]_vars
               PROVE  ReviewInv'
    OBVIOUS
  <2>1. TypeOK' /\ BatchDue'
    BY TypeStep DEF ReviewInv
  <2>2. Dated' /\ SweepComplete' /\ CaughtUp' /\ LockedLate'
    BY <2>1, DatedStep, SweepCompleteStep, CaughtUpStep, LockedLateStep DEF ReviewInv
  <2>3. QED
    BY <2>1, <2>2 DEF ReviewInv
<1>3. QED
  BY <1>1, <1>2, PTL DEF Spec

LEMMA DueBeforeLock == ReviewInv => ChangesReachTheRound
<1> SUFFICES ASSUME ReviewInv, NEW k \in Change, Due(k), NEW s \in Slot, locked[s], ~failed
             PROVE  FALSE
  BY DEF ChangesReachTheRound, ReviewInv, TypeOK, TablesTypeOK
<1>1. day \in Int /\ hour \in Int
  BY OrderAssumption DEF ReviewInv, TypeOK, TablesTypeOK, Day
<1>2. hour # 0
  BY <1>1 DEF ReviewInv, LockedLate, cutoffHour
<1>3. change[k].effective \in Int
  BY DEF ReviewInv, Dated, Due
<1>4. QED
  BY <1>1, <1>2, <1>3 DEF ReviewInv, CaughtUp, Due

(* No round is locked on the old order while an approved change is due,    *)
(* as long as nothing failed and the server was up, whenever the rounds    *)
(* are configured to close (ApprovePendingChange, applyDueChanges,         *)
(* LockManifest). *)
THEOREM ChangesInTime == Spec => []ChangesReachTheRound
BY DueBeforeLock, ReviewInvariant, PTL

-----------------------------------------------------------------------------
(* What wrote the orders and the plans.                                    *)

IsApplied(k) == k = NONE \/ IsChange(k, "APPLIED")

(* Orders and plans come from applied changes or from no change. *)
OriginsApplied ==
    \A s \in Slot :
        /\ Subscribed(s) => IsApplied(sub[s].from)
        /\ plan[s] # NONE => IsApplied(plan[s].from)

LEMMA AppliedStays ==
    ASSUME TypeOK, BatchDue, [Next]_vars, NEW k \in Origin, IsApplied(k)
    PROVE  /\ IsApplied(k)'
           /\ k # NONE => change'[k].approvedOn = change[k].approvedOn
<1>1. CASE k = NONE
  BY <1>1 DEF IsApplied
<1>2. CASE k \in Change /\ IsChange(k, "APPLIED")
  <2>1. change'[k] = change[k]
    <3>1. CASE ChangeKept
      BY <3>1 DEF ChangeKept
    <3>2. ASSUME NEW j \in Change, Only(j), Staged(j) \/ Refused(j) \/ Accepted(j) \/ Applied(j)
          PROVE  change'[k] = change[k]
      BY <1>2, <3>2 DEF Only, Staged, Refused, Accepted, Applied, Due, IsChange
    <3>3. QED
      BY <3>1, <3>2, StepMoves DEF ChangeMoves
  <2>2. QED
    BY <1>2, <2>1 DEF IsApplied, IsChange
<1>3. QED
  BY <1>1, <1>2 DEF Origin, IsApplied

(* Where an order on file comes from, after a step. *)
LEMMA SubMoves ==
    ASSUME TypeOK, BatchDue, [Next]_vars, NEW s \in Slot, Subscribed(s)'
    PROVE  \/ Subscribed(s) /\ sub'[s].from = sub[s].from
           \/ sub'[s].from = NONE
           \/ \E k \in Change : Applied(k) /\ Only(k) /\ sub'[s].from = k
<1>0. sub[s] # NONE => sub[s] \in SubscriptionRow
  BY DEF TypeOK, TablesTypeOK
<1>1. CASE UNCHANGED sub
  BY <1>1 DEF Subscribed
<1>2. CASE Register
  <2>1. form.slot \in Slot /\ form.order \in Order /\ day \in Int
    BY <1>2 DEF Register, IsForm, FormRow, TypeOK, TablesTypeOK, FormsTypeOK, Day
  <2>2. sub' = Upserted(form.slot, StoredOrder(form.order, day), NONE)
    BY <1>2 DEF Register
  <2>3. s = form.slot => sub'[s].from = NONE
    BY <2>2 DEF Upserted, Subscription, TypeOK, TablesTypeOK
  <2>4. s # form.slot => sub'[s] = sub[s]
    BY <2>2 DEF Upserted, TypeOK, TablesTypeOK
  <2>5. QED
    BY <2>3, <2>4 DEF Subscribed
<1>3. ASSUME NEW slots \in SUBSET Slot, Approve(slots)
      PROVE  Subscribed(s) /\ sub'[s].from = sub[s].from
  BY <1>0, <1>3 DEF Approve, Subscribed, SubscriptionRow
<1>4. ASSUME NEW t \in Slot, NEW o \in Order, NEW routing \in BOOLEAN, CreateOrUpdate(t, o, routing)
      PROVE  (Subscribed(s) /\ sub'[s].from = sub[s].from) \/ sub'[s].from = NONE
  <2> DEFINE row == Upserted(t, EditedOrder(t, o), NONE)[t]
  <2>1. row.from = NONE /\ row \in SubscriptionRow
    <3>1. row.from = NONE
      BY DEF Upserted, Subscription, TypeOK, TablesTypeOK
    <3>2. QED
      BY <3>1, EditedOrderTyped, UpsertedTyped DEF Origin
  <2>2. sub' = [sub EXCEPT ![t] = [row EXCEPT !.routed = @ \/ routing]]
    BY <1>4 DEF CreateOrUpdate
  <2> HIDE DEF row
  <2>3. s = t => sub'[s].from = NONE
    BY <2>1, <2>2, RoutedTyped DEF TypeOK, TablesTypeOK
  <2>4. s # t => sub'[s] = sub[s]
    BY <2>2 DEF TypeOK, TablesTypeOK
  <2>5. QED
    BY <2>3, <2>4 DEF Subscribed
<1>5. ASSUME NEW k \in Change, applyOneChange(k)
      PROVE  Applied(k) /\ Only(k) /\ sub'[s].from = k
  <2>1. change[k] # NONE
    BY <1>5 DEF applyOneChange, BatchDue, Due, IsChange
  <2>2. sub'[s].from = k
    BY <1>5, <2>1, SlotsTyped DEF applyOneChange, Subscribed
  <2>3. ChangeStep(k)
    BY <1>5 DEF ChangeStep
  <2>4. Applied(k) /\ Only(k)
    BY <1>5, <2>3, ApplyMoves
  <2>5. QED
    BY <2>2, <2>4
<1>6. QED
  BY <1>1, <1>2, <1>3, <1>4, <1>5
     DEF Next, FormStep, LinkStep, GenerateToken, SubmitRegistration, SubmitUpdate, SubmitOverride,
     Sent, WriteOverride, StageChange, Abandon, orderVars, ChangeStep, ApprovePendingChange,
     RejectPendingChange, ApplyFails, AdminStep, Reject, UpdateConfig, handleDisableAccount,
     handleReactivateAccount, SetStatus, LockManifest, SelectDue, Tick, Crash, notifyApproved, vars

(* Of two applied changes the one in force was approved last. *)
LiveInv == ReviewInv /\ OriginsApplied /\ NewestApprovalIsLive

LEMMA OriginsStep ==
    ASSUME ReviewInv, OriginsApplied, [Next]_vars
    PROVE  OriginsApplied'
<1> USE DEF ReviewInv
<1>1. ASSUME NEW s \in Slot, Subscribed(s)'
      PROVE  IsApplied(sub[s].from)'
  <2>1. CASE Subscribed(s) /\ sub'[s].from = sub[s].from
    <3>1. sub[s].from \in Origin /\ IsApplied(sub[s].from)
      BY <2>1 DEF Subscribed, SubscriptionRow, OriginsApplied, TypeOK, TablesTypeOK
    <3>2. IsApplied(sub[s].from)' <=> sub[s].from = NONE \/ IsChange(sub[s].from, "APPLIED")'
      BY <2>1 DEF IsApplied, IsChange
    <3>3. QED
      BY <2>1, <3>1, AppliedStays DEF IsApplied, IsChange
  <2>2. CASE sub'[s].from = NONE
    BY <2>2 DEF IsApplied
  <2>3. ASSUME NEW k \in Change, Applied(k), sub'[s].from = k
        PROVE  IsApplied(sub[s].from)'
    BY <2>3 DEF Applied, IsApplied, IsChange
  <2>4. QED
    BY <1>1, <2>1, <2>2, <2>3, SubMoves
<1>2. ASSUME NEW s \in Slot, plan'[s] # NONE
      PROVE  IsApplied(plan[s].from)'
  <2>1. CASE plan'[s] = plan[s]
    <3>1. plan[s].from \in Origin /\ IsApplied(plan[s].from)
      BY <1>2, <2>1 DEF PlanRow, OriginsApplied, TypeOK, TablesTypeOK
    <3>2. QED
      BY <2>1, <3>1, AppliedStays DEF IsApplied, IsChange
  <2>2. CASE LockManifest(s) /\ plan'[s] = PlanNow(s)
    <3>1. plan'[s].from = sub[s].from /\ Subscribed(s) /\ change' = change
      BY <1>2, <2>2 DEF PlanNow, OnRound, LockManifest
    <3>2. QED
      BY <3>1 DEF OriginsApplied, IsApplied, IsChange
  <2>3. QED
    BY <1>2, <2>1, <2>2, LockMoves
<1>3. QED
  BY <1>1, <1>2 DEF OriginsApplied

LEMMA LiveStep ==
    ASSUME LiveInv, [Next]_vars
    PROVE  NewestApprovalIsLive'
<1> USE DEF LiveInv, ReviewInv
<1> SUFFICES ASSUME NEW s \in Slot, NEW k \in Change, Subscribed(s)', sub'[s].from # NONE,
                    IsChange(k, "APPLIED")', ~failed'
             PROVE  change'[k].approvedOn <= change'[sub'[s].from].approvedOn
  BY DEF NewestApprovalIsLive
<1>1. ~failed
  BY FailedStays
<1>2. ASSUME NEW j \in Change, Applied(j), Only(j), sub'[s].from = j
      PROVE  change'[k].approvedOn <= change'[j].approvedOn
  <2>1. change[j].approvedOn = day - 1
    BY <1>1, <1>2 DEF Applied, Due, CaughtUp, Dated, TypeOK, TablesTypeOK, Day
  <2>2. CASE k = j
    BY <1>2, <2>1, <2>2 DEF Applied, TypeOK, TablesTypeOK, Day
  <2>3. CASE k # j
    <3>1. change'[k] = change[k] /\ IsChange(k, "APPLIED")
      BY <1>2, <2>3 DEF Only, IsChange
    <3>2. change[k].approvedOn <= day - 1
      BY <3>1 DEF Dated, TypeOK, TablesTypeOK, Day
    <3>3. QED
      BY <1>2, <2>1, <3>1, <3>2 DEF Applied
  <2>4. QED
    BY <2>2, <2>3
<1>3. CASE Subscribed(s) /\ sub'[s].from = sub[s].from
  <2>1. sub[s].from \in Change /\ IsApplied(sub[s].from) /\ sub[s].from \in Origin
    BY <1>3 DEF Subscribed, SubscriptionRow, Origin, OriginsApplied, TypeOK, TablesTypeOK
  <2>2. change'[sub[s].from].approvedOn = change[sub[s].from].approvedOn
    BY <1>3, <2>1, AppliedStays
  <2>3. CASE IsChange(k, "APPLIED")
    <3> k # NONE
      BY OrderAssumption DEF Change
    <3>1. change'[k].approvedOn = change[k].approvedOn
      BY <2>3, AppliedStays DEF IsApplied, Origin, IsChange, TypeOK, TablesTypeOK
    <3>2. QED
      BY <1>1, <1>3, <2>2, <2>3, <3>1 DEF NewestApprovalIsLive
  <2>4. CASE ~IsChange(k, "APPLIED")
    <3>1. PICK j \in Change : Applied(j) /\ Only(j) /\ k = j
      BY <2>4, StepMoves DEF ChangeMoves, ChangeKept, Only, Staged, Refused, Accepted, IsChange
    <3>2. sub'[s].from = j
      BY <3>1, SlotsTyped DEF Applied, applyOneChange, Subscribed, Due, IsChange
    <3>3. QED
      BY <1>2, <1>3, <3>1, <3>2
  <2>5. QED
    BY <2>3, <2>4
<1>4. QED
  BY <1>2, <1>3, SubMoves

LEMMA LiveInvariant == Spec => []LiveInv
<1>1. Init => LiveInv
  <2> SUFFICES ASSUME Init
               PROVE  OriginsApplied /\ NewestApprovalIsLive
    BY ReviewInit DEF LiveInv
  <2>1. \A s \in Slot : plan[s] = NONE /\ (Subscribed(s) => sub[s].from = NONE)
    BY DEF Init, TablesInit, Subscribed, Subscription
  <2>2. QED
    BY <2>1 DEF OriginsApplied, IsApplied, NewestApprovalIsLive
<1>2. LiveInv /\ [Next]_vars /\ ReviewInv' => LiveInv'
  BY OriginsStep, LiveStep DEF LiveInv
<1>3. QED
  BY <1>1, <1>2, ReviewInvariant, PTL DEF Spec

(* A change approved today is on no plan of today (ApprovePendingChange,   *)
(* applyOneChange, LockManifest). *)
THEOREM PlannedAhead == Spec => []PlannedADayAhead
<1>1. LiveInv => PlannedADayAhead
  <2> SUFFICES ASSUME LiveInv, NEW s \in Slot, plan[s] # NONE, plan[s].from # NONE
               PROVE  change[plan[s].from].approvedOn < day
    BY DEF PlannedADayAhead
  <2>1. plan[s].from \in Change /\ IsChange(plan[s].from, "APPLIED")
    BY DEF LiveInv, ReviewInv, OriginsApplied, IsApplied, PlanRow, Origin, TypeOK, TablesTypeOK
  <2>2. QED
    BY <2>1 DEF LiveInv, ReviewInv, Dated, TypeOK, TablesTypeOK, Day
<1>2. QED
  BY <1>1, LiveInvariant, PTL

(* Approvals of different days come into force in their order, as long as  *)
(* nothing fails (applyDueChanges, applyOneChange). *)
THEOREM NewestLive == Spec => []NewestApprovalIsLive
BY LiveInvariant, PTL DEF LiveInv

-----------------------------------------------------------------------------
(* One slot per customer.                                                  *)

(* A number nobody registered has a registration link at the most. *)
NewNumber ==
    status = "ABSENT" =>
        /\ \A s \in Slot : ~Subscribed(s)
        /\ \A k \in Change : change[k] = NONE
        /\ \A t \in Link : link[t].page \notin {"override", "update"}
        /\ form # NONE => form.page = "register"

LEMMA NewNumberStep ==
    ASSUME TypeOK, BatchDue, NewNumber, [Next]_vars
    PROVE  NewNumber'
<1> SUFFICES ASSUME status' = "ABSENT"
             PROVE  NewNumber'
  BY DEF NewNumber
<1>1. CASE FormStep
  <2>1. ASSUME NEW t \in Link, GenerateToken(t)
        PROVE  NewNumber'
    <3>1. status = "ABSENT" /\ UNCHANGED <<sub, change, form>>
      BY <2>1 DEF GenerateToken, orderVars
    <3>2. link' = [link EXCEPT ![t].page = "register"]
      BY <2>1, <3>1 DEF GenerateToken, PagesFor
    <3>3. \A u \in Link : link'[u].page \in {link[u].page, "register"}
      BY <3>2 DEF LinkRow, TypeOK, FormsTypeOK
    <3>4. QED
      BY <3>1, <3>3 DEF NewNumber, Subscribed
  <2>2. ASSUME NEW t \in Link, NEW s, NEW o, NEW d, NEW q, NEW c, Sent(t, s, o, d, q, c),
               link[t].page \in Page
        PROVE  NewNumber'
    <3>1. status = "ABSENT" /\ UNCHANGED <<sub, change, link>> /\ form'.page = link[t].page
      BY <2>2 DEF Sent, orderVars
    <3>2. QED
      BY <2>2, <3>1 DEF NewNumber, Subscribed, Page
  <2>3. CASE Register \/ WriteOverride \/ StageChange \/ Abandon
    <3>1. CASE Register
      BY <3>1 DEF Register
    <3>2. CASE WriteOverride \/ StageChange
      BY <3>2 DEF WriteOverride, StageChange, IsForm, orderVars, NewNumber
    <3>3. CASE Abandon
      BY <3>3 DEF Abandon, NewNumber, Subscribed, orderVars
    <3>4. QED
      BY <2>3, <3>1, <3>2, <3>3
  <2>4. CASE \E t \in Link : LinkStep(t)
    BY <2>1, <2>2, <2>4
       DEF LinkStep, SubmitRegistration, SubmitUpdate, SubmitOverride, Opens, Page
  <2>5. QED
    BY <1>1, <2>3, <2>4 DEF FormStep
<1>2. CASE \E k \in Change : ChangeStep(k)
  BY <1>2 DEF ChangeStep, ApprovePendingChange, RejectPendingChange, applyOneChange, ApplyFails,
     BatchDue, Due, IsChange, orderVars, formVars, NewNumber, Subscribed
<1>3. CASE SelectDue \/ Crash \/ notifyApproved \/ UNCHANGED vars
  BY <1>3 DEF SelectDue, Crash, notifyApproved, vars, orderVars, formVars, NewNumber, Subscribed
<1>4. CASE Tick
  <2>1. UNCHANGED <<status, sub, change>>
    BY <1>4 DEF Tick
  <2>2. \A t \in Link : link'[t].page \in {link[t].page, "expired"}
    <3>1. \A l \in LinkRow : Aged(l).page \in {l.page, "expired"}
      BY DEF Aged, LinkRow
    <3>2. QED
      BY <1>4, <3>1 DEF Tick, TypeOK, FormsTypeOK
  <2>3. form' # NONE => form # NONE /\ form'.page = form.page
    BY <1>4 DEF Tick, TimedOut, FormRow, TypeOK, FormsTypeOK
  <2>4. QED
    BY <2>1, <2>2, <2>3 DEF NewNumber, Subscribed
<1>5. CASE \/ AdminStep \/ handleDisableAccount \/ handleReactivateAccount
           \/ \E s \in Slot : LockManifest(s)
  BY <1>5 DEF AdminStep, Approve, Reject, CreateOrUpdate, UpdateConfig, handleDisableAccount,
     handleReactivateAccount, SetStatus, LockManifest, orderVars, formVars, others, NewNumber,
     Subscribed
<1>6. QED
  BY <1>1, <1>2, <1>3, <1>4, <1>5 DEF Next

LEMMA OneSlotStep ==
    ASSUME TypeOK, BatchDue, NewNumber, [Next]_vars, \A s \in Slot : Subscribed(s)'
    PROVE  \/ \A s \in Slot : Subscribed(s)
           \/ \E s \in Slot, o \in Order, routing \in BOOLEAN : CreateOrUpdate(s, o, routing)
           \/ IsForm("register") /\ status # "ABSENT"
<1>1. CASE UNCHANGED sub
  BY <1>1 DEF Subscribed
<1>2. CASE Register
  <2>1. CASE status = "ABSENT"
    <3>1. PICK s \in Slot : s # form.slot
      BY DEF Slot
    <3>2. sub'[s] = sub[s]
      BY <1>2, <3>1 DEF Register, Upserted, TypeOK, TablesTypeOK
    <3>3. QED
      BY <2>1, <3>2 DEF NewNumber, Subscribed
  <2>2. QED
    BY <1>2, <2>1 DEF Register
<1>3. ASSUME NEW slots \in SUBSET Slot, Approve(slots)
      PROVE  \A s \in Slot : Subscribed(s)
  BY <1>3 DEF Approve, Subscribed
<1>4. ASSUME NEW k \in Change, applyOneChange(k)
      PROVE  FALSE
  <2>1. PICK s \in Slot : s # change[k].slot
    BY DEF Slot
  <2>2. sub'[s] = NONE
    BY <1>4, <2>1 DEF applyOneChange, SlotsAfter
  <2>3. QED
    BY <2>2 DEF Subscribed
<1>5. QED
  BY <1>1, <1>2, <1>3, <1>4
     DEF Next, FormStep, LinkStep, GenerateToken, SubmitRegistration, SubmitUpdate, SubmitOverride,
     Sent, WriteOverride, StageChange, Abandon, orderVars, ChangeStep, ApprovePendingChange,
     RejectPendingChange, ApplyFails, AdminStep, Reject, UpdateConfig, handleDisableAccount,
     handleReactivateAccount, SetStatus, LockManifest, SelectDue, Tick, Crash, notifyApproved, vars

(* A second slot comes from an admin's edit or from a registration of a    *)
(* number registered before, whatever else happens (registration.Submit,   *)
(* update.Submit, applyOneChange, CreateOrUpdate). *)
THEOREM OneSlot == Spec => OneSlotPerCustomer
<1>1. Init => NewNumber
  <2> SUFFICES ASSUME Init
               PROVE  NewNumber
    OBVIOUS
  <2>1. \A t \in Link : link[t].page = "unasked"
    BY DEF Init, FormsInit
  <2>2. QED
    BY <2>1 DEF Init, TablesInit, FormsInit, NewNumber, Subscribed
<1>2. TypeOK /\ BatchDue /\ NewNumber /\ [Next]_vars => NewNumber'
  BY NewNumberStep
<1>3. TypeOK /\ BatchDue /\ NewNumber /\ [Next]_vars =>
          [(\A s \in Slot : Subscribed(s))' =>
              \/ \A s \in Slot : Subscribed(s)
              \/ \E s \in Slot, o \in Order, routing \in BOOLEAN : CreateOrUpdate(s, o, routing)
              \/ IsForm("register") /\ status # "ABSENT"]_vars
  BY OneSlotStep DEF Subscribed
<1>4. QED
  BY <1>1, <1>2, <1>3, OrderTypeCorrect, PTL DEF Spec, OneSlotPerCustomer

-----------------------------------------------------------------------------
(* A locked round is closed.                                               *)

(* A form for today's order was read before the cutoff it saw. *)
FormInTime ==
    IsForm("override") /\ form.date = day /\ ~form.old => hour < form.cutoff

LEMMA FormInTimeStep ==
    ASSUME TypeOK, FormInTime, [Next]_vars
    PROVE  FormInTime'
<1>1. CASE Tick
  BY <1>1 DEF Tick, TimedOut, FormInTime, IsForm, FormRow, TypeOK, FormsTypeOK
<1>2. CASE form' = NONE
  BY <1>2 DEF FormInTime, IsForm
<1>3. CASE UNCHANGED <<form, day, hour>>
  BY <1>3 DEF FormInTime, IsForm
<1>4. ASSUME NEW t \in Link, NEW s \in Slot, NEW d \in Day, NEW q \in Items \cup {NONE},
             SubmitOverride(t, s, d, q)
      PROVE  FormInTime'
  <2>1. form'.date = d /\ form'.cutoff = cutoff[s] /\ UNCHANGED <<day, hour>>
    BY <1>4 DEF SubmitOverride, Sent, clockVars
  <2>2. cutoff[s] \in Int /\ hour \in Int
    BY CutoffAssumption, OrderAssumption DEF TypeOK, TablesTypeOK
  <2>3. d = day => hour < cutoff[s]
    BY <1>4, <2>2 DEF SubmitOverride, Passed
  <2>4. QED
    BY <2>1, <2>3 DEF FormInTime
<1>5. ASSUME NEW t \in Link, NEW s \in Slot, NEW o \in Order,
             SubmitRegistration(t, s, o) \/ SubmitUpdate(t, s, o)
      PROVE  FormInTime'
  BY <1>5 DEF SubmitRegistration, SubmitUpdate, Opens, Sent, FormInTime, IsForm
<1>6. CASE FormStep
  BY <1>2, <1>3, <1>4, <1>5, <1>6
     DEF FormStep, LinkStep, GenerateToken, Register, WriteOverride, StageChange, Abandon, clockVars
<1>7. CASE \/ AdminStep \/ handleDisableAccount \/ handleReactivateAccount
           \/ \E s \in Slot : LockManifest(s)
  BY <1>3, <1>7, DeskTyped DEF clockVars, formVars
<1>8. CASE \/ \E k \in Change : ChangeStep(k)
           \/ SelectDue \/ Crash \/ notifyApproved \/ UNCHANGED vars
  BY <1>2, <1>3, <1>8 DEF ChangeStep, ApprovePendingChange, RejectPendingChange, applyOneChange,
     ApplyFails, SelectDue, Crash, notifyApproved, vars, clockVars, formVars
<1>9. QED
  BY <1>1, <1>6, <1>7, <1>8 DEF Next

LEMMA OverrideMoves ==
    ASSUME TypeOK, [Next]_vars, day' = day, NEW s \in Slot, override'[s][day] # override[s][day]
    PROVE  \/ WriteOverride /\ form.slot = s /\ form.date = day
           \/ \E k \in Change : applyOneChange(k)
<1>0. day \in Day /\ day + 1 # day
  BY DEF TypeOK, TablesTypeOK, Day
<1>1. CASE WriteOverride
  BY <1>0, <1>1 DEF WriteOverride, TypeOK, TablesTypeOK
<1>2. CASE Tick
  BY <1>0, <1>2 DEF Tick
<1>3. CASE UNCHANGED override
  BY <1>3
<1>4. QED
  BY <1>1, <1>2, <1>3
     DEF Next, FormStep, LinkStep, GenerateToken, SubmitRegistration, SubmitUpdate, SubmitOverride,
     Sent, Register, StageChange, Abandon, orderVars, ChangeStep, ApprovePendingChange,
     RejectPendingChange, ApplyFails, AdminStep, Approve, CreateOrUpdate, Reject, UpdateConfig,
     handleDisableAccount, handleReactivateAccount, SetStatus, LockManifest, SelectDue, Crash,
     notifyApproved, vars

LEMMA ClosedStep ==
    ASSUME ReviewInv, FormInTime, [Next]_vars, NEW s \in Slot, locked[s], day' = day,
           override'[s][day] # override[s][day]
    PROVE  \/ /\ form # NONE /\ form.slot = s /\ form.date = day
              /\ (form.old \/ form.cutoff # cutoff[s])
           \/ hour < cutoff[s]
           \/ failed
<1> USE DEF ReviewInv
<1>1. CASE WriteOverride /\ form.slot = s /\ form.date = day
  BY <1>1 DEF FormInTime, WriteOverride, IsForm
<1>2. ASSUME NEW k \in Change, applyOneChange(k)
      PROVE  failed
  <2>1. Due(k)
    BY <1>2 DEF applyOneChange, BatchDue
  <2>2. QED
    BY <2>1, DueBeforeLock DEF TypeOK, TablesTypeOK, ChangesReachTheRound
<1>3. QED
  BY <1>1, <1>2, OverrideMoves

(* Once a round is locked, a page changes its overrides only with what it  *)
(* read before the clock or the cutoff moved (Submit, LockManifest,        *)
(* applyOneChange). *)
THEOREM ClosedRounds == Spec => RoundClosed
<1>1. Init => FormInTime
  BY DEF Init, FormsInit, FormInTime, IsForm
<1>2. ReviewInv /\ FormInTime /\ [Next]_vars => FormInTime'
  BY FormInTimeStep DEF ReviewInv
<1>3. ReviewInv /\ FormInTime /\ [Next]_vars =>
          [\A s \in Slot :
              locked[s] /\ day' = day /\ override'[s][day] # override[s][day] =>
                  \/ form # NONE /\ form.slot = s /\ form.date = day
                     /\ (form.old \/ form.cutoff # cutoff[s])
                  \/ hour < cutoff[s]
                  \/ failed]_vars
  BY ClosedStep
<1>4. QED
  BY <1>1, <1>2, <1>3, ReviewInvariant, PTL DEF Spec, RoundClosed
-----------------------------------------------------------------------------
(* The requests implement the book of changes.                             *)

(* A change is staged only when no other one waits. *)
LEMMA StagedAlone ==
    ASSUME TypeOK, BatchDue, [Next]_vars, NEW k \in Change, Staged(k)
    PROVE  \A j \in Change : ~IsChange(j, "PENDING")
<1>0. change'[k] # change[k]
  BY DEF Staged, IsChange
<1>1. CASE StageChange
  BY <1>0, <1>1 DEF StageChange
<1>2. CASE \E j \in Change : ChangeStep(j)
  <2>1. PICK j \in Change : ChangeStep(j)
    BY <1>2
  <2>2. change[j] # NONE \/ change' = change
    BY <2>1 DEF ChangeStep, ApprovePendingChange, RejectPendingChange, applyOneChange, ApplyFails,
       BatchDue, Due, IsChange
  <2>3. change'[k] = change[k] \/ k = j
    BY <2>1 DEF ChangeStep, ApprovePendingChange, RejectPendingChange, applyOneChange, ApplyFails,
       TypeOK, TablesTypeOK
  <2>4. QED
    BY <1>0, <2>2, <2>3 DEF Staged
<1>3. CASE change' = change
  BY <1>0, <1>3
<1>4. QED
  BY <1>1, <1>2, <1>3
     DEF Next, FormStep, LinkStep, GenerateToken, SubmitRegistration, SubmitUpdate, SubmitOverride,
     Sent, Register, WriteOverride, Abandon, AdminStep, Approve, CreateOrUpdate, Reject,
     UpdateConfig, handleDisableAccount, handleReactivateAccount, SetStatus, LockManifest,
     SelectDue, Tick, Crash, notifyApproved, vars

LEMMA EntryOfRow ==
    ASSUME NEW row,
           row # NONE =>
              /\ row \in ChangeRow
              /\ row.status \in {"APPROVED", "APPLIED"} <=> row.effective # NONE
    PROVE  /\ row = NONE => EntryOf(row) = Book!Entry("blank", NONE)
           /\ row # NONE => EntryOf(row) = Book!Entry(Standing[row.status], row.effective)
           /\ row # NONE /\ row.status \in {"PENDING", "REJECTED"} =>
                 EntryOf(row) = Book!Entry(Standing[row.status], NONE)
           /\ EntryOf(row).standing = "waiting" => row # NONE /\ row.status = "PENDING"
<1>1. row # NONE => row.status \in ReviewStatus
  BY DEF ChangeRow
<1>2. QED
  BY <1>1 DEF EntryOf, Book!Entry, Standing, ReviewStatus

LEMMA BookMoves ==
    ASSUME TypeOK, TypeOK', BatchDue, [Next]_vars, NEW k \in Change, Only(k), UNCHANGED day,
           Staged(k) \/ Refused(k) \/ Accepted(k) \/ Applied(k)
    PROVE  Book!BookNext
<1>1. /\ DOMAIN Entries = Change /\ Entries[k] = EntryOf(change[k])
      /\ Entries'[k] = EntryOf(change'[k])
      /\ Entries' = [Entries EXCEPT ![k] = EntryOf(change'[k])]
  BY DEF Only, Entries
<1>2. ASSUME NEW j \in Change
      PROVE  /\ change[j] # NONE =>
                   /\ change[j] \in ChangeRow
                   /\ change[j].status \in {"APPROVED", "APPLIED"} <=> change[j].effective # NONE
             /\ change'[j] # NONE =>
                   /\ change'[j] \in ChangeRow
                   /\ change'[j].status \in {"APPROVED", "APPLIED"} <=> change'[j].effective # NONE
  BY DEF TypeOK, TablesTypeOK
<1>3. CASE Staged(k)
  <2>1. Entries[k].standing = "blank" /\ EntryOf(change'[k]) = Book!Entry("waiting", NONE)
    BY <1>1, <1>2, <1>3, EntryOfRow DEF Staged, IsChange, Standing, Book!Entry
  <2>2. \A j \in Change : Entries[j].standing # "waiting"
    BY <1>2, <1>3, StagedAlone, EntryOfRow DEF Entries, IsChange
  <2>3. Book!Ask(k)
    BY <1>1, <2>1, <2>2 DEF Book!Ask, Book!Waiting
  <2>4. QED
    BY <2>3 DEF Book!BookNext
<1>4. CASE Refused(k)
  <2>1. Entries[k].standing = "waiting" /\ EntryOf(change'[k]) = Book!Entry("declined", NONE)
    BY <1>1, <1>2, <1>4, EntryOfRow DEF Refused, IsChange, Standing, Book!Entry
  <2>2. Book!Decline(k)
    BY <1>1, <2>1 DEF Book!Decline
  <2>3. QED
    BY <2>2 DEF Book!BookNext
<1>5. CASE Accepted(k)
  <2>1. /\ Entries[k].standing = "waiting"
        /\ EntryOf(change'[k]) = Book!Entry("accepted", day + 1)
    BY <1>1, <1>2, <1>5, EntryOfRow DEF Accepted, IsChange, Standing, Book!Entry
  <2>2. Book!Accept(k)
    BY <1>1, <2>1 DEF Book!Accept
  <2>3. QED
    BY <2>2 DEF Book!BookNext
<1>6. CASE Applied(k)
  <2>1. /\ Entries[k] = Book!Entry("accepted", change[k].effective)
        /\ EntryOf(change'[k]) = Book!Entry("inForce", change[k].effective)
    BY <1>1, <1>2, <1>6, EntryOfRow DEF Applied, Due, IsChange, Standing
  <2>2. day >= change[k].effective
    <3>1. change[k].effective \in Int /\ day \in Int
      BY <1>2, <1>6 DEF Applied, Due, IsChange, ChangeRow, TypeOK, TablesTypeOK, Day
    <3>2. QED
      BY <1>6, <3>1 DEF Applied, Due
  <2>3. /\ Entries[k].standing = "accepted" /\ Entries[k].from = change[k].effective
        /\ [Entries[k] EXCEPT !.standing = "inForce"] = EntryOf(change'[k])
    BY <2>1 DEF Book!Entry
  <2>4. Book!ComeIntoForce(k)
    BY <1>1, <2>2, <2>3 DEF Book!ComeIntoForce
  <2>5. QED
    BY <2>4 DEF Book!BookNext
<1>7. QED
  BY <1>3, <1>4, <1>5, <1>6

(* One change waits at a time, and an approved one comes into force once   *)
(* and not before the day after its approval, through forms sent twice,    *)
(* sweeps begun anew and crashes (update.Submit, ApprovePendingChange,     *)
(* RejectPendingChange, applyDueChanges). *)
THEOREM ReviewImplementsBook == Spec => ChangesFollowTheBook
<1>1. Init => Book!BookInit
  BY DEF Init, TablesInit, Book!BookInit, Book!Entry, Entries, EntryOf
<1>2. TypeOK /\ BatchDue /\ TypeOK' /\ [Next]_vars => [Book!BookNext]_(Book!bookVars)
  <2> SUFFICES ASSUME TypeOK, BatchDue, TypeOK', [Next]_vars
               PROVE  [Book!BookNext]_(Book!bookVars)
    OBVIOUS
  <2>1. CASE ChangeKept
    <3>1. Entries' = Entries
      BY <2>1 DEF ChangeKept, Entries
    <3>2. day' = day \/ day' = day + 1
      BY DayGrows
    <3>3. QED
      BY <3>1, <3>2 DEF Book!BookNext, Book!Midnight, Book!bookVars
  <2>2. QED
    BY <2>1, StepMoves, BookMoves DEF ChangeMoves
<1>3. QED
  BY <1>1, <1>2, OrderTypeCorrect, PTL DEF Spec, ChangesFollowTheBook, Book!BookSpec

-----------------------------------------------------------------------------
(* The first delivery a customer is told of takes place, for any orders    *)
(* and for any cutoffs no earlier than those the message assumes.          *)

(* A promise is of a routed order of an active customer, due on that day,  *)
(* and if its round is locked, the stop was planned. *)
Backed ==
    promise # NONE =>
        /\ promise.day >= day
        /\ status = "active" /\ Subscribed(promise.slot) /\ sub[promise.slot].routed
        /\ dueOn(sub[promise.slot].order, promise.day)

PromiseInv == Backed /\ PromiseKept

(* A stop that was promised is planned when its round is locked. *)
LEMMA PromisedIsPlanned ==
    ASSUME TypeOK, Backed, promise # NONE, promise.day = day,
           override[promise.slot][day] = NONE
    PROVE  PlanNow(promise.slot) # NONE
<1> DEFINE s == promise.slot
           o == sub[s].order
<1>1. s \in Slot /\ sub[s] \in SubscriptionRow /\ day \in Day
  BY DEF Backed, Subscribed, TypeOK, TablesTypeOK
<1>2. PICK p \in Product : o.qty[p] > 0 /\ ItemDue(o, p, day)
  BY PromisedIsDue DEF Backed, AnyItemDue
<1>3. OnRound(s)
  BY <1>2 DEF Backed, OnRound, HasStop, AnyItemDue, ScheduledQty
<1>4. PlannedOrder(o, override[s][day], day) \in [Product -> Nat]
  BY <1>1 DEF PlannedOrder, ScheduledQty, SubscriptionRow, StandingOrder
<1>5. PlanNow(s) = [qty |-> PlannedOrder(o, override[s][day], day), from |-> sub[s].from]
  BY <1>3 DEF PlanNow
<1>6. PlanNow(s) \in PlanRow
  BY <1>1, <1>4, <1>5 DEF PlanRow, SubscriptionRow
<1>7. QED
  BY <1>6, OrderAssumption

LEMMA PromiseStep ==
    ASSUME ReviewInv, PromiseInv, TypeOK', [Next]_vars
    PROVE  PromiseInv'
<1> USE DEF ReviewInv, PromiseInv
<1> SUFFICES ASSUME promise' # NONE
             PROVE  PromiseInv'
  BY DEF Backed, PromiseKept
<1>1. CASE notifyApproved
  <2>1. /\ UNCHANGED <<clockVars, orderVars, roundVars>>
        /\ status = "active" /\ FirstDelivery # NONE /\ promise' = FirstDelivery
    BY <1>1 DEF notifyApproved
  <2>2. /\ promise'.slot \in Slot /\ promise'.day = NextOf(promise'.slot)
        /\ NextOf(promise'.slot) # NONE
    BY <2>1, FirstDeliveryDue
  <2>3. /\ promise'.day \in Nat /\ promise'.day >= day
        /\ promise'.day = day => hour < cutoffHour(promise'.slot)
        /\ Subscribed(promise'.slot) /\ sub[promise'.slot].routed
        /\ dueOn(sub[promise'.slot].order, promise'.day)
    BY <2>2, NextOfDue
  <2>4. locked[promise'.slot] => ~(hour < cutoffHour(promise'.slot))
    BY <2>2, OrderAssumption DEF LockedLate, cutoffHour, TypeOK, TablesTypeOK
  <2>5. UNCHANGED <<day, status, sub, locked>>
    BY <2>1 DEF clockVars, orderVars, roundVars
  <2>6. Backed'
    BY <2>1, <2>3, <2>5 DEF Backed, Subscribed
  <2>7. PromiseKept'
    BY <2>3, <2>4, <2>5 DEF PromiseKept
  <2>8. QED
    BY <2>6, <2>7
<1>2. CASE UNCHANGED vars
  <2>1. UNCHANGED <<promise, day, status, sub, override, locked, plan>>
    BY <1>2 DEF vars, clockVars, orderVars, roundVars
  <2>2. QED
    BY <2>1 DEF Backed, PromiseKept, Subscribed
<1>3. CASE History
  <2>1. promise' = promise /\ promise.day >= day' /\ (UNCHANGED orderVars \/ day' # day)
    BY <1>3 DEF History
  <2>2. promise.slot \in Slot
    BY <2>1 DEF TypeOK
  <2>3. CASE day' # day
    <3>1. Tick /\ \A s \in Slot : ~locked'[s]
      BY <2>3, DayGrows
    <3>2. UNCHANGED <<status, sub>>
      BY <3>1 DEF Tick
    <3>3. QED
      BY <2>1, <2>2, <3>1, <3>2 DEF Backed, PromiseKept, Subscribed
  <2>4. CASE day' = day /\ UNCHANGED orderVars
    <3>1. UNCHANGED <<day, status, sub, override>>
      BY <2>4 DEF orderVars
    <3>2. Backed'
      BY <2>1, <3>1 DEF Backed, Subscribed
    <3>3. ASSUME promise.day = day, locked'[promise.slot], override[promise.slot][day] = NONE
          PROVE  plan'[promise.slot] # NONE
      <4>1. CASE /\ locked'[promise.slot] = locked[promise.slot]
                 /\ plan'[promise.slot] = plan[promise.slot]
        BY <2>1, <3>3, <4>1 DEF PromiseKept
      <4>2. CASE plan'[promise.slot] = PlanNow(promise.slot)
        BY <2>1, <3>3, <4>2, PromisedIsPlanned
      <4>3. QED
        BY <2>2, <3>3, <4>1, <4>2, LockMoves
    <3>4. PromiseKept'
      BY <2>1, <3>1, <3>3 DEF PromiseKept
    <3>5. QED
      BY <3>2, <3>4
  <2>5. QED
    BY <2>1, <2>3, <2>4
<1>4. QED
  BY <1>1, <1>2, <1>3 DEF Next

(* If nothing a promised first delivery was worked out from has changed    *)
(* when its round is locked, the customer has a stop on it: the Go mirror  *)
(* and its assumed cutoffs never promise what SQL and the configured ones  *)
(* do not deliver (notifyApproved, NextDelivery; item_due_on,              *)
(* LockManifest). *)
THEOREM PromisesKept == Spec => []PromiseKept
<1>1. Init => PromiseInv
  BY DEF Init, PromiseInv, Backed, PromiseKept
<1>2. ReviewInv /\ ReviewInv' /\ PromiseInv /\ [Next]_vars => PromiseInv'
  BY PromiseStep DEF ReviewInv
<1>3. QED
  BY <1>1, <1>2, ReviewInvariant, PTL DEF Spec, PromiseInv
=============================================================================

------------------------------- MODULE Rounds -------------------------------
(***************************************************************************)
(* One round: one route and slot on one date, from the hours when orders   *)
(* are still open to the next morning.  The lock sweeper writes a PENDING  *)
(* row with a frozen plan per due stop; the driver's app reports what      *)
(* happened at each stop, offline and late if need be; closing turns what  *)
(* is still PENDING into UNATTEMPTED, for EndShift and for the auto-end    *)
(* sweeper; starting again reopens it; an admin corrects anything.         *)
(*                                                                         *)
(* A statement outside a transaction is a step of its own.  Delivered      *)
(* quantities, prices, positions and complaints are left out; what an      *)
(* order comes to on the date (override, else what the schedule makes due  *)
(* for an active customer) is one number.                                  *)
(***************************************************************************)
EXTENDS Naturals

CONSTANTS
    Customer,   \* the customers with a stop on the route, stop_order > 0
    Driver,
    MaxOrder,   \* bound: orders and plans are 0..MaxOrder
    Decision,   \* what a driver can say of a stop; of AnyDecision
    Fallible,   \* TRUE: the process may crash or be down, a statement may fail
    Request,    \* what the admin does, of AnyRequest
    NONE        \* SQL NULL

AnyDecision == {"DELIVERED", "SKIPPED", "FAILED"}

AnyRequest == {"Update", "AdminUpsert", "EditPlannedOrder", "UpdateDriver"}

ASSUME RoundsAssumption ==
    /\ Decision \subseteq AnyDecision
    /\ Request \subseteq AnyRequest
    /\ MaxOrder \in Nat
    /\ Fallible \in BOOLEAN
    /\ NONE \notin AnyDecision /\ NONE \notin Driver /\ NONE \notin 0..MaxOrder

VARIABLES
    clock,      \* before the order cutoff, after it, after the shift end, after midnight
    order,      \* what each customer's order comes to on the date; 0: nothing due
    locked,     \* manifest_locks has the round's row
    log,        \* delivery_logs: status, planned_order, and whether route_id is this route
    assigned,   \* route_slot_drivers.driver_id
    shift,      \* shifts: status and reopened_at of each driver's shift
    said,       \* the app: what the driver recorded at each stop
    starting,   \* StartShift requests between their two statements
    closing,    \* CloseRouteForSlot calls under way, per caller and driver
    sweeper,    \* sweepAutoEnd between its two statements
    swept,      \* the auto-end sweeper has looked since the shift end
    failed,     \* history: something failed, or the process was down
    corrected   \* history: flips whenever an admin sets the status of the stop

roundVars == <<clock, order, locked, log, assigned, shift, said,
               starting, closing, sweeper, swept, failed, corrected>>

Order  == 0..MaxOrder
Clock  == {"open", "cutoff", "shiftEnd", "over"}
Status == {"ABSENT", "PENDING", "UNATTEMPTED", "SYSTEM_AUTO_CLOSED"} \cup Decision
Stop   == [status : Status, plan : Order \cup {NONE}, onRoute : BOOLEAN]
Shift  == [status : {"NONE", "ACTIVE", "ENDED", "AUTO_ENDED"}, reopened : BOOLEAN]
Caller == {"EndShift", "sweepAutoEnd"}
Phase  == {"none", "route", "insert", "update"}

NoStop == [status |-> "ABSENT", plan |-> NONE, onRoute |-> FALSE]

Init ==
    /\ clock = "open"
    /\ order \in [Customer -> Order]
    /\ locked = FALSE
    /\ log = [c \in Customer |-> NoStop]
    /\ assigned \in Driver \cup {NONE}
    /\ shift = [d \in Driver |-> [status |-> "NONE", reopened |-> FALSE]]
    /\ said = [c \in Customer |-> NONE]
    /\ starting = [d \in Driver |-> FALSE]
    /\ closing = [w \in Caller |-> [d \in Driver |-> "none"]]
    /\ sweeper = [listing |-> FALSE, drivers |-> {}]
    /\ swept = FALSE
    /\ failed = FALSE
    /\ corrected = [c \in Customer |-> FALSE]

-----------------------------------------------------------------------------
(* Orders and the lock.                                                    *)

(* Overrides, subscription changes, pauses, suspensions, approvals: all of *)
(* them may change what an order comes to, and most of them at any time.   *)
OrderChanges(c, q) ==
    /\ order' = [order EXCEPT ![c] = q]
    /\ UNCHANGED <<clock, locked, log, assigned, shift, said, starting, closing,
                   sweeper, swept, failed, corrected>>

(* One transaction: claim the round, then write a row for every due stop   *)
(* that has none.  A round somebody claimed before is left alone.          *)
LockManifest ==
    /\ clock \in {"cutoff", "shiftEnd"}
    /\ ~locked
    /\ locked' = TRUE
    /\ log' = [c \in Customer |->
                  IF log[c].status = "ABSENT" /\ order[c] > 0
                  THEN [status |-> "PENDING", plan |-> order[c], onRoute |-> TRUE]
                  ELSE log[c]]
    /\ UNCHANGED <<clock, order, assigned, shift, said, starting, closing,
                   sweeper, swept, failed, corrected>>

(* The admin rewrites the plan of a locked row. *)
EditPlannedOrder(c, q) ==
    /\ "EditPlannedOrder" \in Request
    /\ log[c].plan # NONE
    /\ log' = [log EXCEPT ![c].plan = q]
    /\ UNCHANGED <<clock, order, locked, assigned, shift, said, starting, closing,
                   sweeper, swept, failed, corrected>>

-----------------------------------------------------------------------------
(* The driver's app.  It keeps what the driver recorded until the server   *)
(* has answered, and sends it as often as it takes, also days later.  A    *)
(* stop recorded once is finished in the app.                              *)
Record(c, s) ==
    /\ said[c] = NONE
    /\ said' = [said EXCEPT ![c] = s]
    /\ UNCHANGED <<clock, order, locked, log, assigned, shift, starting, closing,
                   sweeper, swept, failed, corrected>>

(* Mutant: the upsert replaces the whole row. *)
LogDeliveryReplacing(c) ==
    /\ said[c] # NONE
    /\ log' = [log EXCEPT ![c] = [status |-> said[c], plan |-> NONE, onRoute |-> TRUE]]
    /\ UNCHANGED <<clock, order, locked, assigned, shift, said, starting, closing,
                   sweeper, swept, failed, corrected>>

(* ON CONFLICT ... DO UPDATE SET status = EXCLUDED.status: whatever the row *)
(* has become, and without the plan. *)
LogDelivery(c) ==
    /\ said[c] # NONE
    /\ log' = [log EXCEPT ![c] = [@ EXCEPT !.status = said[c], !.onRoute = TRUE]]
    /\ UNCHANGED <<clock, order, locked, assigned, shift, said, starting, closing,
                   sweeper, swept, failed, corrected>>

AdminStatus == Decision \cup {"UNATTEMPTED", "SYSTEM_AUTO_CLOSED"}

(* The admin corrects an existing row, ... *)
Update(c, s) ==
    /\ "Update" \in Request
    /\ log[c].status # "ABSENT"
    /\ log' = [log EXCEPT ![c].status = s]
    /\ corrected' = [corrected EXCEPT ![c] = ~@]
    /\ UNCHANGED <<clock, order, locked, assigned, shift, said, starting, closing,
                   sweeper, swept, failed>>

(* ... or enters one; without a routeId in the request, route_id is NULLed. *)
AdminUpsert(c, s, withRoute) ==
    /\ "AdminUpsert" \in Request
    /\ log' = [log EXCEPT ![c] = [@ EXCEPT !.status = s, !.onRoute = withRoute]]
    /\ corrected' = [corrected EXCEPT ![c] = ~@]
    /\ UNCHANGED <<clock, order, locked, assigned, shift, said, starting, closing,
                   sweeper, swept, failed>>

UpdateDriver(d) ==
    /\ "UpdateDriver" \in Request
    /\ assigned' = d
    /\ UNCHANGED <<clock, order, locked, log, shift, said, starting, closing,
                   sweeper, swept, failed, corrected>>

-----------------------------------------------------------------------------
(* Shifts.  StartShift and EndShift work on today's shift: after midnight  *)
(* on another one.                                                         *)

(* Mutant: the upsert does not set reopened_at. *)
StartShiftAsNew(d) ==
    /\ clock # "over"
    /\ ~starting[d]
    /\ starting' = [starting EXCEPT ![d] = TRUE]
    /\ shift' = [shift EXCEPT ![d] = [@ EXCEPT !.status = "ACTIVE"]]
    /\ UNCHANGED <<clock, order, locked, log, assigned, said, closing,
                   sweeper, swept, failed, corrected>>

StartShift(d) ==
    /\ clock # "over"
    /\ ~starting[d]
    /\ starting' = [starting EXCEPT ![d] = TRUE]
    /\ shift' = [shift EXCEPT ![d] =
                    [status |-> "ACTIVE",
                     reopened |-> \/ shift[d].reopened
                                  \/ shift[d].status \in {"ENDED", "AUTO_ENDED"}]]
    /\ UNCHANGED <<clock, order, locked, log, assigned, said, closing,
                   sweeper, swept, failed, corrected>>

(* Mutant: without AND dl.status = 'UNATTEMPTED'. *)
reopenRoundWhole(d) ==
    /\ starting[d]
    /\ starting' = [starting EXCEPT ![d] = FALSE]
    /\ log' = IF assigned = d
              THEN [c \in Customer |->
                       IF log[c].onRoute
                       THEN [log[c] EXCEPT !.status = "PENDING"] ELSE log[c]]
              ELSE log
    /\ UNCHANGED <<clock, order, locked, assigned, shift, said, closing,
                   sweeper, swept, failed, corrected>>

(* UPDATE ... SET status = 'PENDING' ... AND dl.status = 'UNATTEMPTED' *)
reopenRound(d) ==
    /\ starting[d]
    /\ starting' = [starting EXCEPT ![d] = FALSE]
    /\ log' = IF assigned = d
              THEN [c \in Customer |->
                       IF log[c].onRoute /\ log[c].status = "UNATTEMPTED"
                       THEN [log[c] EXCEPT !.status = "PENDING"] ELSE log[c]]
              ELSE log
    /\ UNCHANGED <<clock, order, locked, assigned, shift, said, closing,
                   sweeper, swept, failed, corrected>>

(* A reopening that fails is logged, and the shift is active all the same. *)
ReopenFails(d) ==
    /\ Fallible
    /\ starting[d]
    /\ starting' = [starting EXCEPT ![d] = FALSE]
    /\ failed' = TRUE
    /\ UNCHANGED <<clock, order, locked, log, assigned, shift, said, closing,
                   sweeper, swept, corrected>>

(* The UPDATE ends an active shift only; the round is closed in any case. *)
EndShift(d) ==
    /\ clock # "over"
    /\ closing["EndShift"][d] = "none"
    /\ shift' = IF shift[d].status = "ACTIVE"
                THEN [shift EXCEPT ![d].status = "ENDED"] ELSE shift
    /\ closing' = [closing EXCEPT !["EndShift"][d] = "route"]
    /\ UNCHANGED <<clock, order, locked, log, assigned, said, starting,
                   sweeper, swept, failed, corrected>>

-----------------------------------------------------------------------------
(* CloseRouteForSlot, three statements: the driver's route, ...            *)

Closed(w, d, next) == closing' = [closing EXCEPT ![w][d] = next]

CloseRouteOf(w, d) ==
    /\ closing[w][d] = "route"
    /\ w = "sweepAutoEnd" =>      \* one driver after the other
          \A e \in Driver : closing[w][e] \notin {"insert", "update"}
    /\ Closed(w, d, IF assigned = d THEN "insert" ELSE "none")
    /\ UNCHANGED <<clock, order, locked, log, assigned, shift, said, starting,
                   sweeper, swept, failed, corrected>>

(* ... a row for every due stop that has none, ... *)
InsertUnattempted(w, d) ==
    /\ closing[w][d] = "insert"
    /\ log' = [c \in Customer |->
                  IF log[c].status = "ABSENT" /\ order[c] > 0
                  THEN [status |-> "UNATTEMPTED", plan |-> NONE, onRoute |-> TRUE]
                  ELSE log[c]]
    /\ Closed(w, d, "update")
    /\ UNCHANGED <<clock, order, locked, assigned, shift, said, starting,
                   sweeper, swept, failed, corrected>>

(* Mutant: a status the other handlers do not know. *)
ClosePendingMisnamed(w, d) ==
    /\ closing[w][d] = "update"
    /\ log' = [c \in Customer |->
                  IF log[c].onRoute /\ log[c].status = "PENDING"
                  THEN [log[c] EXCEPT !.status = "MISSED"] ELSE log[c]]
    /\ Closed(w, d, "none")
    /\ UNCHANGED <<clock, order, locked, assigned, shift, said, starting,
                   sweeper, swept, failed, corrected>>

(* ... and UNATTEMPTED for every stop still PENDING. *)
ClosePending(w, d) ==
    /\ closing[w][d] = "update"
    /\ log' = [c \in Customer |->
                  IF log[c].onRoute /\ log[c].status = "PENDING"
                  THEN [log[c] EXCEPT !.status = "UNATTEMPTED"] ELSE log[c]]
    /\ Closed(w, d, "none")
    /\ UNCHANGED <<clock, order, locked, assigned, shift, said, starting,
                   sweeper, swept, failed, corrected>>

CloseFails(w, d) ==
    /\ Fallible
    /\ closing[w][d] # "none"
    /\ Closed(w, d, "none")
    /\ failed' = TRUE
    /\ UNCHANGED <<clock, order, locked, log, assigned, shift, said, starting,
                   sweeper, swept, corrected>>

-----------------------------------------------------------------------------
(* The auto-end sweeper: the drivers of active shifts that were never      *)
(* restarted, then the same shifts ended, then their rounds closed.        *)

Stale(d) == shift[d].status = "ACTIVE" /\ ~shift[d].reopened

Sweeping == sweeper.listing \/ \E d \in Driver : closing["sweepAutoEnd"][d] # "none"

ListStale ==
    /\ clock = "shiftEnd"
    /\ ~Sweeping
    /\ sweeper' = [listing |-> TRUE, drivers |-> {d \in Driver : Stale(d)}]
    /\ swept' = TRUE
    /\ UNCHANGED <<clock, order, locked, log, assigned, shift, said, starting,
                   closing, failed, corrected>>

(* Mutant: the rounds of the shifts ended are not closed. *)
AutoEndOnly ==
    /\ sweeper.listing
    /\ sweeper' = [listing |-> FALSE, drivers |-> {}]
    /\ shift' = [d \in Driver |->
                    IF Stale(d) THEN [shift[d] EXCEPT !.status = "AUTO_ENDED"] ELSE shift[d]]
    /\ UNCHANGED <<clock, order, locked, log, assigned, said, starting, closing, swept,
                   failed, corrected>>

AutoEnd ==
    /\ sweeper.listing
    /\ sweeper' = [listing |-> FALSE, drivers |-> {}]
    /\ shift' = [d \in Driver |->
                    IF Stale(d) THEN [shift[d] EXCEPT !.status = "AUTO_ENDED"] ELSE shift[d]]
    /\ closing' = [closing EXCEPT !["sweepAutoEnd"] =
                      [d \in Driver |-> IF d \in sweeper.drivers THEN "route" ELSE @[d]]]
    /\ UNCHANGED <<clock, order, locked, log, assigned, said, starting, swept,
                   failed, corrected>>

AutoEndFails ==
    /\ Fallible
    /\ sweeper.listing
    /\ sweeper' = [listing |-> FALSE, drivers |-> {}]
    /\ failed' = TRUE
    /\ UNCHANGED <<clock, order, locked, log, assigned, shift, said, starting,
                   closing, swept, corrected>>

-----------------------------------------------------------------------------
(* Time.  Both sweepers tick every few minutes while the process is up, so *)
(* that between two hours of the clock the one that is due has run.        *)

OnTime == (clock = "cutoff" => locked) /\ (clock = "shiftEnd" => swept)

Tick ==
    /\ clock # "over"
    /\ OnTime \/ Fallible
    /\ clock' = CASE clock = "open"     -> "cutoff"
                  [] clock = "cutoff"   -> "shiftEnd"
                  [] clock = "shiftEnd" -> "over"
    /\ failed' = (failed \/ ~OnTime)
    /\ UNCHANGED <<order, locked, log, assigned, shift, said, starting, closing,
                   sweeper, swept, corrected>>

Crash ==
    /\ Fallible
    /\ starting' = [d \in Driver |-> FALSE]
    /\ closing' = [w \in Caller |-> [d \in Driver |-> "none"]]
    /\ sweeper' = [listing |-> FALSE, drivers |-> {}]
    /\ failed' = TRUE
    /\ UNCHANGED <<clock, order, locked, log, assigned, shift, said, swept, corrected>>

CloseStep(w, d) ==
    \/ CloseRouteOf(w, d)
    \/ InsertUnattempted(w, d)
    \/ ClosePending(w, d)
    \/ CloseFails(w, d)

SweepStep == ListStale \/ AutoEnd \/ AutoEndFails

StopStep(c) ==
    \/ \E q \in Order : OrderChanges(c, q) \/ EditPlannedOrder(c, q)
    \/ \E s \in Decision : Record(c, s)
    \/ LogDelivery(c)
    \/ \E s \in AdminStatus :
          Update(c, s) \/ \E withRoute \in BOOLEAN : AdminUpsert(c, s, withRoute)

DriverStep(d) ==
    \/ StartShift(d)
    \/ reopenRound(d)
    \/ ReopenFails(d)
    \/ EndShift(d)
    \/ \E w \in Caller : CloseStep(w, d)

Next ==
    \/ LockManifest
    \/ \E c \in Customer : StopStep(c)
    \/ \E d \in Driver : DriverStep(d)
    \/ \E d \in Driver \cup {NONE} : UpdateDriver(d)
    \/ SweepStep
    \/ Tick
    \/ Crash

Spec == Init /\ [][Next]_roundVars

(***************************************************************************)
(* The sweepers tick; a request or a sweep that has begun runs on; time    *)
(* passes.  Nothing makes a driver, a customer or an admin do anything.    *)
(***************************************************************************)
Fairness ==
    /\ WF_roundVars(LockManifest)
    /\ WF_roundVars(SweepStep)
    /\ \A d \in Driver :
          /\ WF_roundVars(reopenRound(d) \/ ReopenFails(d))
          /\ \A w \in Caller : WF_roundVars(CloseStep(w, d))
    /\ WF_roundVars(Tick)

FairSpec == Spec /\ Fairness

-----------------------------------------------------------------------------
(* Type invariant: rows, requests and sweeps have their shape.             *)
TypeOK ==
    /\ clock \in Clock
    /\ order \in [Customer -> Order]
    /\ locked \in BOOLEAN
    /\ log \in [Customer -> Stop]
    /\ assigned \in Driver \cup {NONE}
    /\ shift \in [Driver -> Shift]
    /\ said \in [Customer -> Decision \cup {NONE}]
    /\ starting \in [Driver -> BOOLEAN]
    /\ closing \in [Caller -> [Driver -> Phase]]
    /\ sweeper \in [listing : BOOLEAN, drivers : SUBSET Driver]
    /\ swept \in BOOLEAN
    /\ failed \in BOOLEAN
    /\ corrected \in [Customer -> BOOLEAN]

(* The ledger of decisions the rows stand for. *)
Entry == [c \in Customer |-> IF log[c].status \in Decision THEN log[c].status ELSE NONE]

Ledger == INSTANCE StopLedger WITH entry <- Entry

(* The round implements the ledger: whatever order lock, close, reopen,    *)
(* late reports and corrections come in, a decision is the driver's own or *)
(* an admin's, and neither closing, reopening nor a crash takes it back.   *)
(* (LogDelivery, LockManifest, CloseRouteForSlot, reopenRound)             *)
DecisionsStand == Ledger!LedgerSpec

(* A plan is frozen at the lock: later only the admin's edit changes it,   *)
(* and no delivery, closing, reopening or correction loses or adds one.    *)
(* (LockManifest, and every other write to delivery_logs)                  *)
PlanStands ==
    [][\A c \in Customer :
          log'[c].plan # log[c].plan =>
              \/ ~locked /\ locked' /\ log[c].plan = NONE /\ log'[c].plan = order[c]
              \/ \E q \in Order : EditPlannedOrder(c, q)]_roundVars

(* The sweep lists the shifts to end in one statement, ends them in        *)
(* another, and closes the rounds of those it listed.  A driver who starts *)
(* or restarts between these may have the round closed under an active     *)
(* shift: only one who restarts, never one on a first shift.               *)
(* (sweepAutoEnd, StartShift)                                              *)
SweepSparesFirstShifts ==
    \A d \in Driver :
        closing["sweepAutoEnd"][d] # "none" /\ shift[d].status = "ACTIVE" => shift[d].reopened

(* A driver who started before the shift end and neither ends nor restarts *)
(* it has the round closed for them: each stop locked as PENDING leaves    *)
(* that state, unless the driver restarts, is taken off the route, or      *)
(* something fails. (sweepAutoEnd, EndShift, CloseRouteForSlot)            *)
ForgottenShiftIsClosed ==
    \A c \in Customer, d \in Driver :
        clock = "cutoff" /\ assigned = d /\ Stale(d) /\ log[c].status = "PENDING"
            ~> log[c].status # "PENDING" \/ shift[d].reopened \/ assigned # d \/ failed
=============================================================================

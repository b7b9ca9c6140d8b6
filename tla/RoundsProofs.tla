---------------------------- MODULE RoundsProofs ----------------------------
(***************************************************************************)
(* What holds of a round for any customers, drivers, orders, failures and  *)
(* requests: rows keep their shape, a frozen plan stands, and the round    *)
(* implements the ledger of decisions.                                     *)
(***************************************************************************)
EXTENDS Rounds, TLAPS

LEMMA TypeInit == Init => TypeOK
<1> SUFFICES ASSUME Init
             PROVE  TypeOK
  OBVIOUS
<1>1. log \in [Customer -> Stop]
  BY RoundsAssumption DEF Init, Stop, Status, NoStop
<1>2. shift \in [Driver -> Shift]
  BY DEF Init, Shift
<1>3. closing \in [Caller -> [Driver -> Phase]]
  BY DEF Init, Phase
<1>4. QED
  BY <1>1, <1>2, <1>3 DEF Init, TypeOK, Clock

(* Setting the status of a row leaves a row. *)
LEMMA StatusTyped ==
    ASSUME NEW row \in Stop, NEW s \in Status, NEW r \in BOOLEAN
    PROVE  /\ [row EXCEPT !.status = s] \in Stop
           /\ [row EXCEPT !.status = s, !.onRoute = r] \in Stop
BY DEF Stop

(* Orders, lock and admin. *)
LEMMA TypeDesk ==
    ASSUME TypeOK,
           \/ LockManifest
           \/ \E c \in Customer, q \in Order : OrderChanges(c, q) \/ EditPlannedOrder(c, q)
           \/ \E c \in Customer, s \in AdminStatus :
                 Update(c, s) \/ \E r \in BOOLEAN : AdminUpsert(c, s, r)
           \/ \E d \in Driver \cup {NONE} : UpdateDriver(d)
    PROVE  TypeOK'
<1> USE RoundsAssumption
<1>1. CASE LockManifest
  BY <1>1 DEF LockManifest, TypeOK, Stop, Status, Order
<1>2. ASSUME NEW c \in Customer, NEW q \in Order, OrderChanges(c, q)
      PROVE  TypeOK'
  BY <1>2 DEF OrderChanges, TypeOK
<1>3. ASSUME NEW c \in Customer, NEW q \in Order, EditPlannedOrder(c, q)
      PROVE  TypeOK'
  BY <1>3 DEF EditPlannedOrder, TypeOK, Stop
<1>4. ASSUME NEW c \in Customer, NEW s \in AdminStatus, Update(c, s)
      PROVE  TypeOK'
  <2>1. s \in Status
    BY DEF AdminStatus, Status
  <2>2. log' \in [Customer -> Stop]
    BY <1>4, <2>1, StatusTyped DEF Update, TypeOK
  <2>3. corrected' \in [Customer -> BOOLEAN]
    BY <1>4 DEF Update, TypeOK
  <2>4. QED
    BY <1>4, <2>2, <2>3 DEF Update, TypeOK
<1>5. ASSUME NEW c \in Customer, NEW s \in AdminStatus, NEW r \in BOOLEAN, AdminUpsert(c, s, r)
      PROVE  TypeOK'
  <2>1. s \in Status
    BY DEF AdminStatus, Status
  <2>2. log' \in [Customer -> Stop]
    BY <1>5, <2>1, StatusTyped DEF AdminUpsert, TypeOK
  <2>3. corrected' \in [Customer -> BOOLEAN]
    BY <1>5 DEF AdminUpsert, TypeOK
  <2>4. QED
    BY <1>5, <2>2, <2>3 DEF AdminUpsert, TypeOK
<1>6. ASSUME NEW d \in Driver \cup {NONE}, UpdateDriver(d)
      PROVE  TypeOK'
  BY <1>6 DEF UpdateDriver, TypeOK
<1>7. QED
  BY <1>1, <1>2, <1>3, <1>4, <1>5, <1>6

(* The driver's app and shifts. *)
LEMMA TypeShift ==
    ASSUME TypeOK,
           \/ \E c \in Customer : LogDelivery(c) \/ \E s \in Decision : Record(c, s)
           \/ \E d \in Driver : StartShift(d) \/ reopenRound(d) \/ ReopenFails(d) \/ EndShift(d)
    PROVE  TypeOK'
<1>1. ASSUME NEW c \in Customer, LogDelivery(c)
      PROVE  TypeOK'
  <2>1. said[c] \in Status
    BY <1>1 DEF LogDelivery, TypeOK, Status
  <2>2. log' \in [Customer -> Stop]
    BY <1>1, <2>1, StatusTyped DEF LogDelivery, TypeOK
  <2>3. QED
    BY <1>1, <2>2 DEF LogDelivery, TypeOK
<1>2. ASSUME NEW c \in Customer, NEW s \in Decision, Record(c, s)
      PROVE  TypeOK'
  BY <1>2 DEF Record, TypeOK
<1>3. ASSUME NEW d \in Driver, StartShift(d)
      PROVE  TypeOK'
  BY <1>3 DEF StartShift, TypeOK, Shift
<1>4. ASSUME NEW d \in Driver, reopenRound(d)
      PROVE  TypeOK'
  BY <1>4 DEF reopenRound, TypeOK, Stop, Status
<1>5. ASSUME NEW d \in Driver, ReopenFails(d)
      PROVE  TypeOK'
  BY <1>5 DEF ReopenFails, TypeOK
<1>6. ASSUME NEW d \in Driver, EndShift(d)
      PROVE  TypeOK'
  BY <1>6 DEF EndShift, TypeOK, Shift, Caller, Phase
<1>7. QED
  BY <1>1, <1>2, <1>3, <1>4, <1>5, <1>6

(* Closing the round. *)
LEMMA TypeClose ==
    ASSUME TypeOK, NEW w \in Caller, NEW d \in Driver, CloseStep(w, d)
    PROVE  TypeOK'
<1>1. ASSUME NEW p \in Phase, Closed(w, d, p)
      PROVE  closing' \in [Caller -> [Driver -> Phase]]
  BY <1>1 DEF Closed, TypeOK
<1> USE RoundsAssumption
<1>2. CASE CloseRouteOf(w, d)
  BY <1>1, <1>2 DEF CloseRouteOf, TypeOK, Phase
<1>3. CASE InsertUnattempted(w, d)
  BY <1>1, <1>3 DEF InsertUnattempted, TypeOK, Stop, Status, Phase
<1>4. CASE ClosePending(w, d)
  BY <1>1, <1>4 DEF ClosePending, TypeOK, Stop, Status, Phase
<1>5. CASE CloseFails(w, d)
  BY <1>1, <1>5 DEF CloseFails, TypeOK, Phase
<1>6. QED
  BY <1>2, <1>3, <1>4, <1>5 DEF CloseStep

(* The sweeper, time and crashes. *)
LEMMA TypeTime ==
    ASSUME TypeOK, SweepStep \/ Tick \/ Crash
    PROVE  TypeOK'
<1>1. CASE ListStale
  BY <1>1 DEF ListStale, TypeOK
<1>2. CASE AutoEnd
  <2>1. shift' \in [Driver -> Shift]
    BY <1>2 DEF AutoEnd, TypeOK, Shift
  <2>2. closing' \in [Caller -> [Driver -> Phase]]
    BY <1>2 DEF AutoEnd, TypeOK, Caller, Phase
  <2>3. QED
    BY <1>2, <2>1, <2>2 DEF AutoEnd, TypeOK
<1>3. CASE AutoEndFails
  BY <1>3 DEF AutoEndFails, TypeOK
<1>4. CASE Tick
  BY <1>4 DEF Tick, TypeOK, Clock, OnTime
<1>5. CASE Crash
  BY <1>5 DEF Crash, TypeOK, Caller, Phase
<1>6. QED
  BY <1>1, <1>2, <1>3, <1>4, <1>5 DEF SweepStep

LEMMA TypeStep == TypeOK /\ [Next]_roundVars => TypeOK'
<1> SUFFICES ASSUME TypeOK, [Next]_roundVars
             PROVE  TypeOK'
  OBVIOUS
<1>1. CASE UNCHANGED roundVars
  BY <1>1 DEF roundVars, TypeOK
<1>2. CASE LockManifest
  BY <1>2, TypeDesk
<1>3. ASSUME NEW c \in Customer, StopStep(c)
      PROVE  TypeOK'
  BY <1>3, TypeDesk, TypeShift DEF StopStep
<1>4. ASSUME NEW d \in Driver, DriverStep(d)
      PROVE  TypeOK'
  BY <1>4, TypeShift, TypeClose DEF DriverStep
<1>5. ASSUME NEW d \in Driver \cup {NONE}, UpdateDriver(d)
      PROVE  TypeOK'
  BY <1>5, TypeDesk
<1>6. CASE SweepStep \/ Tick \/ Crash
  BY <1>6, TypeTime
<1>7. QED
  BY <1>1, <1>2, <1>3, <1>4, <1>5, <1>6 DEF Next

(* Rows, requests and sweeps keep their shape, whatever is interleaved     *)
(* (every handler of a round). *)
THEOREM RoundTypeCorrect == Spec => []TypeOK
BY TypeInit, TypeStep, PTL DEF Spec

-----------------------------------------------------------------------------
(* The steps that write no row of delivery_logs. *)
LEMMA RowsUntouched ==
    ASSUME \/ UNCHANGED roundVars
           \/ \E c \in Customer, q \in Order : OrderChanges(c, q)
           \/ \E c \in Customer, s \in Decision : Record(c, s)
           \/ \E d \in Driver : StartShift(d) \/ ReopenFails(d) \/ EndShift(d)
           \/ \E w \in Caller, d \in Driver : CloseRouteOf(w, d) \/ CloseFails(w, d)
           \/ \E d \in Driver \cup {NONE} : UpdateDriver(d)
           \/ SweepStep \/ Tick \/ Crash
    PROVE  log' = log
BY DEF roundVars, OrderChanges, Record, StartShift, ReopenFails, EndShift, CloseRouteOf,
       CloseFails, UpdateDriver, SweepStep, ListStale, AutoEnd, AutoEndFails, Tick, Crash

(* What a step does to the row of one stop. *)
PlanKept(c) ==
    log'[c].plan # log[c].plan =>
        \/ ~locked /\ locked' /\ log[c].plan = NONE /\ log'[c].plan = order[c]
        \/ \E q \in Order : EditPlannedOrder(c, q)

(* A row that does not exist has no plan: what LockManifest freezes, it    *)
(* freezes for the first time.                                             *)
NoRowNoPlan == \A c \in Customer : log[c].status = "ABSENT" => log[c].plan = NONE

LEMMA RowStep ==
    ASSUME TypeOK, NoRowNoPlan, [Next]_roundVars, NEW c \in Customer
    PROVE  /\ log'[c].status = "ABSENT" => log'[c].plan = NONE
           /\ PlanKept(c)
<1> DEFINE Goal == /\ log'[c].status = "ABSENT" => log'[c].plan = NONE
                  /\ PlanKept(c)
<1>1. /\ log[c] \in Stop
      /\ log[c].status = "ABSENT" => log[c].plan = NONE
  BY DEF TypeOK, NoRowNoPlan
<1>2. ASSUME log'[c].plan = log[c].plan,
             log'[c].status = "ABSENT" => log[c].status = "ABSENT"
      PROVE  Goal
  BY <1>1, <1>2 DEF PlanKept
<1>3. ASSUME log' = log
      PROVE  Goal
  BY <1>2, <1>3
<1>4. CASE LockManifest
  <2>1. CASE log[c].status = "ABSENT" /\ order[c] > 0
    BY <1>1, <1>4, <2>1 DEF LockManifest, PlanKept
  <2>2. CASE ~(log[c].status = "ABSENT" /\ order[c] > 0)
    BY <1>2, <1>4, <2>2 DEF LockManifest
  <2>3. QED
    BY <2>1, <2>2
<1>5. ASSUME NEW e \in Customer, StopStep(e)
      PROVE  Goal
  <2>1. ASSUME NEW q \in Order, OrderChanges(e, q)
        PROVE  Goal
    BY <1>3, <2>1 DEF OrderChanges
  <2>2. ASSUME NEW q \in Order, EditPlannedOrder(e, q)
        PROVE  Goal
    <3>1. CASE e = c
      <4>1. log'[c].status # "ABSENT"
        BY <1>1, <2>2, <3>1 DEF EditPlannedOrder, TypeOK, Stop
      <4>2. QED
        BY <2>2, <3>1, <4>1 DEF PlanKept
    <3>2. CASE e # c
      BY <1>2, <2>2, <3>2 DEF EditPlannedOrder, TypeOK
    <3>3. QED
      BY <3>1, <3>2
  <2>3. ASSUME NEW s \in Decision, Record(e, s)
        PROVE  Goal
    BY <1>3, <2>3 DEF Record
  <2>4. ASSUME \E s \in Status, r \in BOOLEAN :
                  /\ s # "ABSENT"
                  /\ log' = [log EXCEPT ![e] = [@ EXCEPT !.status = s, !.onRoute = r]]
        PROVE  Goal
    BY <1>1, <1>2, <2>4 DEF TypeOK, Stop
  <2>5. CASE LogDelivery(e)
    BY <2>4, <2>5, RoundsAssumption DEF LogDelivery, TypeOK, Status, AnyDecision
  <2>6. ASSUME NEW s \in AdminStatus, Update(e, s)
        PROVE  Goal
    <3>1. s # "ABSENT"
      BY RoundsAssumption DEF AdminStatus, AnyDecision
    <3>2. QED
      BY <1>1, <1>2, <2>6, <3>1 DEF Update, TypeOK, Stop
  <2>7. ASSUME NEW s \in AdminStatus, NEW r \in BOOLEAN, AdminUpsert(e, s, r)
        PROVE  Goal
    BY <2>4, <2>7, RoundsAssumption DEF AdminUpsert, AdminStatus, Status, AnyDecision
  <2>8. QED
    BY <1>5, <2>1, <2>2, <2>3, <2>5, <2>6, <2>7 DEF StopStep
<1>6. ASSUME NEW d \in Driver, DriverStep(d)
      PROVE  Goal
  <2>1. CASE StartShift(d) \/ ReopenFails(d) \/ EndShift(d)
    BY <1>3, <2>1 DEF StartShift, ReopenFails, EndShift
  <2>2. CASE reopenRound(d)
    BY <1>1, <1>2, <2>2 DEF reopenRound, Stop
  <2>3. ASSUME NEW w \in Caller, CloseStep(w, d)
        PROVE  Goal
    <3>1. CASE CloseRouteOf(w, d) \/ CloseFails(w, d)
      BY <1>3, <3>1 DEF CloseRouteOf, CloseFails
    <3>2. CASE InsertUnattempted(w, d)
      BY <1>1, <1>2, <3>2 DEF InsertUnattempted, Stop
    <3>3. CASE ClosePending(w, d)
      BY <1>1, <1>2, <3>3 DEF ClosePending, Stop
    <3>4. QED
      BY <2>3, <3>1, <3>2, <3>3 DEF CloseStep
  <2>4. QED
    BY <1>6, <2>1, <2>2, <2>3 DEF DriverStep
<1>7. CASE \/ UNCHANGED roundVars
           \/ \E d \in Driver \cup {NONE} : UpdateDriver(d)
           \/ SweepStep \/ Tick \/ Crash
  BY <1>3, <1>7, RowsUntouched
<1>8. QED
  BY <1>4, <1>5, <1>6, <1>7 DEF Next

(* A frozen plan is changed by the admin's edit alone (every write to      *)
(* delivery_logs). *)
THEOREM PlanCorrect == Spec => PlanStands
<1>1. Init => NoRowNoPlan
  BY DEF Init, NoRowNoPlan, NoStop
<1>2. TypeOK /\ NoRowNoPlan /\ [Next]_roundVars => NoRowNoPlan'
  BY RowStep DEF NoRowNoPlan
<1>3. TypeOK /\ NoRowNoPlan /\ [Next]_roundVars =>
          [\A c \in Customer : PlanKept(c)]_roundVars
  BY RowStep
<1>4. [\A c \in Customer : PlanKept(c)]_roundVars =>
          [\A c \in Customer :
              log'[c].plan # log[c].plan =>
                  \/ ~locked /\ locked' /\ log[c].plan = NONE /\ log'[c].plan = order[c]
                  \/ \E q \in Order : EditPlannedOrder(c, q)]_roundVars
  BY DEF PlanKept
<1>5. QED
  BY <1>1, <1>2, <1>3, <1>4, RoundTypeCorrect, PTL DEF Spec, PlanStands

-----------------------------------------------------------------------------
(* A step of the desk, of closing or of reopening that changes no decision *)
(* is a stutter of the ledger.                                             *)
Quiet == said' = said /\ corrected' = corrected /\ Entry' = Entry

LEMMA QuietIsStutter == Quiet => UNCHANGED Ledger!ledgerVars
BY DEF Quiet, Ledger!ledgerVars

LEMMA StatusIsEntry ==
    ASSUME \A c \in Customer :
              \/ log'[c].status = log[c].status
              \/ log[c].status \notin Decision /\ log'[c].status \notin Decision
    PROVE  Entry' = Entry
BY DEF Entry

LEMMA QuietSteps ==
    ASSUME TypeOK,
           \/ UNCHANGED roundVars
           \/ LockManifest
           \/ \E c \in Customer, q \in Order : OrderChanges(c, q) \/ EditPlannedOrder(c, q)
           \/ \E d \in Driver \cup {NONE} : UpdateDriver(d)
           \/ \E d \in Driver : DriverStep(d)
           \/ SweepStep \/ Tick \/ Crash
    PROVE  Quiet
<1>1. \A c \in Customer : log[c] \in Stop
  BY DEF TypeOK
<1>2. {"ABSENT", "PENDING", "UNATTEMPTED"} \cap Decision = {}
  BY RoundsAssumption DEF AnyDecision
<1>3. ASSUME said' = said, corrected' = corrected, log' = log
      PROVE  Quiet
  BY <1>3 DEF Quiet, Entry
<1>4. CASE \/ UNCHANGED roundVars
           \/ \E c \in Customer, q \in Order : OrderChanges(c, q)
           \/ \E d \in Driver \cup {NONE} : UpdateDriver(d)
           \/ \E d \in Driver : StartShift(d) \/ ReopenFails(d) \/ EndShift(d)
           \/ \E w \in Caller, d \in Driver : CloseRouteOf(w, d) \/ CloseFails(w, d)
           \/ SweepStep \/ Tick \/ Crash
  BY <1>3, <1>4 DEF roundVars, OrderChanges, StartShift, ReopenFails, EndShift, CloseRouteOf,
       CloseFails, UpdateDriver, SweepStep, ListStale, AutoEnd, AutoEndFails, Tick, Crash
<1>5. CASE LockManifest
  <2>1. said' = said /\ corrected' = corrected
    BY <1>5 DEF LockManifest
  <2>2. Entry' = Entry
    BY <1>1, <1>2, <1>5, StatusIsEntry DEF LockManifest
  <2>3. QED
    BY <2>1, <2>2 DEF Quiet
<1>6. ASSUME NEW c \in Customer, NEW q \in Order, EditPlannedOrder(c, q)
      PROVE  Quiet
  <2>1. said' = said /\ corrected' = corrected
    BY <1>6 DEF EditPlannedOrder
  <2>2. \A e \in Customer : log'[e].status = log[e].status
    BY <1>1, <1>6 DEF EditPlannedOrder, TypeOK, Stop
  <2>3. QED
    BY <2>1, <2>2, StatusIsEntry DEF Quiet
<1>7. ASSUME NEW d \in Driver, reopenRound(d)
      PROVE  Quiet
  <2>1. said' = said /\ corrected' = corrected
    BY <1>7 DEF reopenRound
  <2>2. Entry' = Entry
    BY <1>1, <1>2, <1>7, StatusIsEntry DEF reopenRound, Stop
  <2>3. QED
    BY <2>1, <2>2 DEF Quiet
<1>8. ASSUME NEW w \in Caller, NEW d \in Driver, InsertUnattempted(w, d) \/ ClosePending(w, d)
      PROVE  Quiet
  <2>1. said' = said /\ corrected' = corrected
    BY <1>8 DEF InsertUnattempted, ClosePending
  <2>2. CASE InsertUnattempted(w, d)
    BY <1>1, <1>2, <2>1, <2>2, StatusIsEntry DEF InsertUnattempted, Quiet
  <2>3. CASE ClosePending(w, d)
    <3>1. Entry' = Entry
      BY <1>1, <1>2, <2>3, StatusIsEntry DEF ClosePending, Stop
    <3>2. QED
      BY <2>1, <3>1 DEF Quiet
  <2>4. QED
    BY <1>8, <2>2, <2>3
<1>9. QED
  BY <1>4, <1>5, <1>6, <1>7, <1>8 DEF DriverStep, CloseStep

(* Setting the status of one row enters it in the ledger. *)
LEMMA SetStatusEnters ==
    ASSUME TypeOK, NEW c \in Customer, NEW s \in Status, log'[c].status = s,
           \A e \in Customer \ {c} : log'[e] = log[e]
    PROVE  Entry' = [Entry EXCEPT ![c] = IF s \in Decision THEN s ELSE NONE]
<1> DEFINE v == IF s \in Decision THEN s ELSE NONE
<1>1. Entry' = [e \in Customer |-> IF log'[e].status \in Decision THEN log'[e].status ELSE NONE]
  BY DEF Entry
<1>2. [Entry EXCEPT ![c] = v] = [e \in Customer |-> IF e = c THEN v ELSE Entry[e]]
  BY DEF Entry
<1>3. \A e \in Customer :
         (IF e = c THEN v ELSE Entry[e])
           = IF log'[e].status \in Decision THEN log'[e].status ELSE NONE
  BY DEF Entry
<1>4. QED
  BY <1>1, <1>2, <1>3

LEMMA StopImplements ==
    ASSUME TypeOK, NEW c \in Customer, StopStep(c)
    PROVE  [Ledger!LedgerNext]_(Ledger!ledgerVars)
<1>1. ASSUME NEW q \in Order, OrderChanges(c, q) \/ EditPlannedOrder(c, q)
      PROVE  UNCHANGED Ledger!ledgerVars
  BY <1>1, QuietSteps, QuietIsStutter
<1>2. ASSUME NEW s \in Decision, Record(c, s)
      PROVE  Ledger!Say(c, s)
  BY <1>2 DEF Record, Ledger!Say, Entry
<1>3. \A s \in Status, r \in BOOLEAN :
         /\ [log[c] EXCEPT !.status = s].status = s
         /\ [log[c] EXCEPT !.status = s, !.onRoute = r].status = s
  BY DEF TypeOK, Stop
<1>4. ASSUME LogDelivery(c)
      PROVE  Ledger!Enter(c)
  <2>1. said[c] \in Decision
    BY <1>4 DEF LogDelivery, TypeOK
  <2>2. log'[c].status = said[c] /\ \A e \in Customer \ {c} : log'[e] = log[e]
    BY <1>3, <1>4, <2>1 DEF LogDelivery, TypeOK, Status
  <2>3. Entry' = [Entry EXCEPT ![c] = said[c]]
    BY <2>1, <2>2, SetStatusEnters DEF Status
  <2>4. QED
    BY <1>4, <2>3 DEF LogDelivery, Ledger!Enter
<1>5. ASSUME NEW s \in AdminStatus,
             Update(c, s) \/ \E r \in BOOLEAN : AdminUpsert(c, s, r)
      PROVE  \E v \in Decision \cup {NONE} : Ledger!Correct(c, v)
  <2>1. s \in Status
    BY DEF AdminStatus, Status
  <2>2. log'[c].status = s /\ \A e \in Customer \ {c} : log'[e] = log[e]
    <3>1. CASE Update(c, s)
      BY <1>3, <2>1, <3>1 DEF Update, TypeOK
    <3>2. ASSUME NEW r \in BOOLEAN, AdminUpsert(c, s, r)
          PROVE  log'[c].status = s /\ \A e \in Customer \ {c} : log'[e] = log[e]
      BY <1>3, <2>1, <3>2 DEF AdminUpsert, TypeOK
    <3>3. QED
      BY <1>5, <3>1, <3>2
  <2>3. Entry' = [Entry EXCEPT ![c] = IF s \in Decision THEN s ELSE NONE]
    BY <2>1, <2>2, SetStatusEnters
  <2>4. Ledger!Correct(c, IF s \in Decision THEN s ELSE NONE)
    BY <1>5, <2>3 DEF Update, AdminUpsert, Ledger!Correct
  <2>5. QED
    BY <2>4
<1>6. QED
  BY <1>1, <1>2, <1>4, <1>5 DEF StopStep, Ledger!LedgerNext

(* The round implements the ledger: a decision is the driver's or an       *)
(* admin's, and no lock, closing, reopening or crash takes it back         *)
(* (LogDelivery, LockManifest, CloseRouteForSlot, reopenRound). *)
THEOREM RoundImplementsLedger == Spec => DecisionsStand
<1>1. Init => Ledger!LedgerInit
  BY RoundsAssumption DEF Init, Ledger!LedgerInit, Entry, NoStop, AnyDecision
<1>2. TypeOK /\ [Next]_roundVars => [Ledger!LedgerNext]_(Ledger!ledgerVars)
  <2> SUFFICES ASSUME TypeOK, [Next]_roundVars
               PROVE  [Ledger!LedgerNext]_(Ledger!ledgerVars)
    OBVIOUS
  <2>1. ASSUME NEW c \in Customer, StopStep(c)
        PROVE  [Ledger!LedgerNext]_(Ledger!ledgerVars)
    BY <2>1, StopImplements
  <2>2. CASE \/ UNCHANGED roundVars
             \/ LockManifest
             \/ \E d \in Driver \cup {NONE} : UpdateDriver(d)
             \/ \E d \in Driver : DriverStep(d)
             \/ SweepStep \/ Tick \/ Crash
    BY <2>2, QuietSteps, QuietIsStutter
  <2>3. QED
    BY <2>1, <2>2 DEF Next
<1>3. QED
  BY <1>1, <1>2, RoundTypeCorrect, PTL DEF Spec, DecisionsStand, Ledger!LedgerSpec

-----------------------------------------------------------------------------
(* The auto-end sweep.  A driver it listed has a shift, and once the round *)
(* of a driver is being closed for it, that shift is over or was started   *)
(* again: the second statement ended every first shift the first had seen. *)
SweepInv ==
    /\ \A d \in Driver : sweeper.listing /\ d \in sweeper.drivers => shift[d].status # "NONE"
    /\ \A d \in Driver : closing["sweepAutoEnd"][d] # "none" =>
          shift[d].status \in {"ENDED", "AUTO_ENDED"} \/ shift[d].reopened

(* A step that lists nobody and closes no more rounds for the sweep.       *)
SweepKept ==
    /\ sweeper' = sweeper \/ ~sweeper'.listing
    /\ \A d \in Driver : closing'["sweepAutoEnd"][d] # "none" =>
                             closing["sweepAutoEnd"][d] # "none"

LEMMA SweepKeptKeeps == SweepInv /\ shift' = shift /\ SweepKept => SweepInv'
BY DEF SweepInv, SweepKept

LEMMA SweepStepKeeps == TypeOK /\ SweepInv /\ [Next]_roundVars => SweepInv'
<1> SUFFICES ASSUME TypeOK, SweepInv, [Next]_roundVars
             PROVE  SweepInv'
  OBVIOUS
<1>0. /\ shift \in [Driver -> Shift] /\ closing \in [Caller -> [Driver -> Phase]]
      /\ "sweepAutoEnd" \in Caller /\ "EndShift" \in Caller
  BY DEF TypeOK, Caller
<1>1. ASSUME shift' = shift, SweepKept
      PROVE  SweepInv'
  BY <1>1, SweepKeptKeeps
<1>2. CASE \/ UNCHANGED roundVars \/ LockManifest \/ Tick
           \/ \E c \in Customer : StopStep(c)
           \/ \E d \in Driver \cup {NONE} : UpdateDriver(d)
           \/ \E d \in Driver : reopenRound(d) \/ ReopenFails(d)
  <2>1. UNCHANGED <<shift, closing, sweeper>>
    BY <1>2 DEF roundVars, LockManifest, Tick, StopStep, OrderChanges, EditPlannedOrder, Record,
       LogDelivery, Update, AdminUpsert, UpdateDriver, reopenRound, ReopenFails
  <2>2. QED
    BY <1>1, <2>1 DEF SweepKept
<1>3. ASSUME NEW d \in Driver, StartShift(d)
      PROVE  SweepInv'
  <2>1. UNCHANGED <<closing, sweeper>>
    BY <1>3 DEF StartShift
  <2>2. /\ shift'[d].status = "ACTIVE"
        /\ shift[d].reopened \/ shift[d].status \in {"ENDED", "AUTO_ENDED"} => shift'[d].reopened
        /\ \A e \in Driver : e # d => shift'[e] = shift[e]
    BY <1>0, <1>3 DEF StartShift
  <2>3. QED
    BY <2>1, <2>2 DEF SweepInv
<1>4. ASSUME NEW d \in Driver, EndShift(d)
      PROVE  SweepInv'
  <2>1. sweeper' = sweeper /\ closing'["sweepAutoEnd"] = closing["sweepAutoEnd"]
    BY <1>0, <1>4 DEF EndShift
  <2>2. \A e \in Driver : shift'[e] = shift[e] \/ shift'[e].status = "ENDED"
    BY <1>0, <1>4 DEF EndShift, Shift
  <2>3. QED
    BY <2>1, <2>2 DEF SweepInv
<1>5. ASSUME NEW w \in Caller, NEW d \in Driver, CloseStep(w, d)
      PROVE  SweepInv'
  <2>1. /\ shift' = shift /\ sweeper' = sweeper /\ closing[w][d] # "none"
        /\ \E next : Closed(w, d, next)
    BY <1>5 DEF CloseStep, CloseRouteOf, InsertUnattempted, ClosePending, CloseFails
  <2>2. \A e \in Driver : /\ e # d => closing'[w][e] = closing[w][e]
                          /\ \A v \in Caller : v # w => closing'[v][e] = closing[v][e]
    BY <1>0, <2>1 DEF Closed
  <2>3. QED
    BY <1>0, <1>1, <2>1, <2>2 DEF SweepKept
<1>6. CASE ListStale
  <2>1. /\ UNCHANGED <<shift, closing>>
        /\ \A d \in sweeper'.drivers : d \in Driver => Stale(d)
    BY <1>6 DEF ListStale
  <2>2. QED
    BY <2>1 DEF SweepInv, Stale
<1>7. CASE AutoEnd
  <2>1. /\ sweeper.listing /\ ~sweeper'.listing
        /\ \A d \in Driver : closing'["sweepAutoEnd"][d] # "none" =>
              d \in sweeper.drivers \/ closing["sweepAutoEnd"][d] # "none"
    BY <1>0, <1>7 DEF AutoEnd
  <2>2. \A d \in Driver : IF Stale(d) THEN shift'[d].status = "AUTO_ENDED"
                          ELSE shift'[d] = shift[d]
    BY <1>0, <1>7 DEF AutoEnd, Shift
  <2>3. ASSUME NEW d \in Driver, closing'["sweepAutoEnd"][d] # "none"
        PROVE  shift'[d].status \in {"ENDED", "AUTO_ENDED"} \/ shift'[d].reopened
    <3>1. CASE Stale(d)
      BY <2>2, <3>1
    <3>2. CASE ~Stale(d)
      <4>1. shift'[d] = shift[d] /\ shift[d] \in Shift
        BY <1>0, <2>2, <3>2
      <4>2. CASE d \in sweeper.drivers
        BY <2>1, <3>2, <4>1, <4>2 DEF SweepInv, Shift, Stale
      <4>3. CASE closing["sweepAutoEnd"][d] # "none"
        BY <4>1, <4>3 DEF SweepInv
      <4>4. QED
        BY <2>1, <2>3, <4>2, <4>3
    <3>3. QED
      BY <3>1, <3>2
  <2>4. QED
    BY <2>1, <2>3 DEF SweepInv
<1>8. CASE AutoEndFails \/ Crash
  <2>1. shift' = shift /\ ~sweeper'.listing
    BY <1>8 DEF AutoEndFails, Crash
  <2>2. closing' = closing \/ \A d \in Driver : closing'["sweepAutoEnd"][d] = "none"
    BY <1>0, <1>8 DEF AutoEndFails, Crash
  <2>3. QED
    BY <1>1, <2>1, <2>2 DEF SweepKept
<1>9. QED
  BY <1>2, <1>3, <1>4, <1>5, <1>6, <1>7, <1>8 DEF Next, DriverStep, SweepStep

(* The auto-end sweep never closes the round under a driver who is out on  *)
(* the first shift of the day, whatever starts, ends, fails or restarts    *)
(* between its listing, its ending and its closing; it may under one who   *)
(* restarted. (sweepAutoEnd, StartShift)                                   *)
THEOREM SweepSparesDrivers == Spec => []SweepSparesFirstShifts
<1>1. Init => SweepInv
  BY DEF Init, SweepInv, Caller
<1>2. SweepInv => SweepSparesFirstShifts
  BY DEF SweepInv, SweepSparesFirstShifts
<1>3. QED
  BY <1>1, <1>2, SweepStepKeeps, RoundTypeCorrect, PTL DEF Spec
=============================================================================

---------------------------- MODULE DeliveryRows ----------------------------
(***************************************************************************)
(* The row of a delivery: locked, reported by the driver's app, corrected  *)
(* by the admin and complained about.  It keeps the price of the moment it *)
(* was reported; a report sent again, on any later day, is priced anew.    *)
(***************************************************************************)
EXTENDS Prices

rowOthers == <<day, priceVars, billVars>>

(* LockManifest inserts the stops of a round without prices: they default  *)
(* to 0. *)
LockManifest ==
    /\ day = 0 /\ log = NONE
    /\ log' = [status |-> "PENDING", qty |-> 0, unit |-> 0, flagged |-> FALSE, source |-> "lock"]
    /\ UNCHANGED <<rowOthers, running, requests>>

(* The report of a stop; a flag is for a driver far from the house. *)
LogDelivery(status, q, flagged) ==
    /\ Request
    /\ Starts([op |-> "report", status |-> status, qty |-> IF status = "DELIVERED" THEN q ELSE 0,
               unit |-> price, flagged |-> flagged])
    /\ UNCHANGED <<rowOthers, log>>

(* Mutant: prices are written on INSERT only, as for an admin. *)
LogDeliveryKeepsPrice(r) ==
    /\ r.op = "report"
    /\ Ends(r)
    /\ log' = [status |-> r.status, qty |-> r.qty, unit |-> IF log = NONE THEN r.unit ELSE log.unit,
               flagged |-> r.flagged, source |-> "driver"]
    /\ UNCHANGED <<rowOthers, requests>>

(* INSERT ... ON CONFLICT DO UPDATE of everything. *)
LogDeliveryWrites(r) ==
    /\ r.op = "report"
    /\ Ends(r)
    /\ log' = [status |-> r.status, qty |-> r.qty, unit |-> r.unit, flagged |-> r.flagged,
               source |-> "driver"]
    /\ UNCHANGED <<rowOthers, requests>>

-----------------------------------------------------------------------------
(* The admin.                                                              *)

(* A correction of some of the columns, the others set to what they are,   *)
(* and never of the price. *)
Update(status, q, flagged) ==
    /\ Request
    /\ log # NONE
    /\ log' = [log EXCEPT !.status = status, !.qty = q, !.flagged = flagged]
    /\ UNCHANGED <<rowOthers, running>>

(* AdminUpsert reads the route's price; *)
AdminUpsert(status, q) ==
    /\ Request
    /\ Starts([op |-> "upsert", status |-> status, qty |-> q, unit |-> price])
    /\ UNCHANGED <<rowOthers, log>>

(* Mutant: an existing row is priced anew. *)
AdminUpsertReprices(r) ==
    /\ r.op = "upsert"
    /\ Ends(r)
    /\ log' = IF log = NONE
              THEN [status |-> r.status, qty |-> r.qty, unit |-> r.unit, flagged |-> FALSE,
                    source |-> "admin"]
              ELSE [log EXCEPT !.status = r.status, !.qty = r.qty, !.unit = r.unit]
    /\ UNCHANGED <<rowOthers, requests>>

(* it is for a new row only. *)
AdminUpsertWrites(r) ==
    /\ r.op = "upsert"
    /\ Ends(r)
    /\ log' = IF log = NONE
              THEN [status |-> r.status, qty |-> r.qty, unit |-> r.unit, flagged |-> FALSE,
                    source |-> "admin"]
              ELSE [log EXCEPT !.status = r.status, !.qty = r.qty]
    /\ UNCHANGED <<rowOthers, requests>>

-----------------------------------------------------------------------------
(* Complaints.                                                             *)

(* The page lists delivered rows, of today and for a while of yesterday,  *)
ListReportable ==
    /\ Request
    /\ day <= 1
    /\ log # NONE /\ log.status = "DELIVERED"
    /\ Starts([op |-> "issue"])
    /\ UNCHANGED <<rowOthers, log>>

(* and the customer complains of one, whatever it has become. *)
SubmitIssue(r) ==
    /\ r.op = "issue"
    /\ Ends(r)
    /\ log' = [log EXCEPT !.flagged = TRUE]
    /\ UNCHANGED <<rowOthers, requests>>

(* Resolve loads a flagged row; the admin may correct its quantity. *)
Resolve(q) ==
    /\ Request
    /\ log # NONE /\ log.flagged
    /\ Starts([op |-> "resolve", qty |-> q, row |-> log])
    /\ UNCHANGED <<rowOthers, log>>

ResolveWrites(r) ==
    /\ r.op = "resolve"
    /\ Ends(r)
    /\ log' = [log EXCEPT !.flagged = FALSE, !.qty = IF r.qty = NONE THEN @ ELSE r.qty]
    /\ UNCHANGED <<rowOthers, requests>>

RowStep ==
    \/ LockManifest
    \/ \E status \in RowStatus \ {"PENDING"}, q \in Quantity :
          \/ AdminUpsert(status, q)
          \/ \E flagged \in BOOLEAN : LogDelivery(status, q, flagged) \/ Update(status, q, flagged)
    \/ ListReportable
    \/ \E q \in Quantity \cup {0, NONE} : Resolve(q)
    \/ \E r \in running : LogDeliveryWrites(r) \/ AdminUpsertWrites(r)
                         \/ SubmitIssue(r) \/ ResolveWrites(r)
=============================================================================

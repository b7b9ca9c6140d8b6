----------------------------- MODULE Accounts -----------------------------
(***************************************************************************)
(* What moves a customer between statuses besides the chase: the WhatsApp  *)
(* messages PAUSE, RESUME and DELETE ACCOUNT, and the admin's approve,     *)
(* reject and delete.  An incoming message runs in a goroutine of its own: *)
(* the gatekeeper reads the status once and dispatches on it, and the      *)
(* handler it chooses runs its own statements later.                       *)
(*                                                                         *)
(* Not here: the admin's PUT of a whole customer row (CustomerResource.    *)
(* Update), which writes any status over any other, and registration,      *)
(* which only makes pending rows: TablesInit starts from them.             *)
(***************************************************************************)
EXTENDS Payments

VARIABLES
    chat,   \* the handler a customer's WhatsApp message was dispatched to
    admin   \* the admin's delete request for a customer, past its checks

accountVars == <<chat, admin>>

Handler == {"none", "pause", "resume", "delete", "exit", "erase"}

AccountsInit ==
    /\ chat = [c \in Customer |-> "none"]
    /\ admin = [c \in Customer |-> "none"]

-----------------------------------------------------------------------------
(* The gatekeeper of HandleIncomingMessage: pending, rejected and          *)
(* suspended customers get a fixed answer, a paused one may only resume or *)
(* delete, an active one pause or delete (the other menu items touch no    *)
(* account).                                                               *)
Dispatched(status) ==
    CASE status = "active"   -> {"pause", "delete"}
      [] status = "disabled" -> {"resume", "delete"}
      [] OTHER               -> {}

HandleIncomingMessage(c) ==
    /\ chat[c] = "none"
    /\ \E h \in Dispatched(customer[c].status) \cap Request : chat' = [chat EXCEPT ![c] = h]
    /\ UNCHANGED <<tables, billRunVars, dunningVars, paymentVars, admin>>

SetStatus(c, s) ==
    customer' = [customer EXCEPT ![c].status = s, ![c].isActive = (s = "active")]

Handled(c) == chat' = [chat EXCEPT ![c] = "none"]

(* UPDATE ... SET status = 'disabled' WHERE phone_number = $1, whatever    *)
(* the status has become since the gatekeeper read it.                     *)
handleDisableAccount(c) ==
    /\ chat[c] = "pause"
    /\ Handled(c)
    /\ IF Present(c) THEN SetStatus(c, "disabled") ELSE UNCHANGED customer
    /\ UNCHANGED <<today, invoice, billRunVars, dunningVars, paymentVars, admin>>

(* A customer without an order on file is turned away (orders are not part *)
(* of this module); otherwise the same unconditional UPDATE, to 'pending'. *)
handleReactivateAccount(c) ==
    /\ chat[c] = "resume"
    /\ Handled(c)
    /\ \/ Present(c) /\ SetStatus(c, "pending")
       \/ UNCHANGED customer
    /\ UNCHANGED <<today, invoice, billRunVars, dunningVars, paymentVars, admin>>

HasUnpaid(c) == \E i \in InvoiceId : owner(i) = c /\ Unpaid(i)

(* handleDeleteAccount up to its verdict.  Deliveries of the running month *)
(* block the deletion too; whether there are any is left open.  If the     *)
(* query for unpaid invoices fails, the deletion goes ahead.               *)
handleDeleteAccount(c) ==
    /\ chat[c] = "delete"
    /\ \E unbilledDeliveries \in BOOLEAN, queryFails \in {FALSE, Fallible} :
          chat' = [chat EXCEPT ![c] = IF unbilledDeliveries \/ (HasUnpaid(c) /\ ~queryFails)
                                      THEN "exit" ELSE "erase"]
    /\ UNCHANGED <<tables, billRunVars, dunningVars, paymentVars, admin>>

(* Mutant: a status the customers table does not know. *)
pauseForExitMisnamed(c) ==
    /\ chat[c] = "exit"
    /\ Handled(c)
    /\ IF customer[c].status = "active" THEN SetStatus(c, "paused") ELSE UNCHANGED customer
    /\ UNCHANGED <<today, invoice, billRunVars, dunningVars, paymentVars, admin>>

(* pauseForExit: ... WHERE id = $1 AND status = 'active' *)
pauseForExit(c) ==
    /\ chat[c] = "exit"
    /\ Handled(c)
    /\ IF customer[c].status = "active" THEN SetStatus(c, "disabled") ELSE UNCHANGED customer
    /\ UNCHANGED <<today, invoice, billRunVars, dunningVars, paymentVars, admin>>

(* DELETE FROM customers cascades to the customer's invoices. *)
Erase(c) ==
    /\ customer' = [customer EXCEPT ![c] = NoCustomer]
    /\ invoice' = [i \in InvoiceId |-> IF owner(i) = c THEN NoInvoice ELSE invoice[i]]

EraseAccount(c) ==
    /\ chat[c] = "erase"
    /\ Handled(c)
    /\ Erase(c)
    /\ UNCHANGED <<today, billRunVars, dunningVars, paymentVars, admin>>

MessageFails(c) ==
    /\ Fallible
    /\ chat[c] # "none"
    /\ Handled(c)
    /\ UNCHANGED <<tables, billRunVars, dunningVars, paymentVars, admin>>

-----------------------------------------------------------------------------
(* The admin.  Approve routes the customer and activates it whatever its   *)
(* status was; it leaves the suspension columns as they are.               *)
Approve(c) ==
    /\ "approve" \in Request
    /\ Present(c)
    /\ SetStatus(c, "active")
    /\ UNCHANGED <<today, invoice, billRunVars, dunningVars, paymentVars, accountVars>>

Reject(c) ==
    /\ "reject" \in Request
    /\ customer[c].status = "pending"
    /\ SetStatus(c, "rejected")
    /\ UNCHANGED <<today, invoice, billRunVars, dunningVars, paymentVars, accountVars>>

(* Delete checks for unpaid invoices in one statement (and for unbilled    *)
(* deliveries of the running month, left open as above) ...                *)
CheckDelete(c) ==
    /\ "deleteCustomer" \in Request
    /\ admin[c] = "none"
    /\ Present(c)
    /\ ~HasUnpaid(c)
    /\ admin' = [admin EXCEPT ![c] = "erase"]
    /\ UNCHANGED <<tables, billRunVars, dunningVars, paymentVars, chat>>

(* ... and deletes in a transaction that starts after it. *)
Delete(c) ==
    /\ admin[c] = "erase"
    /\ admin' = [admin EXCEPT ![c] = "none"]
    /\ Erase(c)
    /\ UNCHANGED <<today, billRunVars, dunningVars, paymentVars, chat>>

DeleteFails(c) ==
    /\ Fallible
    /\ admin[c] = "erase"
    /\ admin' = [admin EXCEPT ![c] = "none"]
    /\ UNCHANGED <<tables, billRunVars, dunningVars, paymentVars, chat>>

ChatStep(c) ==
    \/ handleDisableAccount(c)
    \/ handleReactivateAccount(c)
    \/ handleDeleteAccount(c)
    \/ pauseForExit(c)
    \/ EraseAccount(c)
    \/ MessageFails(c)

AccountsStep == \E c \in Customer :
    \/ HandleIncomingMessage(c)
    \/ ChatStep(c)
    \/ Approve(c)
    \/ Reject(c)
    \/ CheckDelete(c)
    \/ Delete(c)
    \/ DeleteFails(c)

AccountsTypeOK ==
    /\ chat \in [Customer -> Handler]
    /\ admin \in [Customer -> {"none", "erase"}]
=============================================================================

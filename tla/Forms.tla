------------------------------- MODULE Forms -------------------------------
(***************************************************************************)
(* The pages a customer reaches through a single-use link: registration,   *)
(* overrides and order updates.  A submission validates the link and does  *)
(* its other reads, then writes in a transaction and marks the link used   *)
(* in a statement after it; it has eight seconds and ends with its client. *)
(* The three pages share one table of links, valid for half an hour.       *)
(*                                                                         *)
(* One submission at a time: what one of them reads (the link, the slot's  *)
(* existence, the cutoff), no other takes away.  So its reads are a step,  *)
(* and its write is one with the marking of the link, which may be lost.   *)
(***************************************************************************)
EXTENDS OrderTables

VARIABLES
    link,   \* registration_tokens: the page a link opens, and how old it is
    form    \* the submission under way, between its reads and its write

formVars == <<link, form>>

Page == {"register", "override", "update"}

LinkRow == [page : Page \cup {"unasked", "used", "expired"}, old : BOOLEAN]
FormRow ==
    [link : Link, page : Page, slot : Slot, order : Order \cup {NONE},
     date : Day \cup {NONE}, items : Items \cup {NONE},
     cutoff : Nat \cup {NONE},   \* readCutoff
     old : BOOLEAN]              \* the clock has moved on since its reads

FormsTypeOK ==
    /\ link \in [Link -> LinkRow]
    /\ form # NONE => form \in FormRow
    /\ form # NONE => IF form.page = "override" THEN form.date # NONE /\ form.cutoff # NONE
                      ELSE form.order # NONE

FormsInit ==
    /\ link = [t \in Link |-> [page |-> "unasked", old |-> FALSE]]
    /\ form = NONE

-----------------------------------------------------------------------------
(* Links.                                                                  *)

(* The gatekeeper: an unknown number is sent to registration, an active    *)
(* customer to the page it asks for, anybody else to neither. *)
PagesFor(st) ==
    CASE st = "ABSENT" -> {"register"}
      [] st = "active" -> {"override", "update"}
      [] OTHER         -> {}

GenerateToken(t) ==
    /\ link[t].page = "unasked"
    /\ \A u \in Link : link[u].page = "unasked" => u >= t
    /\ \E page \in PagesFor(status) : link' = [link EXCEPT ![t].page = page]
    /\ UNCHANGED <<clockVars, cutoff, orderVars, change, roundVars, failed, incidents, form>>

(* ValidatePhone: the link is neither used nor expired; nothing is         *)
(* consumed. *)
Opens(t, page) == form = NONE /\ link[t].page = page

Sent(t, s, o, d, q, c) ==
    /\ form' = [link |-> t, page |-> link[t].page, slot |-> s, order |-> o,
                date |-> d, items |-> q, cutoff |-> c, old |-> FALSE]
    /\ UNCHANGED <<clockVars, cutoff, orderVars, change, roundVars, failed, incidents, link>>

IsForm(page) == form # NONE /\ form.page = page

(* After the commit; an error is ignored and the link still opens. *)
MarkUsed ==
    \/ /\ link' = [link EXCEPT ![form.link] = [page |-> "used", old |-> FALSE]]
       /\ UNCHANGED incidents
    \/ Incident /\ UNCHANGED link

(* The client goes away or the time is up before the write. *)
Abandon ==
    /\ form # NONE
    /\ form' = NONE
    /\ UNCHANGED <<clockVars, cutoff, orderVars, change, roundVars, failed, incidents, link>>

-----------------------------------------------------------------------------
(* Registration: one slot, one transaction.  A number registered already   *)
(* keeps its status, whatever that is, and gets the order all the same.    *)

SubmitRegistration(t, s, o) == Opens(t, "register") /\ Sent(t, s, o, NONE, NONE, NONE)

Register ==
    /\ IsForm("register")
    /\ status' = IF status = "ABSENT" THEN "pending" ELSE status
    /\ sub' = Upserted(form.slot, StoredOrder(form.order, day), NONE)
    /\ form' = NONE
    /\ MarkUsed
    /\ UNCHANGED <<clockVars, cutoff, override, change, roundVars, failed>>

-----------------------------------------------------------------------------
(* Overrides: one date of one slot; NONE takes an override back.  The      *)
(* slot must be subscribed, and only today's order has a cutoff, the one   *)
(* configured now.  (Yesterday is accepted too, and read by nothing here.) *)

(* Mutant: the cutoff is left to the page. *)
SubmitOverrideAnyTime(t, s, d, q) ==
    /\ d >= day
    /\ Opens(t, "override")
    /\ Subscribed(s)
    /\ Sent(t, s, NONE, d, q, cutoff[s])

SubmitOverride(t, s, d, q) ==
    /\ d >= day
    /\ Opens(t, "override")
    /\ Subscribed(s)
    /\ ~(d = day /\ Passed(s))
    /\ Sent(t, s, NONE, d, q, cutoff[s])

WriteOverride ==
    /\ IsForm("override")
    /\ override' = [override EXCEPT ![form.slot] = [@ EXCEPT ![form.date] = form.items]]
    /\ form' = NONE
    /\ MarkUsed
    /\ UNCHANGED <<clockVars, cutoff, status, sub, change, roundVars, failed>>

-----------------------------------------------------------------------------
(* Order updates: staged for review, at most one of them pending, by a     *)
(* partial unique index.                                                   *)

SubmitUpdate(t, s, o) == Opens(t, "update") /\ Sent(t, s, o, NONE, NONE, NONE)

StagedChange(s, o) ==
    [status |-> "PENDING", slot |-> s, order |-> o, assigned |-> FALSE,
     approvedOn |-> NONE, effective |-> NONE]

StageChange ==
    /\ IsForm("update")
    /\ form' = NONE
    /\ IF \E k \in Change : IsChange(k, "PENDING")
       THEN UNCHANGED <<change, link, incidents>>
       ELSE /\ FreeChange # {}
            /\ change' = [change EXCEPT ![Min(FreeChange)] = StagedChange(form.slot, form.order)]
            /\ MarkUsed
    /\ UNCHANGED <<clockVars, cutoff, orderVars, roundVars, failed>>

-----------------------------------------------------------------------------
LinkStep(t) ==
    \/ GenerateToken(t)
    \/ \E s \in Slot :
          \/ \E o \in Order : SubmitRegistration(t, s, o) \/ SubmitUpdate(t, s, o)
          \/ \E d \in Day, q \in Items \cup {NONE} : SubmitOverride(t, s, d, q)

FormStep ==
    \/ \E t \in Link : LinkStep(t)
    \/ Register
    \/ WriteOverride
    \/ StageChange
    \/ Abandon
=============================================================================

---------------------------- MODULE ChangeBook ----------------------------
(***************************************************************************)
(* What the review of order changes promises, without pages, sweeps or     *)
(* crashes: one change at a time waits for review; an approved one comes   *)
(* into force exactly once, from the day after its approval, and a         *)
(* rejected one never.  Orders implements it.                              *)
(***************************************************************************)
EXTENDS Naturals

CONSTANTS
    Change,   \* the changes a customer may ask for
    NONE      \* no effective date yet

VARIABLES
    day,
    book      \* each change: where it stands, and from when it holds

bookVars == <<day, book>>

Entry(standing, from) == [standing |-> standing, from |-> from]

Waiting == {k \in Change : book[k].standing = "waiting"}

BookInit ==
    /\ day = 0
    /\ book = [k \in Change |-> Entry("blank", NONE)]

Ask(k) ==
    /\ book[k].standing = "blank"
    /\ Waiting = {}
    /\ book' = [book EXCEPT ![k] = Entry("waiting", NONE)]
    /\ UNCHANGED day

Accept(k) ==
    /\ book[k].standing = "waiting"
    /\ book' = [book EXCEPT ![k] = Entry("accepted", day + 1)]
    /\ UNCHANGED day

Decline(k) ==
    /\ book[k].standing = "waiting"
    /\ book' = [book EXCEPT ![k] = Entry("declined", NONE)]
    /\ UNCHANGED day

ComeIntoForce(k) ==
    /\ book[k].standing = "accepted"
    /\ day >= book[k].from
    /\ book' = [book EXCEPT ![k].standing = "inForce"]
    /\ UNCHANGED day

Midnight == day' = day + 1 /\ UNCHANGED book

BookNext ==
    \/ Midnight
    \/ \E k \in Change : Ask(k) \/ Accept(k) \/ Decline(k) \/ ComeIntoForce(k)

BookSpec == BookInit /\ [][BookNext]_bookVars
=============================================================================

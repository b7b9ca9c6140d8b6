----------------------------- MODULE StopLedger -----------------------------
(***************************************************************************)
(* What a round promises about each stop, without clocks, shifts or        *)
(* closing: what stands in the ledger is what the driver said, or what an  *)
(* admin put there, and an entry is never taken back by the system.        *)
(* Rounds implements it.                                                   *)
(***************************************************************************)
CONSTANTS
    Customer,
    Decision,   \* what a driver can say of a stop
    NONE        \* nothing said, nothing entered

VARIABLES
    said,       \* the driver's word on a stop
    entry,      \* the ledger
    corrected   \* flips at each of an admin's corrections, so that none goes unseen

ledgerVars == <<said, entry, corrected>>

LedgerInit ==
    /\ said = [c \in Customer |-> NONE]
    /\ entry = [c \in Customer |-> NONE]
    /\ corrected = [c \in Customer |-> FALSE]

Say(c, s) ==
    /\ said[c] = NONE
    /\ said' = [said EXCEPT ![c] = s]
    /\ UNCHANGED <<entry, corrected>>

(* The driver's word arrives, for the first time or again. *)
Enter(c) ==
    /\ said[c] # NONE
    /\ entry' = [entry EXCEPT ![c] = said[c]]
    /\ UNCHANGED <<said, corrected>>

Correct(c, s) ==
    /\ entry' = [entry EXCEPT ![c] = s]
    /\ corrected' = [corrected EXCEPT ![c] = ~@]
    /\ UNCHANGED said

LedgerNext ==
    \E c \in Customer :
        \/ \E s \in Decision : Say(c, s)
        \/ Enter(c)
        \/ \E s \in Decision \cup {NONE} : Correct(c, s)

LedgerSpec == LedgerInit /\ [][LedgerNext]_ledgerVars
=============================================================================

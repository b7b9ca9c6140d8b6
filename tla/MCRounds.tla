------------------------------ MODULE MCRounds ------------------------------
(* A round with small sets of customers and drivers, and what a comment of *)
(* the code says of it where the code does something else.                 *)
EXTENDS Rounds

(* driver.go:339-343: closing is wired to the end of a shift and to the    *)
(* sweeper, and "a driver who never opens the app at all is covered by the *)
(* second".  The sweeper looks for ACTIVE shifts; without a start there is *)
(* no row in shifts, and the stops stay PENDING.                           *)
NeverOpenedIsClosed ==
    \A c \in Customer :
        [](/\ log[c].status = "PENDING"
           /\ [](\A d \in Driver : shift[d].status = "NONE")
           => <>(log[c].status # "PENDING"))
=============================================================================

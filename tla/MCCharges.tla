------------------------------ MODULE MCCharges -----------------------------
(* Two prices, two quantities, two months of two days. *)
EXTENDS Charges, TLC
=============================================================================

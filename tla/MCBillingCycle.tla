-------------------------- MODULE MCBillingCycle --------------------------
(* The billing cycle with small sets of customers, months and payments.    *)
EXTENDS BillingClaims, TLC

Symmetry == Permutations(Customer) \cup Permutations(Payment)
=============================================================================

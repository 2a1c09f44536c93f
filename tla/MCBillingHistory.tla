-------------------------- MODULE MCBillingHistory --------------------------
(* Sessions and groups are interchangeable. *)
EXTENDS BillingHistory, TLC
Symmetry == Permutations(Sessions) \union Permutations(Groups)
=============================================================================

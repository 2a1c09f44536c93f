--------------------------- MODULE MCTransactions ---------------------------
(* Two plans, a short one and a long one; sessions are interchangeable.     *)
EXTENDS Transactions, TLC

MCPlans == {"basic", "premium"}
MCDuration == [p \in MCPlans |-> IF p = "basic" THEN 1 ELSE 2]
SessionSymmetry == Permutations(Sessions)
=============================================================================

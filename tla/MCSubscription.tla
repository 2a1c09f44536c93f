--------------------------- MODULE MCSubscription ---------------------------
(* Two plans: a short one and a long one. *)
EXTENDS Subscription, TLC
MCPlans == {"basic", "premium"}
MCDuration == [p \in MCPlans |-> IF p = "basic" THEN 1 ELSE 2]
SessionSymmetry == Permutations(Sessions)
=============================================================================

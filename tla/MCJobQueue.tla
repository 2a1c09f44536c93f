---------------------------- MODULE MCJobQueue ----------------------------
(* JobQueue with small constants for TLC. *)
EXTENDS JobQueue, TLC

MCIds == 1 .. 2
MCOneId == 1 .. 1

\* The workers are alike and so are the keys: sound for the safety properties.
MCSymmetry == Permutations(Workers) \union Permutations(Keys)
=============================================================================

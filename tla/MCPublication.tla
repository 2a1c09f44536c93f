--------------------------- MODULE MCPublication ---------------------------
EXTENDS Publication, TLC
MCOne == 1 .. 1
MCTwo == 1 .. 2
MCThree == 1 .. 3
WorkerSymmetry == Permutations(Workers)
PlanSymmetry == Permutations(Plans)
MCSymmetry == WorkerSymmetry \union PlanSymmetry
=============================================================================

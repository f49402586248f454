---------------------------- MODULE MCCreateHold ----------------------------
(* Two tabs, which run the same code, and a handful of reservations.       *)
EXTENDS CreateHold, TLC

TabSymmetry == Permutations(Tabs)
=============================================================================

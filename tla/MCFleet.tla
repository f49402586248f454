------------------------------ MODULE MCFleet ------------------------------
EXTENDS Fleet, TLC
CONSTANTS old, new
OldAndNew == [p \in Procs |-> IF p = new THEN 2 ELSE 1]
=============================================================================

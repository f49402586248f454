----------------------- MODULE MCProjectionGenerations -----------------------
(***************************************************************************)
(* Small instances of ProjectionGenerations for TLC.                       *)
(***************************************************************************)
EXTENDS ProjectionGenerations, TLC

\* Relay loops run the same code, and no fairness tells them apart.
RelaySymmetry == Permutations(Relays)

\* Bound: two relays at work, something that failed and a read in flight are
\* each combined with the rebuild and the clean-up, but not with one another.
Working == {w \in Relays : relay[w].at # "idle"}
Reading == {x \in Readers : reader[x].at # "idle"}
Failed == bound.faults + bound.crashes + bound.retries > 0
OneTrouble ==
    /\ Cardinality(Working) > 1 => ~Failed /\ Reading = {}
    /\ Failed => Reading = {}
=============================================================================

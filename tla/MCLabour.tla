------------------------------ MODULE MCLabour ------------------------------
(* Small instances of the labour pipeline.  The focus is chosen at the      *)
(* start: `supply` follows requisitions and orders while nobody is held;    *)
(* `people` holds, musters and revokes workers against one single-line      *)
(* order.                                                                   *)
EXTENDS LabourCapacity, TLC

CONSTANTS Focuses, MaxSubs, MaxTotal, MaxRows

VARIABLE focus

mcVars == <<vars, focus>>

\* One worker is a mason, the others may do either trade.
Mason == CHOOSE f \in Fingerprints : TRUE
Trades == LET m == CHOOSE w \in Workers : TRUE
          IN [w \in Workers |-> IF w = m THEN {Mason} ELSE Fingerprints]

MCInit == Init /\ focus \in Focuses

OneOf(f, S) == \A x \in S \ {1} : f[x].status = "none"
Asked == SumFunction([s \in Slots |-> demand'[s[1]].slices[s[2]]])

\* Supply: the demand is as it was created.
FixedDemand == \A r \in Requirements : demand'[r].rev <= 1 /\ demand'[r].fp = Mason

\* People: all that happens is on the first day, for a crew of MaxTotal.  A
\* vendor's order is issued before there are people, or never; later only its
\* promise moves.  Musters are taken where there is no order: a draw counts for
\* nothing in the reading of who is there.
NoPeople == capacityVars = <<[w \in Workers |-> <<>>], {}, {}, {}>>
Settled == \/ requisitions[1].status = "none"
           \/ requisitions[1].status = "approved" /\ orders[1].status \in {"issued", "completed"}
Promises == \E s \in Slots : CommitCapacity(1, s) \/ ReviseCapacity(1, s) \/ DefaultCapacity(1, s)
FirstDay == /\ \A s \in Slots : demand'[s[1]].slices[s[2]] \in {0, IF s[2] = 1 THEN MaxTotal ELSE 0}
            /\ \A x \in present' : x[2] = 1 /\ requisitions'[1].status = "none"
FewPeople == /\ SumFunction([w \in Workers |-> Len(held'[w])]) <= MaxRows
             /\ Cardinality(subs') + Cardinality(gone') <= MaxSubs

\* The steps of Next, each where it is looked at.
SupplyStep == (DemandNext \/ (SupplyNext /\ UNCHANGED capacityVars)) /\ FixedDemand

PeopleStep ==
    /\ \/ DemandNext
       \/ NoPeople /\ SupplyNext /\ UNCHANGED capacityVars /\ OneOf(orders', Orders)
       \/ Settled /\ ~NoPeople /\ Promises /\ UNCHANGED capacityVars
       \/ Settled /\ CapacityNext
    /\ FirstDay /\ FewPeople

MCNext ==
    /\ UNCHANGED focus
    /\ (focus = "supply" /\ SupplyStep) \/ (focus = "people" /\ PeopleStep)
    /\ OneOf(requisitions', Requisitions)
    /\ Asked <= MaxTotal

MCSpec == MCInit /\ [][MCNext]_mcVars

==============================================================================

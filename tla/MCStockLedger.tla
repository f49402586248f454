--------------------------- MODULE MCStockLedger ---------------------------
(* Small instances of the store and its orders.  A run looks either at the *)
(* whole chain from an empty project, with a short ledger, one location,    *)
(* no activity and no adjustment, or at the store alone from the point      *)
(* where an order is received and accepted, with the orders at rest, a      *)
(* longer ledger and few adjustments.                                       *)
EXTENDS StockLedger, TLC

CONSTANTS Focuses, ShortLedger, Adjustments

VARIABLE focus

mcVars == <<vars, focus>>

FirstLocation == CHOOSE l \in Locations : TRUE

Ordered == [NoOrder EXCEPT !.req = 1, !.qty = 2, !.delivery = "committed", !.status = "completed", !.received = 2]

Stocked ==
    LET row(type, from, into) == [Move(1, type, 2, from, into, FirstLocation) EXCEPT !.n = 1]
    IN /\ reqs = [[r \in Requisitions |-> NoRequisition] EXCEPT ![1] =
                      [status |-> "approved", line |-> "ordered", qty |-> 2]]
       /\ orders = [[o \in Orders |-> NoOrder] EXCEPT ![1] = Ordered]
       /\ lots = <<1>>
       /\ ledger = {row("receipt", Outside, "quarantine"), row("acceptance", "quarantine", "acceptedOnHand")}

MCInit == focus \in Focuses /\ (IF focus = "chain" THEN Init ELSE Stocked)

Adjusted == {r \in ledger' : r.type = "adjustment"}

\* The steps of Next, each where it is looked at.
MCNext ==
    /\ UNCHANGED focus
    /\ \/ focus = "chain" /\ OrdersNext /\ UNCHANGED <<lots, ledger>>
       \/ /\ focus = "chain" /\ Cardinality(ledger) < ShortLedger /\ StoreNext
          /\ \A r \in ledger' : r.act = Outside /\ r.at = FirstLocation
       \/ /\ focus = "store" /\ (StoreNext \/ Correction)
          /\ Cardinality(Adjusted) <= Adjustments

MCSpec == MCInit /\ [][MCNext]_mcVars

StockSymmetry == Permutations(Activities)
==============================================================================

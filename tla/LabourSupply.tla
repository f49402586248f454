---------------------------- MODULE LabourSupply ----------------------------
(* Labour bought from vendors: the demand of a labour requirement by civil  *)
(* date, requisitions against it, order versions against a requisition, and *)
(* the capacity a vendor commits on an order's line.  Every command is one  *)
(* transaction under the project's readiness lock: one action.              *)
(*                                                                          *)
(* A slot is a requirement on a civil date; a requisition and an order have *)
(* at most one line on a slot.  One shift.  An order is the row of a        *)
(* VERSION: an amendment leaves its row `amended` and takes a new one.      *)
(* Quotes are left out (an approved requisition may be ordered), and so is  *)
(* the measured floor, which refuses to cut an order below measured work.   *)
EXTENDS Naturals, FiniteSets, Functions

CONSTANTS
    Requirements, Activities, Dates,
    Fingerprints,        \* trade-and-skill identities
    MaxQty,              \* the most person-shifts a line or a slice names
    MaxRequisitions, MaxOrders

ASSUME SupplyBounds == /\ MaxQty \in Nat /\ MaxRequisitions \in Nat /\ MaxOrders \in Nat
                       /\ Dates \subseteq Nat /\ Activities # {} /\ Fingerprints # {}
                       /\ IsFiniteSet(Requirements) /\ IsFiniteSet(Dates)

VARIABLES
    demand,         \* requirement -> its head: revision, status, activity, fingerprint, slices
    requisitions,   \* requisition -> status and lines
    orders          \* order version -> status, requisition and lines

supplyVars == <<demand, requisitions, orders>>

Slots == Requirements \X Dates
Requisitions == 1 .. MaxRequisitions
Orders == 1 .. MaxOrders
Quantities == 0 .. MaxQty

LiveOrder == {"draft", "issued", "partially_committed", "completed"}
OrderStatuses == LiveOrder \cup {"none", "amended", "cancelled", "closed_short"}
Standing == {"committed", "revised"}

Demands == [rev: Nat, status: {"none", "open", "cancelled"}, act: Activities, fp: Fingerprints,
            slices: [Dates -> Quantities]]
Lines == [qty: Quantities, rev: Nat, fp: Fingerprints, status: {"open", "ordered", "cancelled"}]
OrderLines == [qty: Quantities, committed: Quantities, promise: Standing \cup {"none", "defaulted"}]

SupplyTypeOK ==
    /\ demand \in [Requirements -> Demands]
    /\ requisitions \in [Requisitions -> [lines: [Slots -> Lines],
           status: {"none", "draft", "submitted", "approved", "rejected", "closed"}]]
    /\ orders \in [Orders -> [status: OrderStatuses, req: Requisitions \cup {0}, lines: [Slots -> OrderLines]]]

AnyOf(S) == CHOOSE x \in S : TRUE
NoLine == [qty |-> 0, rev |-> 0, fp |-> AnyOf(Fingerprints), status |-> "open"]
NoOrder == [status |-> "none", req |-> 0,
            lines |-> [s \in Slots |-> [qty |-> 0, committed |-> 0, promise |-> "none"]]]

SupplyInit ==
    /\ demand = [r \in Requirements |-> [rev |-> 0, status |-> "none", act |-> AnyOf(Activities),
                                         fp |-> AnyOf(Fingerprints), slices |-> [d \in Dates |-> 0]]]
    /\ requisitions = [q \in Requisitions |-> [status |-> "none", lines |-> [s \in Slots |-> NoLine]]]
    /\ orders = [o \in Orders |-> NoOrder]

------------------------------------------------------------------------------
(* What counts against which ceiling.                                       *)

Named(lines) == {s \in Slots : lines[s].qty > 0}
Kept(q) == {s \in Named(requisitions[q].lines) : requisitions[q].lines[s].status # "cancelled"}

\* The requisitions whose line on `s` holds part of the slice.
Holders(s) == {q \in Requisitions : s \in Kept(q) /\ requisitions[q].status \notin {"rejected", "closed"}}

SliceAllocation(s) ==
    SumFunction([q \in {p \in Holders(s) : requisitions[p].lines[s].rev = demand[s[1]].rev} |->
                    requisitions[q].lines[s].qty])

\* A defaulted promise covers nothing, and a line closed short what was committed.
Counted(order, s) ==
    IF order.lines[s].promise = "defaulted" THEN 0
    ELSE IF order.status \in LiveOrder THEN order.lines[s].qty
    ELSE IF order.status = "closed_short" THEN order.lines[s].committed
    ELSE 0

LiveAllocation(os, q, s) == SumFunction([o \in {v \in Orders : os[v].req = q} |-> Counted(os[o], s)])

Covered(os, q, s) == LiveAllocation(os, q, s) >= requisitions[q].lines[s].qty

\* The flags of the lines `touched`, once the orders are `os`.
Refreshed(os, q, touched) ==
    [requisitions EXCEPT ![q].lines = [s \in Slots |->
        IF s \in touched \cap Kept(q)
        THEN [@[s] EXCEPT !.status = IF Covered(os, q, s) THEN "ordered" ELSE "open"]
        ELSE @[s]]]

Fits(os, q, s, qty) ==
    s \in Kept(q) /\ requisitions[q].status = "approved"
    /\ LiveAllocation(os, q, s) + qty <= requisitions[q].lines[s].qty

\* The version's status from what its lines have committed.
Recomputed(order) ==
    LET ordered == SumFunction([s \in Slots |-> order.lines[s].qty])
        committed == SumFunction([s \in Slots |-> order.lines[s].committed])
    IN IF order.status \notin {"issued", "partially_committed", "completed"} THEN order
       ELSE [order EXCEPT !.status = IF committed = 0 THEN "issued"
                                     ELSE IF committed >= ordered THEN "completed"
                                     ELSE "partially_committed"]

------------------------------------------------------------------------------
(* Requisitions.  `want` names a quantity for each slot, 0 for no line.     *)

Wants == {w \in [Slots -> Quantities] : \E s \in Slots : w[s] > 0}

CreateRequisition(q, want) ==
    /\ requisitions[q].status = "none" /\ \A p \in 1 .. q - 1 : requisitions[p].status # "none"
    /\ \A s \in Slots : want[s] > 0 =>
           /\ demand[s[1]].slices[s[2]] > 0
           /\ SliceAllocation(s) + want[s] <= demand[s[1]].slices[s[2]]
    /\ requisitions' = [requisitions EXCEPT ![q] = [status |-> "draft", lines |-> [s \in Slots |->
           IF want[s] = 0 THEN NoLine
           ELSE [qty |-> want[s], rev |-> demand[s[1]].rev, fp |-> demand[s[1]].fp, status |-> "open"]]]]
    /\ UNCHANGED <<demand, orders>>

Submit(q) ==
    /\ requisitions[q].status = "draft"
    /\ \E s \in Kept(q) : requisitions[q].lines[s].status = "open"
    /\ requisitions' = [requisitions EXCEPT ![q].status = "submitted"]
    /\ UNCHANGED <<demand, orders>>

Answer(q, verdict) ==
    /\ requisitions[q].status = "submitted"
    /\ requisitions' = [requisitions EXCEPT ![q].status = verdict]
    /\ UNCHANGED <<demand, orders>>

CancelLine(q, s) ==
    /\ requisitions[q].status \notin {"none", "rejected", "closed"}
    /\ s \in Kept(q) /\ requisitions[q].lines[s].status = "open"
    /\ requisitions' = [requisitions EXCEPT ![q].lines[s].status = "cancelled"]
    /\ UNCHANGED <<demand, orders>>

CloseRequisition(q) ==
    /\ requisitions[q].status = "approved"
    /\ \A s \in Kept(q) : Covered(orders, q, s)
    /\ requisitions' = [Refreshed(orders, q, Kept(q)) EXCEPT ![q].status = "closed"]
    /\ UNCHANGED <<demand, orders>>

------------------------------------------------------------------------------
(* Order versions.                                                          *)

NextOrder(o) == orders[o].status = "none" /\ \A p \in 1 .. o - 1 : orders[p].status # "none"

Version(status, q, want) ==
    [status |-> status, req |-> q,
     lines |-> [s \in Slots |-> [qty |-> want[s], committed |-> 0, promise |-> "none"]]]

NoStandingPromise(o) == \A s \in Slots : orders[o].lines[s].promise \notin Standing

CreateOrder(o, q, want) ==
    /\ NextOrder(o) /\ \A s \in Slots : want[s] > 0 => Fits(orders, q, s, want[s])
    /\ orders' = [orders EXCEPT ![o] = Version("draft", q, want)]
    /\ requisitions' = Refreshed(orders', q, Named(orders'[o].lines))
    /\ UNCHANGED demand

IssueOrder(o) ==
    /\ orders[o].status = "draft"
    /\ orders' = [orders EXCEPT ![o].status = "issued"]
    /\ UNCHANGED <<demand, requisitions>>

\* The amended version releases its allocation before the new one is measured.
Amend(o, o2, want) ==
    LET q == orders[o].req
        released == [orders EXCEPT ![o].status = "amended"]
    IN /\ orders[o].status = "issued" /\ NoStandingPromise(o) /\ NextOrder(o2)
       /\ \A s \in Slots : want[s] > 0 => Fits(released, q, s, want[s])
       /\ orders' = [released EXCEPT ![o2] = Version("issued", q, want)]
       /\ requisitions' = Refreshed(orders', q, Named(orders[o].lines) \cup Named(orders'[o2].lines))
       /\ UNCHANGED demand

CancelOrder(o) ==
    /\ NoStandingPromise(o) /\ orders[o].status \in {"draft", "issued"}
    /\ orders' = [orders EXCEPT ![o].status = "cancelled"]
    /\ requisitions' = Refreshed(orders', orders[o].req, Named(orders[o].lines))
    /\ UNCHANGED demand

CloseShort(o) ==
    /\ orders[o].status \in {"issued", "partially_committed"}
    /\ orders' = [orders EXCEPT ![o].status = "closed_short"]
    /\ requisitions' = Refreshed(orders', orders[o].req, Named(orders[o].lines))
    /\ UNCHANGED demand

------------------------------------------------------------------------------
(* Committed capacity: one promise per order line, for the line's quantity. *)

CommitCapacity(o, s) ==
    /\ orders[o].status \in {"issued", "partially_committed"}
    /\ s \in Named(orders[o].lines) /\ orders[o].lines[s].promise = "none"
    /\ orders' = [orders EXCEPT ![o] =
           Recomputed([@ EXCEPT !.lines[s].promise = "committed",
                                !.lines[s].committed = orders[o].lines[s].qty])]
    /\ UNCHANGED <<demand, requisitions>>

ReviseCapacity(o, s) ==
    /\ orders[o].lines[s].promise \in Standing
    /\ orders' = [orders EXCEPT ![o].lines[s].promise = "revised"]
    /\ UNCHANGED <<demand, requisitions>>

\* A default may uncover a requisition already closed: it is then approved again.
Reopened(rs, os, q) ==
    IF rs[q].status = "closed" /\ \E s \in Kept(q) : ~Covered(os, q, s)
    THEN [rs EXCEPT ![q].status = "approved"] ELSE rs

\* Variant: the default does not derive the requisition line's flag anew.
DefaultWithoutRefresh(o, s) ==
    LET q == orders[o].req
    IN /\ orders[o].lines[s].promise \in Standing
       /\ orders' = [orders EXCEPT ![o] =
              Recomputed([@ EXCEPT !.lines[s].promise = "defaulted", !.lines[s].committed = 0])]
       /\ requisitions' = Reopened(requisitions, orders', q)
       /\ UNCHANGED demand

DefaultCapacity(o, s) ==
    LET q == orders[o].req
    IN /\ orders[o].lines[s].promise \in Standing
       /\ orders' = [orders EXCEPT ![o] =
              Recomputed([@ EXCEPT !.lines[s].promise = "defaulted", !.lines[s].committed = 0])]
       /\ requisitions' = Reopened(Refreshed(orders', q, {s}), orders', q)
       /\ UNCHANGED demand

SupplyNext ==
    \/ \E q \in Requisitions : \/ \E want \in Wants : CreateRequisition(q, want)
                               \/ Submit(q) \/ Answer(q, "approved") \/ Answer(q, "rejected")
                               \/ \E s \in Slots : CancelLine(q, s)
                               \/ CloseRequisition(q)
    \/ \E o \in Orders : \/ \E q \in Requisitions, want \in Wants : CreateOrder(o, q, want)
                         \/ IssueOrder(o) \/ CancelOrder(o) \/ CloseShort(o)
                         \/ \E o2 \in Orders, want \in Wants : Amend(o, o2, want)
                         \/ \E s \in Slots : CommitCapacity(o, s) \/ ReviseCapacity(o, s) \/ DefaultCapacity(o, s)

------------------------------------------------------------------------------

\* What vendors stand committed to on a requisition's line, over every
\* version there ever was, is within what the line asks for: an amendment, a
\* close-short, a default and a re-order never leave two promises for one slot.
CommittedWithinLine ==
    \A q \in Requisitions, s \in Slots :
        SumFunction([o \in {v \in Orders : orders[v].req = q /\ orders[v].lines[s].promise \in Standing} |->
                        orders[o].lines[s].qty])
            <= requisitions[q].lines[s].qty

\* The stored flags say what they are derived from: a line reads `ordered`
\* exactly while live orders cover it, and a version's status is what its
\* lines have committed, on every path that moves either.
ColumnsAreDerived ==
    /\ \A q \in Requisitions : \A s \in Kept(q) :
           (requisitions[q].lines[s].status = "ordered") <=> Covered(orders, q, s)
    /\ \A o \in Orders : orders[o] = Recomputed(orders[o])

==============================================================================

-------------------------- MODULE PurchaseOrders --------------------------
(* The procurement chain of one material requirement: requisitions against *)
(* it, purchase-order versions against a requisition, and the delivery     *)
(* promise of an order.  Every command runs in one transaction under the   *)
(* project's readiness lock, so a command is one action.                   *)
(*                                                                         *)
(* A requisition has one line and an order version one line; an order is   *)
(* the row of a VERSION, and an amendment leaves its row `amended` and     *)
(* takes a new one.  Quotes and their comparison are left out: an approved *)
(* requisition may be ordered.                                             *)
EXTENDS Naturals, Integers, FiniteSets, FiniteSetsExt

CONSTANTS
    Required,      \* the quantity the requirement's revision asks for
    LineQtys,      \* quantities a requisition line may ask for
    OrderQtys,     \* quantities an order may name
    Overages,      \* the overages an issuer may approve, 0 among them
    MaxRequisitions, MaxOrders

ASSUME BoundsAreNaturals == /\ Required \in Nat /\ MaxRequisitions \in Nat /\ MaxOrders \in Nat
                            /\ LineQtys \subseteq Nat /\ OrderQtys \subseteq Nat /\ Overages \subseteq Nat

VARIABLES
    reqs,     \* requisition -> its status, and its line's status and quantity
    orders    \* order version -> its status and its line

Requisitions == 1 .. MaxRequisitions
Orders == 1 .. MaxOrders

NoRequisition == [status |-> "none", line |-> "open", qty |-> 0]
NoOrder == [status |-> "none", req |-> 0, qty |-> 0, overage |-> 0, received |-> 0, delivery |-> "none"]

ReqStatuses == {"none", "draft", "submitted", "approved", "rejected", "closed"}
LiveOrder == {"draft", "issued", "partially_received", "completed"}
OrderStatuses == LiveOrder \cup {"none", "amended", "cancelled", "closed_short"}
Promised == {"committed", "revised"}
Deliveries == Promised \cup {"none", "fulfilled", "defaulted"}

OrdersTypeOK ==
    /\ reqs \in [Requisitions -> [status: ReqStatuses, line: {"open", "ordered", "cancelled"}, qty: Nat]]
    /\ orders \in [Orders -> [status: OrderStatuses, req: Requisitions \cup {0}, qty: Nat,
                              overage: Nat, received: Nat, delivery: Deliveries]]

OrdersInit ==
    /\ reqs = [r \in Requisitions |-> NoRequisition]
    /\ orders = [o \in Orders |-> NoOrder]

------------------------------------------------------------------------------
(* What counts against which ceiling.                                       *)

HoldsAllocation(r) == /\ reqs[r].line \in {"open", "ordered"}
                      /\ reqs[r].status \notin {"none", "rejected", "closed"}

RequirementAllocation == MapThenSumSet(LAMBDA r : reqs[r].qty, {r \in Requisitions : HoldsAllocation(r)})

Counted(order) == CASE order.status \in LiveOrder -> order.qty
                    [] order.status = "closed_short" -> order.received
                    [] OTHER -> 0

LiveAllocation(os, r) == MapThenSumSet(LAMBDA o : Counted(os[o]), {o \in Orders : os[o].req = r})

\* The line's flag once the orders are `os`: fully ordered, or open again.
Refreshed(os, r) ==
    IF reqs[r].line = "cancelled" THEN reqs
    ELSE [reqs EXCEPT ![r].line = IF LiveAllocation(os, r) >= reqs[r].qty THEN "ordered" ELSE "open"]

OrderFits(os, r, qty) == /\ reqs[r].status = "approved"
                         /\ reqs[r].line # "cancelled"
                         /\ LiveAllocation(os, r) + qty <= reqs[r].qty

------------------------------------------------------------------------------
(* Requisitions.                                                            *)

CreateRequisition(r, qty) ==
    /\ reqs[r].status = "none" /\ \A p \in 1 .. r - 1 : reqs[p].status # "none"
    /\ RequirementAllocation + qty <= Required
    /\ reqs' = [reqs EXCEPT ![r] = [status |-> "draft", line |-> "open", qty |-> qty]]
    /\ UNCHANGED orders

Submit(r) ==
    /\ reqs[r].status = "draft" /\ reqs[r].line = "open"
    /\ reqs' = [reqs EXCEPT ![r].status = "submitted"]
    /\ UNCHANGED orders

Approve(r) ==
    /\ reqs[r].status = "submitted"
    /\ reqs' = [reqs EXCEPT ![r].status = "approved"]
    /\ UNCHANGED orders

Reject(r) ==
    /\ reqs[r].status = "submitted"
    /\ reqs' = [reqs EXCEPT ![r].status = "rejected"]
    /\ UNCHANGED orders

CancelLine(r) ==
    /\ reqs[r].status \notin {"none", "rejected", "closed"} /\ reqs[r].line = "open"
    /\ reqs' = [reqs EXCEPT ![r].line = "cancelled"]
    /\ UNCHANGED orders

CloseRequisition(r) ==
    /\ reqs[r].status = "approved" /\ reqs[r].line # "open"
    /\ reqs' = [reqs EXCEPT ![r].status = "closed"]
    /\ UNCHANGED orders

------------------------------------------------------------------------------
(* Order versions.                                                          *)

NextOrder(o) == orders[o].status = "none" /\ \A p \in 1 .. o - 1 : orders[p].status # "none"

CreateOrder(o, r, qty) ==
    /\ NextOrder(o) /\ OrderFits(orders, r, qty)
    /\ orders' = [orders EXCEPT ![o] = [NoOrder EXCEPT !.status = "draft", !.req = r, !.qty = qty]]
    /\ reqs' = Refreshed(orders', r)

IssueOrder(o, over) ==
    /\ orders[o].status = "draft"
    /\ orders' = [orders EXCEPT ![o].status = "issued", ![o].overage = over]
    /\ UNCHANGED reqs

\* The amended version releases its allocation before the new one is measured.
Amend(o, o2, qty, over) ==
    LET r == orders[o].req
        released == [orders EXCEPT ![o].status = "amended"]
    IN /\ orders[o].status = "issued" /\ NextOrder(o2)
       /\ OrderFits(released, r, qty)
       /\ orders' = [released EXCEPT ![o2] = [NoOrder EXCEPT !.status = "issued", !.req = r, !.qty = qty,
                                                             !.overage = over]]
       /\ reqs' = Refreshed(orders', r)

CancelOrder(o) ==
    /\ orders[o].received = 0 /\ orders[o].status \in {"draft", "issued"}
    /\ orders' = [orders EXCEPT ![o].status = "cancelled"]
    /\ reqs' = Refreshed(orders', orders[o].req)

CloseShort(o) ==
    /\ orders[o].status \in {"issued", "partially_received"}
    /\ orders' = [orders EXCEPT ![o].status = "closed_short"]
    /\ reqs' = Refreshed(orders', orders[o].req)

------------------------------------------------------------------------------
(* The delivery promise: at most one per order line, its status apart from  *)
(* the order's.                                                             *)

CommitDelivery(o) ==
    /\ orders[o].status \in {"issued", "partially_received"} /\ orders[o].delivery = "none"
    /\ orders' = [orders EXCEPT ![o].delivery = "committed"]
    /\ UNCHANGED reqs

ReviseDelivery(o) ==
    /\ orders[o].delivery \in Promised
    /\ orders' = [orders EXCEPT ![o].delivery = "revised"]
    /\ UNCHANGED reqs

FulfillDelivery(o) ==
    /\ orders[o].delivery \in Promised /\ orders[o].received >= orders[o].qty
    /\ orders' = [orders EXCEPT ![o].delivery = "fulfilled"]
    /\ UNCHANGED reqs

DefaultDelivery(o) ==
    /\ orders[o].delivery \in Promised
    /\ orders' = [orders EXCEPT ![o].delivery = "defaulted"]
    /\ UNCHANGED reqs

------------------------------------------------------------------------------
(* What inventory asks of procurement inside its own transactions.          *)

Receivable(o) == orders[o].status \in {"issued", "partially_received"} /\ orders[o].delivery # "none"

ProgressFits(o, delta) == /\ delta > 0 => orders[o].received + delta <= orders[o].qty + orders[o].overage
                          /\ orders[o].received + delta >= 0

\* The progress is recorded whatever the version's status; the status follows it
\* only while the version is live.
WithProgress(o, delta) ==
    LET received == orders[o].received + delta
        status == IF received >= orders[o].qty THEN "completed"
                  ELSE IF received > 0 THEN "partially_received" ELSE "issued"
    IN [orders EXCEPT ![o].received = received,
                      ![o].status = IF @ \in {"issued", "partially_received", "completed"} THEN status ELSE @]

OrdersNext ==
    \/ \E r \in Requisitions :
          \/ \E qty \in LineQtys : CreateRequisition(r, qty)
          \/ Submit(r) \/ Approve(r) \/ Reject(r) \/ CancelLine(r) \/ CloseRequisition(r)
    \/ \E o \in Orders :
          \/ \E r \in Requisitions, qty \in OrderQtys : CreateOrder(o, r, qty)
          \/ \E over \in Overages : IssueOrder(o, over)
          \/ \E o2 \in Orders, qty \in OrderQtys, over \in Overages : Amend(o, o2, qty, over)
          \/ CancelOrder(o) \/ CloseShort(o)
          \/ CommitDelivery(o) \/ ReviseDelivery(o) \/ FulfillDelivery(o) \/ DefaultDelivery(o)

==============================================================================

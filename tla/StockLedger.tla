---------------------------- MODULE StockLedger ----------------------------
(* The store of a project: an append-only ledger of movements between the  *)
(* buckets of a stock key (lot, location), composed with the purchase      *)
(* orders it receives against.  Nothing else is stored: balances, an       *)
(* activity's reservation and an issue's custody are folds of the ledger.  *)
(* A command takes the readiness lock and the lot's row lock, appends its  *)
(* rows and records its receipt progress in one transaction: one action.   *)
EXTENDS PurchaseOrders, Sequences

CONSTANTS
    Locations, Activities,
    MoveQtys,    \* quantities a movement may name
    Outside,     \* no bucket, no location, no activity
    MaxLots, MaxRows

Stored == {"quarantine", "acceptedOnHand", "rejected"}
Buckets == Stored \cup {"reserved", "issuedToActivity"}

ASSUME StoreAssumption ==
    /\ Outside \notin Locations \cup Activities \cup Buckets
    /\ IsFiniteSet(Locations) /\ IsFiniteSet(Activities) /\ MoveQtys \subseteq Nat \ {0}
    /\ MaxLots \in Nat

VARIABLES
    lots,      \* lot -> the order version it was received on
    ledger     \* the rows; equal rows are told apart by their copy number

vars == <<reqs, orders, lots, ledger>>

Move(lot, type, qty, from, into, at) ==
    [lot |-> lot, type |-> type, qty |-> qty, from |-> from, into |-> into, at |-> at, to |-> Outside,
     act |-> Outside, issue |-> 0, undoes |-> Outside, n |-> 0]

\* Rows with the same contents in every column but the copy number.
Copies(row) == {r \in ledger : [r EXCEPT !.n = 0] = [row EXCEPT !.n = 0]}
Numbered(row) == [row EXCEPT !.n = Cardinality(Copies(row)) + 1]

LotRows(lot) == {r \in ledger : r.lot = lot}
Issues == {r \in ledger : r.type = "issue"}

------------------------------------------------------------------------------
(* The fold.  A transfer leaves `at` and arrives at `to`; any other row has *)
(* both its sides at `at`.                                                  *)

Arrives(r) == IF r.to = Outside THEN r.at ELSE r.to

Effect(r, bucket, loc) ==
    (IF r.into = bucket /\ Arrives(r) = loc THEN r.qty ELSE 0)
  - (IF r.from = bucket /\ r.at = loc THEN r.qty ELSE 0)

Balance(rows, bucket, loc) ==
    SumFunction([r \in {x \in rows : bucket \in {x.from, x.into}} |-> Effect(r, bucket, loc)])

Free(rows, loc) == Balance(rows, "acceptedOnHand", loc) - Balance(rows, "reserved", loc)

MovementLegal(rows, row) ==
    \A loc \in {row.at, Arrives(row)} :
        /\ \A b \in Buckets : Balance(rows \cup {row}, b, loc) >= 0
        /\ Free(rows \cup {row}, loc) >= 0

ReservedForActivity(rows, loc, a) == Balance({r \in rows : r.act = a}, "reserved", loc)
IssueCustody(rows, loc, i) == Balance({r \in rows : r.issue = i}, "issuedToActivity", loc)

\* A command of one movement on a lot the store holds.
AppendRow(row) ==
    /\ row.lot <= Len(lots) /\ Cardinality(ledger) < MaxRows
    /\ MovementLegal(LotRows(row.lot), Numbered(row))
    /\ ledger' = ledger \cup {Numbered(row)}
    /\ UNCHANGED <<reqs, lots>>

Progress(lot, delta) == ProgressFits(lots[lot], delta) /\ orders' = WithProgress(lots[lot], delta)

------------------------------------------------------------------------------
(* Receipt and quality.                                                     *)

RecordReceipt(o, qty, loc) ==
    LET lot == Len(lots) + 1
        row == Numbered(Move(lot, "receipt", qty, Outside, "quarantine", loc))
    IN /\ lot <= MaxLots /\ Cardinality(ledger) < MaxRows
       /\ Receivable(o) /\ ProgressFits(o, qty)
       /\ orders' = WithProgress(o, qty)
       /\ lots' = lots \o <<o>>
       /\ ledger' = ledger \cup {row}
       /\ UNCHANGED reqs

Accept(lot, qty, loc) ==
    /\ AppendRow(Move(lot, "acceptance", qty, "quarantine", "acceptedOnHand", loc))
    /\ UNCHANGED orders

RejectStock(lot, qty, loc) ==
    /\ AppendRow(Move(lot, "rejection", qty, "quarantine", "rejected", loc))
    /\ Progress(lot, 0 - qty)

VendorReturn(lot, qty, loc) ==
    /\ AppendRow(Move(lot, "vendor_return", qty, "rejected", Outside, loc))
    /\ UNCHANGED orders

Adjust(lot, qty, from, into, loc) ==
    /\ from # into
    /\ AppendRow(Move(lot, "adjustment", qty, from, into, loc))
    /\ UNCHANGED orders

------------------------------------------------------------------------------
(* Reversal: the exact inverse row, with the target's activity and issue.   *)

ExactInverse(row) ==
    LET undo == [row EXCEPT !.type = "reversal", !.undoes = row, !.n = 0]
    IN IF row.to # Outside THEN [undo EXCEPT !.at = row.to, !.to = row.at]
       ELSE [undo EXCEPT !.from = row.into, !.into = row.from]

\* Variant: only the reservation is looked at again.
ScopeOfReservation(rows, row) == row.act # Outside => ReservedForActivity(rows, row.at, row.act) >= 0

ScopeHolds(rows, row) ==
    /\ row.act # Outside => ReservedForActivity(rows, row.at, row.act) >= 0
    /\ row.issue # 0 => IssueCustody(rows, row.at, row.issue) >= 0

\* Variant: undoing a rejection leaves the order's progress alone.
ReverseForgetful(row) ==
    /\ row.type # "reversal"
    /\ \A r \in ledger : r.undoes # row
    /\ AppendRow(ExactInverse(row))
    /\ ScopeHolds(LotRows(row.lot) \cup {Numbered(ExactInverse(row))}, row)
    /\ IF row.type = "receipt" THEN Progress(row.lot, 0 - row.qty) ELSE UNCHANGED orders

Reverse(row) ==
    /\ row.type # "reversal"
    /\ \A r \in ledger : r.undoes # row
    /\ AppendRow(ExactInverse(row))
    /\ ScopeHolds(LotRows(row.lot) \cup {Numbered(ExactInverse(row))}, row)
    /\ CASE row.type = "receipt" -> Progress(row.lot, 0 - row.qty)
         [] row.type = "rejection" -> Progress(row.lot, row.qty)
         [] OTHER -> UNCHANGED orders

------------------------------------------------------------------------------
(* Reservation, issue and custody.                                          *)

Reserve(lot, qty, loc, a) ==
    /\ AppendRow([Move(lot, "reservation", qty, Outside, "reserved", loc) EXCEPT !.act = a])
    /\ UNCHANGED orders

ReleaseRow(lot, qty, loc, a) ==
    [Move(lot, "reservation_release", qty, "reserved", Outside, loc) EXCEPT !.act = a]

Release(lot, qty, loc, a) ==
    /\ ReservedForActivity(LotRows(lot), loc, a) >= qty
    /\ AppendRow(ReleaseRow(lot, qty, loc, a))
    /\ UNCHANGED orders

\* Variant: the whole reservation is released, not only what the issue takes.
IssueReleasingAll(lot, qty, loc, a) ==
    LET released == ReservedForActivity(LotRows(lot), loc, a)
        first == IF released > 0 THEN {Numbered(ReleaseRow(lot, released, loc, a))} ELSE {}
        row == Numbered([Move(lot, "issue", qty, "acceptedOnHand", "issuedToActivity", loc)
                            EXCEPT !.act = a, !.issue = Cardinality(Issues) + 1])
    IN /\ lot <= Len(lots) /\ Cardinality(ledger) + Cardinality(first) < MaxRows
       /\ MovementLegal(LotRows(lot) \cup first, row)
       /\ ledger' = ledger \cup first \cup {row}
       /\ UNCHANGED <<reqs, orders, lots>>

\* The activity's reserved part is released first, in the same transaction.
Issue(lot, qty, loc, a) ==
    LET reserved == ReservedForActivity(LotRows(lot), loc, a)
        released == IF reserved < qty THEN reserved ELSE qty
        first == IF released > 0 THEN {Numbered(ReleaseRow(lot, released, loc, a))} ELSE {}
        row == Numbered([Move(lot, "issue", qty, "acceptedOnHand", "issuedToActivity", loc)
                            EXCEPT !.act = a, !.issue = Cardinality(Issues) + 1])
    IN /\ lot <= Len(lots) /\ Cardinality(ledger) + Cardinality(first) < MaxRows
       /\ MovementLegal(LotRows(lot) \cup first, row)
       /\ ledger' = ledger \cup first \cup {row}
       /\ UNCHANGED <<reqs, orders, lots>>

\* Recorded against an issue, at its lot, location and activity.
AgainstIssue(issue, type, qty, into) ==
    /\ IssueCustody(LotRows(issue.lot), issue.at, issue.issue) >= qty
    /\ AppendRow([Move(issue.lot, type, qty, "issuedToActivity", into, issue.at)
                 EXCEPT !.act = issue.act, !.issue = issue.issue])
    /\ UNCHANGED orders

Consume(issue, qty) == AgainstIssue(issue, "consumption", qty, Outside)
SiteReturn(issue, qty) == AgainstIssue(issue, "site_return", qty, "acceptedOnHand")
Wastage(issue, qty) == AgainstIssue(issue, "wastage", qty, Outside)

Transfer(lot, qty, from, to) ==
    /\ from # to
    /\ AppendRow([Move(lot, "transfer", qty, "acceptedOnHand", "acceptedOnHand", from) EXCEPT !.to = to])
    /\ UNCHANGED orders

\* What coverage counts for an activity: its reservations, and what it was issued
\* and still holds.
Supply(a) ==
    SumFunction([k \in (DOMAIN lots) \X Locations |-> ReservedForActivity(LotRows(k[1]), k[2], a)])
  + SumFunction([i \in {j \in Issues : j.act = a} |-> IssueCustody(LotRows(i.lot), i.at, i.issue)])

------------------------------------------------------------------------------
Init == OrdersInit /\ lots = <<>> /\ ledger = {}

Correction ==
    \E lot \in DOMAIN lots, qty \in MoveQtys, loc \in Locations, from, into \in Stored \cup {Outside} :
        Adjust(lot, qty, from, into, loc)

StoreNext ==
    \/ \E o \in Orders, qty \in MoveQtys, loc \in Locations : RecordReceipt(o, qty, loc)
    \/ \E lot \in DOMAIN lots, qty \in MoveQtys, loc \in Locations :
          \/ Accept(lot, qty, loc) \/ RejectStock(lot, qty, loc) \/ VendorReturn(lot, qty, loc)
          \/ \E a \in Activities :
                Reserve(lot, qty, loc, a) \/ Release(lot, qty, loc, a) \/ Issue(lot, qty, loc, a)
          \/ \E to \in Locations : Transfer(lot, qty, loc, to)
    \/ \E row \in ledger : Reverse(row)
    \/ \E issue \in Issues, qty \in MoveQtys :
          Consume(issue, qty) \/ SiteReturn(issue, qty) \/ Wastage(issue, qty)

Next == (OrdersNext /\ UNCHANGED <<lots, ledger>>) \/ Correction \/ StoreNext

Spec == Init /\ [][Next]_vars

------------------------------------------------------------------------------
(* Properties.                                                              *)

TypeOK ==
    /\ OrdersTypeOK
    /\ lots \in Seq(Orders) /\ Len(lots) <= MaxLots
    /\ \A r \in ledger : /\ r.lot \in DOMAIN lots /\ r.qty \in Nat \ {0}
                          /\ {r.from, r.into} \subseteq Buckets \cup {Outside}
                          /\ r.at \in Locations /\ r.to \in Locations \cup {Outside}

\* What a row adds to what its order line has received.
Progressed(r, o) ==
    CASE lots[r.lot] # o -> 0
      [] lots[r.lot] = o /\ (r.type = "receipt" \/ (r.type = "reversal" /\ r.undoes.type = "rejection")) -> r.qty
      [] lots[r.lot] = o /\ (r.type = "rejection" \/ (r.type = "reversal" /\ r.undoes.type = "receipt")) -> 0 - r.qty
      [] OTHER -> 0

\* The received quantity of an order line, kept by procurement in a column of its
\* own, is what the ledger's receipts less its rejections come to, reversals of
\* either included, whatever happened to the order in between.
ReceivedIsLedger ==
    \A o \in Orders : orders[o].received = SumFunction([r \in ledger |-> Progressed(r, o)])

\* An activity never holds a negative reservation at a stock key, and the
\* reservations of the activities together are the reserved bucket: what one
\* activity releases, is issued or has undone never comes out of another's.
ReservationsHold ==
    \A lot \in DOMAIN lots, loc \in Locations :
        /\ \A a \in Activities : ReservedForActivity(LotRows(lot), loc, a) >= 0
        /\ SumFunction([a \in Activities |-> ReservedForActivity(LotRows(lot), loc, a)])
             = Balance(LotRows(lot), "reserved", loc)

\* No issue is consumed, returned, wasted and undone beyond what it carried out,
\* and all custody is some issue's.
CustodyHolds ==
    /\ \A i \in Issues : IssueCustody(LotRows(i.lot), i.at, i.issue) \in 0 .. i.qty
    /\ \A lot \in DOMAIN lots, loc \in Locations :
          SumFunction([i \in {j \in Issues : j.lot = lot} |-> IssueCustody(LotRows(lot), loc, i.issue)])
             = Balance(LotRows(lot), "issuedToActivity", loc)

\* What is held of the stock, reserved or carried out, is held for someone.
HoldingsAreOwned == ReservationsHold /\ CustodyHolds

\* A receipt line is never received beyond its order and the approved overage,
\* counting what was rejected and taken back again.
ReceiptsWithinOrder == \A o \in Orders : orders[o].received <= orders[o].qty + orders[o].overage

\* What an order line has received is what the ledger says, and within what was
\* ordered, through every receipt, rejection and reversal in any order.
ReceiptsAccounted == TypeOK /\ ReceivedIsLedger /\ ReceiptsWithinOrder

\* Stock issued to an activity out of its own reservation or the free pool never
\* lowers what it, or any other activity, is covered for.
IssueStep == \E r \in ledger' \ ledger : r.type = "issue"
IssueKeepsCoverage == [][IssueStep => \A a \in Activities : Supply(a)' >= Supply(a)]_vars

\* The lines of a requirement's requisitions that are open or ordered never ask
\* for more than the requirement does.
RequirementBound ==
    MapThenSumSet(LAMBDA r : reqs[r].qty,
                  {r \in Requisitions : reqs[r].line \in {"open", "ordered"}
                                       /\ reqs[r].status \notin {"none", "rejected"}}) <= Required

\* The orders of a requisition line never take more than the line asks for.
OrderBound == \A r \in Requisitions : LiveAllocation(orders, r) <= reqs[r].qty

\* A fulfilled promise has nothing outstanding: its order is received in full.
FulfilledIsReceived == \A o \in Orders : orders[o].delivery = "fulfilled" => orders[o].received >= orders[o].qty
==============================================================================

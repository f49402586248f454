---------------------------- MODULE StockProofs ----------------------------
(* The store and its orders, for any number of orders, lots, locations,    *)
(* activities and rows: what an order line received is what the ledger     *)
(* says, what is held is held for someone, and an issue out of a           *)
(* reservation lowers nobody's coverage.  The ledger grows row by row, so  *)
(* its part of the invariant is stated of any set of rows, and a command   *)
(* that appends two is two additions.                                      *)
EXTENDS StockLedger, SumTheorems

------------------------------------------------------------------------------
(* Rows, and the rows of a stock key, an activity's and an issue's.         *)

RowShape(r) ==
    r = [lot |-> r.lot, type |-> r.type, qty |-> r.qty, from |-> r.from, into |-> r.into, at |-> r.at,
         to |-> r.to, act |-> r.act, issue |-> r.issue, undoes |-> r.undoes, n |-> r.n]

RowValues(r) ==
    /\ r.qty \in Nat \ {0} /\ {r.from, r.into} \subseteq Buckets \cup {Outside}
    /\ r.at \in Locations /\ r.to \in Locations \cup {Outside}
    /\ r.act \in Activities \cup {Outside} /\ r.issue \in Nat

IsRow(r) == RowShape(r) /\ RowValues(r) /\ r.n \in Nat \ {0}

OfLot(L, lot) == {r \in L : r.lot = lot}
Held(L, lot, loc, a) == Balance({r \in OfLot(L, lot) : r.act = a}, "reserved", loc)
Custody(L, lot, loc, k) == Balance({r \in OfLot(L, lot) : r.issue = k}, "issuedToActivity", loc)
IssuesIn(L) == {r \in L : r.type = "issue"}

\* Equal but for the copy number.
Alike(r, s) == [r EXCEPT !.n = 0] = [s EXCEPT !.n = 0]
CopiesIn(L, row) == {r \in L : Alike(r, row)}
NumberedIn(L, row) == [row EXCEPT !.n = Cardinality(CopiesIn(L, row)) + 1]

Undone(L, r) == \E s \in L : s.type = "reversal" /\ s.undoes = r

\* What was consumed, returned and wasted of an issue, and not undone.
Drawn(L, k) == {r \in L : r.issue = k /\ r.type \notin {"issue", "reversal"} /\ ~Undone(L, r)}
DrawnQty(L, k) == SumFunction([r \in Drawn(L, k) |-> r.qty])
Carried(L, i) == IF Undone(L, i) THEN 0 ELSE i.qty

------------------------------------------------------------------------------
(* The inductive invariant of the rows L of a store with n lots.            *)

Shaped(L, n) == IsFiniteSet(L) /\ \A r \in L : IsRow(r) /\ r.lot \in 1 .. n

\* Copies are numbered from one, so a row that is appended is a new one.
CopiesNumbered(L) == \A r \in L : r.n <= Cardinality(CopiesIn(L, r))

UndoesItsOwn(L) == \A r \in L : r.type = "reversal" => r.undoes \in L

OfIssue(r, i) == i.issue = r.issue /\ i.lot = r.lot /\ i.at = r.at /\ i.act = r.act

\* Issues are told apart by their numbers, and a row that carries a number
\* belongs to the issue's lot, location and activity.
IssuesNumbered(L) ==
    /\ \A i \in IssuesIn(L) : i.issue \in 1 .. Cardinality(IssuesIn(L))
    /\ \A i, j \in IssuesIn(L) : i.issue = j.issue => i = j
    /\ \A r \in L : r.issue # 0 => \E i \in IssuesIn(L) : OfIssue(r, i)

\* Only rows of an activity touch its reservation, only rows of an issue its custody.
OwnedRow(r) ==
    /\ "reserved" \in {r.from, r.into} => r.act \in Activities /\ r.to = Outside
    /\ "issuedToActivity" \in {r.from, r.into} => r.issue # 0
    /\ r.issue # 0 => r.to = Outside
    /\ r.type = "issue" => r.from = "acceptedOnHand" /\ r.into = "issuedToActivity"
    /\ r.issue # 0 /\ r.type \notin {"issue", "reversal"} => r.from = "issuedToActivity" /\ r.into # "issuedToActivity"

Attributed(L) == \A r \in L : OwnedRow(r)

ReservedOwned(L, n) ==
    \A lot \in 1 .. n, loc \in Locations :
        /\ \A a \in Activities : Held(L, lot, loc, a) >= 0
        /\ SumFunction([a \in Activities |-> Held(L, lot, loc, a)]) = Balance(OfLot(L, lot), "reserved", loc)

\* What an issue still holds, and what was drawn from it, is what it carried out.
CustodyBalanced(L) ==
    \A i \in IssuesIn(L) : /\ Custody(L, i.lot, i.at, i.issue) >= 0
                           /\ Custody(L, i.lot, i.at, i.issue) + DrawnQty(L, i.issue) = Carried(L, i)

CustodyOwned(L, n) ==
    \A lot \in 1 .. n, loc \in Locations :
        SumFunction([i \in {j \in IssuesIn(L) : j.lot = lot} |-> Custody(L, lot, loc, i.issue)])
          = Balance(OfLot(L, lot), "issuedToActivity", loc)

RowsInv(L, n) ==
    /\ Shaped(L, n) /\ CopiesNumbered(L) /\ UndoesItsOwn(L) /\ IssuesNumbered(L) /\ Attributed(L)
    /\ ReservedOwned(L, n) /\ CustodyBalanced(L) /\ CustodyOwned(L, n)

Order == [status: OrderStatuses, req: Requisitions \cup {0}, qty: Nat, overage: Nat, received: Nat, delivery: Deliveries]
Requested == [Requisitions -> [status: ReqStatuses, line: {"open", "ordered", "cancelled"}, qty: Nat]]

Unissued == {"none", "draft"}

\* What was received, was received on an order that was issued.
OrderSound(x) == /\ x \in Order /\ x.received <= x.qty + x.overage
                 /\ x.status \in Unissued => x.received = 0

OrdersSound(os) == os \in [Orders -> Order] /\ \A o \in Orders : OrderSound(os[o])
LotsSound(os, ls) ==
    ls \in Seq(Orders) /\ Len(ls) <= MaxLots /\ \A lot \in 1 .. Len(ls) : os[ls[lot]].status \notin Unissued

OrdersInv == reqs \in Requested /\ OrdersSound(orders) /\ LotsSound(orders, lots)

StockInv == OrdersInv /\ RowsInv(ledger, Len(lots)) /\ ReceivedIsLedger

------------------------------------------------------------------------------
(* Balances, as rows are added.                                             *)

LEMMA EffectIs ==
    ASSUME NEW r, r.qty \in Nat, NEW b, NEW loc
    PROVE  /\ Effect(r, b, loc) \in Int
           /\ b \notin {r.from, r.into} => Effect(r, b, loc) = 0
           /\ r.to = Outside /\ loc # r.at => Effect(r, b, loc) = 0
           /\ r.to = Outside /\ loc = r.at =>
                Effect(r, b, loc) = (IF r.into = b THEN r.qty ELSE 0) - (IF r.from = b THEN r.qty ELSE 0)
  BY DEF Effect, Arrives

Touching(R, b) == {x \in R : b \in {x.from, x.into}}
Effects(R, b, loc) == [r \in Touching(R, b) |-> Effect(r, b, loc)]

LEMMA BalanceIs ==
    ASSUME NEW R, IsFiniteSet(R), \A r \in R : r.qty \in Nat, NEW b, NEW loc
    PROVE  /\ IsFiniteSet(Touching(R, b)) /\ Effects(R, b, loc) \in [Touching(R, b) -> Int]
           /\ Balance(R, b, loc) = SumFunction(Effects(R, b, loc)) /\ Balance(R, b, loc) \in Int
<1>1. IsFiniteSet(Touching(R, b))
  BY FS_Subset DEF Touching
<1>2. Effects(R, b, loc) \in [Touching(R, b) -> Int]
  BY EffectIs DEF Effects, Touching
<1>3. Balance(R, b, loc) = SumFunction(Effects(R, b, loc))
  BY DEF Balance, Effects, Touching
<1> QED BY <1>1, <1>2, <1>3, SumInInt

LEMMA BalanceAdd ==
    ASSUME NEW R, IsFiniteSet(R), \A r \in R : r.qty \in Nat, NEW x, x \notin R, x.qty \in Nat, NEW b, NEW loc
    PROVE  Balance(R \cup {x}, b, loc) = Balance(R, b, loc) + Effect(x, b, loc)
<1> DEFINE S == Touching(R, b)
           T == Touching(R \cup {x}, b)
           f == Effects(R, b, loc)
           k == Effects(R \cup {x}, b, loc)
<1>1. IsFiniteSet(R \cup {x}) /\ \A r \in R \cup {x} : r.qty \in Nat
  BY FS_AddElement
<1>2. IsFiniteSet(S) /\ f \in [S -> Int] /\ Balance(R, b, loc) = SumFunction(f) /\ Balance(R, b, loc) \in Int
  BY BalanceIs
<1>3. IsFiniteSet(T) /\ k \in [T -> Int] /\ Balance(R \cup {x}, b, loc) = SumFunction(k)
      /\ Balance(R \cup {x}, b, loc) \in Int
  BY <1>1, BalanceIs
<1>4. x \notin S /\ S \ {x} = T \ {x} /\ (x \in T <=> b \in {x.from, x.into})
  BY DEF Touching
<1>5. (\A y \in S \ {x} : f[y] = k[y]) /\ (x \in T => k[x] = Effect(x, b, loc))
  BY DEF Effects, Touching
<1> HIDE DEF S, T, f, k
<1>6. SumFunction(k) + At(f, S, x) = SumFunction(f) + At(k, T, x)
  BY <1>2, <1>3, <1>4, <1>5, OneDiffers
<1>7. At(f, S, x) = 0 /\ At(k, T, x) = Effect(x, b, loc) /\ Effect(x, b, loc) \in Int
  BY <1>4, <1>5, EffectIs DEF At
<1> QED BY <1>2, <1>3, <1>6, <1>7

LEMMA BalanceNone == \A b, loc : Balance({}, b, loc) = 0
<1> SUFFICES ASSUME NEW b, NEW loc PROVE Balance({}, b, loc) = 0
  OBVIOUS
<1>1. Balance({}, b, loc) = SumFunction(Effects({}, b, loc)) /\ DOMAIN Effects({}, b, loc) = {}
  BY DEF Balance, Effects, Touching
<1> QED BY <1>1, SumNone

LEMMA PartOfRows ==
    ASSUME NEW L, NEW n, Shaped(L, n), NEW R, R \subseteq L
    PROVE  IsFiniteSet(R) /\ \A r \in R : r.qty \in Nat
  BY FS_Subset DEF Shaped, IsRow, RowValues

LEMMA LotMore ==
    ASSUME NEW L, NEW n, Shaped(L, n), NEW x, x \notin L, x.qty \in Nat, NEW lot, NEW loc, NEW b
    PROVE  /\ Balance(OfLot(L, lot), b, loc) \in Int /\ Effect(x, b, loc) \in Int
           /\ x.lot # lot => Balance(OfLot(L \cup {x}, lot), b, loc) = Balance(OfLot(L, lot), b, loc)
           /\ x.lot = lot => Balance(OfLot(L \cup {x}, lot), b, loc) = Balance(OfLot(L, lot), b, loc) + Effect(x, b, loc)
<1> DEFINE R == OfLot(L, lot)
           R1 == OfLot(L \cup {x}, lot)
<1>1. IsFiniteSet(R) /\ (\A r \in R : r.qty \in Nat) /\ x \notin R
  BY PartOfRows DEF OfLot
<1>2. R1 = IF x.lot = lot THEN R \cup {x} ELSE R
  BY DEF OfLot
<1> HIDE DEF R, R1
<1>3. Balance(R, b, loc) \in Int /\ Balance(R \cup {x}, b, loc) = Balance(R, b, loc) + Effect(x, b, loc)
  BY <1>1, BalanceIs, BalanceAdd
<1>4. Effect(x, b, loc) \in Int
  BY EffectIs
<1> QED BY <1>2, <1>3, <1>4 DEF R, R1

LEMMA HeldMore ==
    ASSUME NEW L, NEW n, Shaped(L, n), NEW x, x \notin L, x.qty \in Nat, NEW lot, NEW loc, NEW a
    PROVE  /\ Held(L, lot, loc, a) \in Int
           /\ Held(L \cup {x}, lot, loc, a) =
                Held(L, lot, loc, a) + (IF x.lot = lot /\ x.act = a THEN Effect(x, "reserved", loc) ELSE 0)
<1> DEFINE R == {r \in OfLot(L, lot) : r.act = a}
           R1 == {r \in OfLot(L \cup {x}, lot) : r.act = a}
<1>1. IsFiniteSet(R) /\ (\A r \in R : r.qty \in Nat) /\ x \notin R
  BY PartOfRows DEF OfLot
<1>2. R1 = IF x.lot = lot /\ x.act = a THEN R \cup {x} ELSE R
  BY DEF OfLot
<1>3. Held(L, lot, loc, a) = Balance(R, "reserved", loc) /\ Held(L \cup {x}, lot, loc, a) = Balance(R1, "reserved", loc)
  BY DEF Held
<1> HIDE DEF R, R1
<1>4. Balance(R, "reserved", loc) \in Int
      /\ Balance(R \cup {x}, "reserved", loc) = Balance(R, "reserved", loc) + Effect(x, "reserved", loc)
  BY <1>1, BalanceIs, BalanceAdd
<1> QED BY <1>2, <1>3, <1>4

LEMMA CustodyMore ==
    ASSUME NEW L, NEW n, Shaped(L, n), NEW x, x \notin L, x.qty \in Nat, NEW lot, NEW loc, NEW k
    PROVE  /\ Custody(L, lot, loc, k) \in Int
           /\ Custody(L \cup {x}, lot, loc, k) =
                Custody(L, lot, loc, k) + (IF x.lot = lot /\ x.issue = k THEN Effect(x, "issuedToActivity", loc) ELSE 0)
<1> DEFINE R == {r \in OfLot(L, lot) : r.issue = k}
           R1 == {r \in OfLot(L \cup {x}, lot) : r.issue = k}
<1>1. IsFiniteSet(R) /\ (\A r \in R : r.qty \in Nat) /\ x \notin R
  BY PartOfRows DEF OfLot
<1>2. R1 = IF x.lot = lot /\ x.issue = k THEN R \cup {x} ELSE R
  BY DEF OfLot
<1>3. Custody(L, lot, loc, k) = Balance(R, "issuedToActivity", loc) /\ Custody(L \cup {x}, lot, loc, k) = Balance(R1, "issuedToActivity", loc)
  BY DEF Custody
<1> HIDE DEF R, R1
<1>4. Balance(R, "issuedToActivity", loc) \in Int
      /\ Balance(R \cup {x}, "issuedToActivity", loc) = Balance(R, "issuedToActivity", loc) + Effect(x, "issuedToActivity", loc)
  BY <1>1, BalanceIs, BalanceAdd
<1> QED BY <1>2, <1>3, <1>4

------------------------------------------------------------------------------
(* A row that a command may append to the rows L.                           *)

Inverts(x, d) == /\ x.issue = d.issue /\ x.qty = d.qty
                 /\ x.issue # 0 => x.from = d.into /\ x.into = d.from

MayFollow(L, n, x) ==
    /\ IsRow(x) /\ x.lot \in 1 .. n /\ x \notin L /\ CopiesNumbered(L \cup {x}) /\ OwnedRow(x)
    /\ x.type = "reversal" => /\ x.undoes \in L /\ x.undoes.type # "reversal"
                              /\ ~Undone(L, x.undoes) /\ Inverts(x, x.undoes)
    /\ x.type = "issue" => x.issue = Cardinality(IssuesIn(L)) + 1
    /\ x.type # "issue" /\ x.issue # 0 => \E i \in IssuesIn(L) : OfIssue(x, i)
    /\ "reserved" \in {x.from, x.into} => Held(L \cup {x}, x.lot, x.at, x.act) >= 0
    /\ x.issue # 0 => Custody(L \cup {x}, x.lot, x.at, x.issue) >= 0

LEMMA ShapedAdd ==
    ASSUME NEW L, NEW n, RowsInv(L, n), NEW x, MayFollow(L, n, x)
    PROVE  Shaped(L \cup {x}, n) /\ CopiesNumbered(L \cup {x}) /\ UndoesItsOwn(L \cup {x}) /\ Attributed(L \cup {x})
<1>1. Shaped(L \cup {x}, n)
  BY FS_AddElement DEF Shaped, MayFollow, RowsInv
<1>2. CopiesNumbered(L \cup {x}) /\ Attributed(L \cup {x})
  BY DEF RowsInv, MayFollow, Attributed
<1>3. UndoesItsOwn(L \cup {x})
  BY DEF RowsInv, MayFollow, UndoesItsOwn
<1> QED BY <1>1, <1>2, <1>3

\* The issues stay numbered from one, and no row carries the next number.
LEMMA NumbersAdd ==
    ASSUME NEW L, NEW n, RowsInv(L, n), NEW x, MayFollow(L, n, x)
    PROVE  /\ IssuesNumbered(L \cup {x})
           /\ IssuesIn(L \cup {x}) = IF x.type = "issue" THEN IssuesIn(L) \cup {x} ELSE IssuesIn(L)
           /\ x.type = "issue" => x.issue \in Nat \ {0} /\ \A r \in L : r.issue # x.issue
<1> DEFINE I == IssuesIn(L)
           J == IssuesIn(L \cup {x})
<1>1. IsFiniteSet(I) /\ Cardinality(I) \in Nat /\ x \notin I
  BY FS_Subset, FS_CardinalityType DEF IssuesIn, RowsInv, Shaped, MayFollow
<1>2. J = IF x.type = "issue" THEN I \cup {x} ELSE I
  BY DEF IssuesIn
<1>3. Cardinality(J) = IF x.type = "issue" THEN Cardinality(I) + 1 ELSE Cardinality(I)
  BY <1>1, <1>2, FS_AddElement
<1>4. /\ \A i \in I : i.issue \in 1 .. Cardinality(I)
      /\ \A i, j \in I : i.issue = j.issue => i = j
      /\ \A r \in L : r.issue # 0 => \E i \in I : OfIssue(r, i)
  BY DEF RowsInv, IssuesNumbered
<1>5. x.type = "issue" => x.issue = Cardinality(I) + 1 
  BY DEF MayFollow
<1>6. x.type # "issue" /\ x.issue # 0 => \E i \in I : OfIssue(x, i)
  BY DEF MayFollow
<1> HIDE DEF I, J
<1>7. x.type = "issue" => x.issue \in Nat \ {0} /\ \A r \in L : r.issue # x.issue
  BY <1>1, <1>4, <1>5 DEF OfIssue
<1>8. \A i \in J : i.issue \in 1 .. Cardinality(J)
  BY <1>1, <1>2, <1>3, <1>4, <1>5
<1>9. \A i, j \in J : i.issue = j.issue => i = j
  BY <1>1, <1>2, <1>4, <1>5
<1>10. \A r \in L \cup {x} : r.issue # 0 => \E i \in J : OfIssue(r, i)
  BY <1>2, <1>4, <1>6 DEF OfIssue
<1> QED BY <1>2, <1>7, <1>8, <1>9, <1>10 DEF IssuesNumbered, I, J

LEMMA ReservedAdd ==
    ASSUME NEW L, NEW n, RowsInv(L, n), NEW x, MayFollow(L, n, x)
    PROVE  ReservedOwned(L \cup {x}, n)
<1> SUFFICES ASSUME NEW lot \in 1 .. n, NEW loc \in Locations
             PROVE  /\ \A a \in Activities : Held(L \cup {x}, lot, loc, a) >= 0
                    /\ SumFunction([a \in Activities |-> Held(L \cup {x}, lot, loc, a)])
                         = Balance(OfLot(L \cup {x}, lot), "reserved", loc)
  BY DEF ReservedOwned
<1> DEFINE d == IF x.lot = lot THEN Effect(x, "reserved", loc) ELSE 0
           f == [a \in Activities |-> Held(L, lot, loc, a)]
           k == [a \in Activities |-> Held(L \cup {x}, lot, loc, a)]
<1>0. Shaped(L, n) /\ x \notin L /\ x.qty \in Nat
  BY DEF RowsInv, MayFollow, IsRow, RowValues
<1>o. OwnedRow(x)
  BY DEF MayFollow
<1>1. d \in Int /\ (d # 0 => x.lot = lot /\ loc = x.at /\ x.act \in Activities /\ "reserved" \in {x.from, x.into})
  BY <1>0, <1>o, EffectIs DEF OwnedRow
<1>2. \A a : Held(L, lot, loc, a) \in Int /\ Held(L \cup {x}, lot, loc, a) = Held(L, lot, loc, a) + (IF x.act = a THEN d ELSE 0)
  BY <1>0, <1>1, HeldMore
<1>3. Balance(OfLot(L, lot), "reserved", loc) \in Int
      /\ Balance(OfLot(L \cup {x}, lot), "reserved", loc) = Balance(OfLot(L, lot), "reserved", loc) + d
  <2> DEFINE b == "reserved"
  <2> HIDE DEF b
  <2>1. /\ Balance(OfLot(L, lot), b, loc) \in Int
        /\ x.lot # lot => Balance(OfLot(L \cup {x}, lot), b, loc) = Balance(OfLot(L, lot), b, loc)
        /\ x.lot = lot => Balance(OfLot(L \cup {x}, lot), b, loc) = Balance(OfLot(L, lot), b, loc) + Effect(x, b, loc)
    BY <1>0, LotMore
  <2> QED BY <2>1 DEF b
<1>4. /\ \A a \in Activities : Held(L, lot, loc, a) >= 0
      /\ SumFunction(f) = Balance(OfLot(L, lot), "reserved", loc)
  BY DEF RowsInv, ReservedOwned
<1>5. d # 0 => Held(L \cup {x}, lot, loc, x.act) >= 0
  BY <1>1 DEF MayFollow
<1> HIDE DEF d
<1>6. \A a \in Activities : Held(L \cup {x}, lot, loc, a) >= 0
  BY <1>1, <1>2, <1>4, <1>5
<1>t. \A a : Held(L, lot, loc, a) \in Int /\ Held(L \cup {x}, lot, loc, a) \in Int
  BY <1>1, <1>2
<1>7. f \in [Activities -> Int] /\ k \in [Activities -> Int]
  BY <1>t
<1>8. \A a \in Activities \ {x.act} : f[a] = k[a]
  BY <1>2
<1>9. x.act \in Activities => k[x.act] = f[x.act] + d
  BY <1>2
<1> HIDE DEF f, k
<1>10. SumFunction(f) \in Int /\ SumFunction(k) \in Int
       /\ SumFunction(k) + At(f, Activities, x.act) = SumFunction(f) + At(k, Activities, x.act)
  BY <1>7, <1>8, OneDiffers, StoreAssumption
<1>11. SumFunction(k) = SumFunction(f) + d
  <2>1. CASE x.act \in Activities
    <3>1. f[x.act] \in Int /\ At(f, Activities, x.act) = f[x.act] /\ At(k, Activities, x.act) = f[x.act] + d
      BY <1>7, <1>9, <2>1 DEF At
    <3>2. d \in Int
      BY <1>1
    <3> QED BY <1>10, <3>1, <3>2
  <2>2. CASE x.act \notin Activities
    BY <1>1, <1>10, <2>2 DEF At
  <2> QED BY <2>1, <2>2
<1> QED BY <1>3, <1>4, <1>6, <1>11 DEF k

\* What a row of an issue does to the issue's custody at its location.
LEMMA CustodyEffect ==
    ASSUME NEW L, NEW n, RowsInv(L, n), NEW x, MayFollow(L, n, x), NEW loc
    PROVE  /\ Effect(x, "issuedToActivity", loc) \in Int
           /\ x.issue = 0 \/ loc # x.at => Effect(x, "issuedToActivity", loc) = 0
           /\ x.issue # 0 /\ loc = x.at =>
                Effect(x, "issuedToActivity", loc) =
                  CASE x.type = "issue" -> x.qty
                    [] x.type = "reversal" /\ x.undoes.type = "issue" -> 0 - x.qty
                    [] x.type = "reversal" /\ x.undoes.type # "issue" -> x.qty
                    [] OTHER -> 0 - x.qty
<1>1. x.qty \in Nat /\ x.qty > 0 /\ OwnedRow(x)
  BY DEF MayFollow, IsRow, RowValues
<1>2. Effect(x, "issuedToActivity", loc) \in Int
      /\ (x.issue = 0 \/ loc # x.at => Effect(x, "issuedToActivity", loc) = 0)
  BY <1>1, EffectIs DEF OwnedRow
<1>3. x.issue # 0 /\ loc = x.at =>
        Effect(x, "issuedToActivity", loc) = (IF x.into = "issuedToActivity" THEN x.qty ELSE 0)
                                             - (IF x.from = "issuedToActivity" THEN x.qty ELSE 0)
  BY <1>1, EffectIs DEF OwnedRow
<1>4. ASSUME x.issue # 0, x.type = "reversal"
      PROVE  /\ x.undoes.type = "issue" => x.from = "issuedToActivity" /\ x.into = "acceptedOnHand"
             /\ x.undoes.type # "issue" => x.from # "issuedToActivity" /\ x.into = "issuedToActivity"
  <2>1. x.undoes \in L /\ x.undoes.type # "reversal" /\ Inverts(x, x.undoes)
    BY <1>4 DEF MayFollow
  <2>2. OwnedRow(x.undoes)
    BY <2>1 DEF RowsInv, Attributed
  <2> QED BY <1>4, <2>1, <2>2 DEF Inverts, OwnedRow
<1>5. x.type = "issue" => x.from # "issuedToActivity" /\ x.into = "issuedToActivity"
  BY <1>1 DEF OwnedRow
<1>6. x.issue # 0 /\ x.type \notin {"issue", "reversal"} => x.from = "issuedToActivity" /\ x.into # "issuedToActivity"
  BY <1>1 DEF OwnedRow
<1> QED BY <1>1, <1>2, <1>3, <1>4, <1>5, <1>6

\* The row at hand is new to every reversal before it.
LEMMA UndoneAdd ==
    ASSUME NEW L, NEW n, RowsInv(L, n), NEW x, MayFollow(L, n, x)
    PROVE  /\ ~Undone(L \cup {x}, x)
           /\ \A r : r # x => (Undone(L \cup {x}, r) <=> Undone(L, r) \/ (x.type = "reversal" /\ x.undoes = r))
<1>1. \A r \in L : r.type = "reversal" => r.undoes # x
  BY DEF RowsInv, UndoesItsOwn, MayFollow
<1>2. x.type = "reversal" => x.undoes # x
  BY DEF MayFollow
<1> QED BY <1>1, <1>2 DEF Undone

LEMMA DrawnIsFinite ==
    ASSUME NEW L, NEW n, Shaped(L, n), NEW i
    PROVE  IsFiniteSet(Drawn(L, i)) /\ [r \in Drawn(L, i) |-> r.qty] \in [Drawn(L, i) -> Nat] /\ DrawnQty(L, i) \in Nat
<1>1. IsFiniteSet(Drawn(L, i)) /\ \A r \in Drawn(L, i) : r.qty \in Nat
  BY PartOfRows, Drawn(L, i) \subseteq L DEF Drawn
<1> QED BY <1>1, SumInNat DEF DrawnQty

\* What is drawn from an issue, as rows are added.
LEMMA DrawnAdd ==
    ASSUME NEW L, NEW n, RowsInv(L, n), NEW x, MayFollow(L, n, x), NEW i, i \in Nat \ {0}
    PROVE  DrawnQty(L \cup {x}, i) = DrawnQty(L, i) +
             (CASE x.issue # i \/ x.type = "issue" -> 0
                [] x.issue = i /\ x.type = "reversal" /\ x.undoes.type = "issue" -> 0
                [] x.issue = i /\ x.type = "reversal" /\ x.undoes.type # "issue" -> 0 - x.qty
                [] OTHER -> x.qty)
<1> DEFINE S == Drawn(L, i)
           T == Drawn(L \cup {x}, i)
           f == [r \in S |-> r.qty]
           k == [r \in T |-> r.qty]
           z == IF x.type = "reversal" THEN x.undoes ELSE x
<1>0. Shaped(L, n) /\ Shaped(L \cup {x}, n) /\ x \notin L /\ x.qty \in Nat
  BY ShapedAdd DEF RowsInv, MayFollow, IsRow, RowValues
<1>1. IsFiniteSet(S) /\ f \in [S -> Nat] /\ DrawnQty(L, i) = SumFunction(f)
  BY <1>0, DrawnIsFinite DEF DrawnQty
<1>2. IsFiniteSet(T) /\ k \in [T -> Nat] /\ DrawnQty(L \cup {x}, i) = SumFunction(k)
  BY <1>0, DrawnIsFinite DEF DrawnQty
<1>3. S \ {z} = T \ {z} 
  BY UndoneAdd DEF Drawn
<1>4. \A y \in S \ {z} : f[y] = k[y]
  BY <1>3
<1>5. x.type = "reversal" => /\ x.undoes \in L /\ x.undoes.type # "reversal"
                             /\ ~Undone(L, x.undoes) /\ Inverts(x, x.undoes) /\ x.undoes # x
  BY DEF MayFollow
<1>6. (z \in S <=> x.type = "reversal" /\ x.issue = i /\ x.undoes.type # "issue") /\ (z \in S => z.qty = x.qty)
  BY <1>0, <1>5 DEF Drawn, Inverts
<1>7. (z \in T <=> x.type \notin {"issue", "reversal"} /\ x.issue = i) /\ (z \in T => z.qty = x.qty)
  BY <1>0, <1>5, UndoneAdd DEF Drawn, Inverts
<1>8. At(f, S, z) = IF z \in S THEN x.qty ELSE 0
  BY <1>6 DEF At
<1>9. At(k, T, z) = IF z \in T THEN x.qty ELSE 0
  BY <1>7 DEF At
<1> HIDE DEF S, T, f, k, z
<1>10. SumFunction(f) \in Nat /\ SumFunction(k) \in Nat /\ SumFunction(k) + At(f, S, z) = SumFunction(f) + At(k, T, z)
  BY <1>1, <1>2, <1>3, <1>4, OneChanges
<1>11. DrawnQty(L \cup {x}, i) + (IF z \in S THEN x.qty ELSE 0) = DrawnQty(L, i) + (IF z \in T THEN x.qty ELSE 0)
       /\ DrawnQty(L \cup {x}, i) \in Nat /\ DrawnQty(L, i) \in Nat
  BY <1>1, <1>2, <1>8, <1>9, <1>10
<1>12. DrawnQty(L \cup {x}, i) = DrawnQty(L, i) + (IF z \in T THEN x.qty ELSE 0) - (IF z \in S THEN x.qty ELSE 0)
  BY <1>0, <1>11
<1> QED BY <1>0, <1>6, <1>7, <1>11, <1>12

\* Nothing carries, and nothing is drawn from, an issue that is not there yet.
LEMMA NumberUnused ==
    ASSUME NEW L, NEW k, \A r \in L : r.issue # k
    PROVE  /\ \A lot, loc : Custody(L, lot, loc, k) = 0
           /\ DrawnQty(L, k) = 0
<1>1. ASSUME NEW lot, NEW loc PROVE Custody(L, lot, loc, k) = 0
  <2>1. {r \in OfLot(L, lot) : r.issue = k} = {}
    BY DEF OfLot
  <2>2. Custody(L, lot, loc, k) = Balance({}, "issuedToActivity", loc)
    BY <2>1 DEF Custody
  <2> QED BY <2>2, BalanceNone
<1>2. DrawnQty(L, k) = 0
  <2>1. Drawn(L, k) = {}
    BY DEF Drawn
  <2> QED BY <2>1, SumNone DEF DrawnQty
<1> QED BY <1>1, <1>2

LEMMA CustodyAdd ==
    ASSUME NEW L, NEW n, RowsInv(L, n), NEW x, MayFollow(L, n, x)
    PROVE  CustodyBalanced(L \cup {x})
<1> DEFINE M == L \cup {x}
<1>0. Shaped(L, n) /\ x \notin L /\ x.qty \in Nat /\ x.qty > 0 /\ x.issue \in Nat /\ Shaped(M, n)
  BY ShapedAdd DEF RowsInv, MayFollow, IsRow, RowValues
<1>1. IssuesNumbered(M) /\ IssuesIn(M) = (IF x.type = "issue" THEN IssuesIn(L) \cup {x} ELSE IssuesIn(L))
      /\ (x.type = "issue" => x.issue \in Nat \ {0} /\ \A r \in L : r.issue # x.issue)
  BY NumbersAdd
<1> SUFFICES ASSUME NEW i \in IssuesIn(M)
             PROVE  /\ Custody(M, i.lot, i.at, i.issue) >= 0
                    /\ Custody(M, i.lot, i.at, i.issue) + DrawnQty(M, i.issue) = Carried(M, i)
  BY DEF CustodyBalanced
<1>2. i.issue \in Nat \ {0} /\ i \in M /\ i.type = "issue" /\ i.qty \in Nat
  <2>1. i \in M /\ i.type = "issue" /\ i.issue \in 1 .. Cardinality(IssuesIn(M))
    BY <1>1 DEF IssuesNumbered, IssuesIn
  <2>2. i.qty \in Nat /\ i.issue \in Nat
    BY <1>0, <2>1 DEF Shaped, IsRow, RowValues
  <2> QED BY <2>1, <2>2
<1>3. Custody(L, i.lot, i.at, i.issue) \in Int
      /\ Custody(M, i.lot, i.at, i.issue) = Custody(L, i.lot, i.at, i.issue)
             + (IF x.lot = i.lot /\ x.issue = i.issue THEN Effect(x, "issuedToActivity", i.at) ELSE 0)
  BY <1>0, CustodyMore
<1>4. DrawnQty(L, i.issue) \in Nat
  BY <1>0, DrawnIsFinite
<1>5. DrawnQty(M, i.issue) = DrawnQty(L, i.issue) +
             (CASE x.issue # i.issue \/ x.type = "issue" -> 0
                [] x.issue = i.issue /\ x.type = "reversal" /\ x.undoes.type = "issue" -> 0
                [] x.issue = i.issue /\ x.type = "reversal" /\ x.undoes.type # "issue" -> 0 - x.qty
                [] OTHER -> x.qty)
  BY <1>2, DrawnAdd
<1> HIDE DEF M
<1>6. CASE i = x
  <2>1. x.type = "issue" /\ Custody(L, i.lot, i.at, i.issue) = 0 /\ DrawnQty(L, i.issue) = 0
    BY <1>1, <1>2, <1>6, NumberUnused
  <2>2. Effect(x, "issuedToActivity", i.at) = x.qty
    BY <1>2, <1>6, <2>1, CustodyEffect
  <2>3. Carried(M, i) = x.qty
    BY <1>6, UndoneAdd DEF Carried, M
  <2>4. Custody(M, i.lot, i.at, i.issue) = x.qty
    BY <1>0, <1>3, <1>6, <2>1, <2>2
  <2>5. DrawnQty(M, i.issue) = 0
    BY <1>4, <1>5, <1>6, <2>1
  <2> QED BY <1>0, <2>3, <2>4, <2>5
<1>7. CASE i # x
  <2>1. i \in IssuesIn(L) /\ i \in L
    BY <1>2, <1>7 DEF IssuesIn, M
  <2>2. Custody(L, i.lot, i.at, i.issue) >= 0
        /\ Custody(L, i.lot, i.at, i.issue) + DrawnQty(L, i.issue) = Carried(L, i)
    BY <2>1 DEF RowsInv, CustodyBalanced
  <2>3. Undone(M, i) <=> Undone(L, i) \/ (x.type = "reversal" /\ x.undoes = i)
    BY <1>7, UndoneAdd DEF M
  <2>4. CASE x.issue # i.issue
    <3>1. ~(x.type = "reversal" /\ x.undoes = i)
      BY <2>4 DEF MayFollow, Inverts
    <3>2. Carried(M, i) = Carried(L, i)
      BY <2>3, <3>1 DEF Carried
    <3>3. Custody(M, i.lot, i.at, i.issue) = Custody(L, i.lot, i.at, i.issue)
      BY <1>3, <2>4
    <3>4. DrawnQty(M, i.issue) = DrawnQty(L, i.issue)
      BY <1>4, <1>5, <2>4
    <3> QED BY <2>2, <3>2, <3>3, <3>4
  <2>5. CASE x.issue = i.issue
    <3>1. x.type # "issue"
      BY <1>1, <2>1, <2>5
    <3>2. PICK j \in IssuesIn(L) : OfIssue(x, j)
      BY <1>2, <2>5, <3>1 DEF MayFollow
    <3>3. j = i /\ x.lot = i.lot /\ x.at = i.at
      BY <2>1, <2>5, <3>2 DEF RowsInv, IssuesNumbered, OfIssue
    <3>4. Custody(M, i.lot, i.at, i.issue) >= 0
      BY <1>2, <2>5, <3>3 DEF MayFollow, M
    <3>5. Custody(M, i.lot, i.at, i.issue) = Custody(L, i.lot, i.at, i.issue) + Effect(x, "issuedToActivity", x.at)
      BY <1>3, <2>5, <3>3
    <3>6. CASE x.type = "reversal" /\ x.undoes.type = "issue"
      <4>1. x.undoes \in L /\ ~Undone(L, x.undoes) /\ x.undoes.issue = x.issue /\ x.undoes.qty = x.qty
        BY <3>6 DEF MayFollow, Inverts
      <4>2. x.undoes = i
        BY <2>1, <2>5, <3>6, <4>1 DEF RowsInv, IssuesNumbered, IssuesIn
      <4>3. Carried(L, i) = x.qty /\ Carried(M, i) = 0
        BY <2>3, <3>6, <4>1, <4>2 DEF Carried
      <4>4. Effect(x, "issuedToActivity", x.at) = 0 - x.qty
        BY <1>2, <2>5, <3>6, CustodyEffect
      <4>5. DrawnQty(M, i.issue) = DrawnQty(L, i.issue)
        BY <1>4, <1>5, <2>5, <3>6
      <4> QED BY <1>0, <1>3, <1>4, <2>2, <3>4, <3>5, <4>3, <4>4, <4>5
    <3>7. CASE x.type = "reversal" /\ x.undoes.type # "issue"
      <4>1. Carried(M, i) = Carried(L, i)
        BY <1>2, <2>3, <3>7 DEF Carried
      <4>2. Effect(x, "issuedToActivity", x.at) = x.qty
        BY <1>2, <2>5, <3>7, CustodyEffect
      <4>3. DrawnQty(M, i.issue) = DrawnQty(L, i.issue) - x.qty
        BY <1>0, <1>4, <1>5, <2>5, <3>7
      <4> QED BY <1>0, <1>3, <1>4, <2>2, <3>4, <3>5, <4>1, <4>2, <4>3
    <3>8. CASE x.type # "reversal"
      <4>1. Carried(M, i) = Carried(L, i)
        BY <2>3, <3>8 DEF Carried
      <4>2. Effect(x, "issuedToActivity", x.at) = 0 - x.qty
        BY <1>2, <2>5, <3>1, <3>8, CustodyEffect
      <4>3. DrawnQty(M, i.issue) = DrawnQty(L, i.issue) + x.qty
        BY <1>4, <1>5, <2>5, <3>1, <3>8
      <4> QED BY <1>0, <1>3, <1>4, <2>2, <3>4, <3>5, <4>1, <4>2, <4>3
    <3> QED BY <3>6, <3>7, <3>8
  <2> QED BY <2>4, <2>5
<1> QED BY <1>6, <1>7

LEMMA IssuesOfLot ==
    ASSUME NEW L, NEW n, Shaped(L, n), NEW lot
    PROVE  IsFiniteSet({j \in IssuesIn(L) : j.lot = lot})
  BY FS_Subset, {j \in IssuesIn(L) : j.lot = lot} \subseteq L DEF Shaped, IssuesIn

LEMMA CustodyOwnedAdd ==
    ASSUME NEW L, NEW n, RowsInv(L, n), NEW x, MayFollow(L, n, x)
    PROVE  CustodyOwned(L \cup {x}, n)
<1> DEFINE M == L \cup {x}
<1>0. Shaped(L, n) /\ x \notin L /\ x.qty \in Nat
  BY DEF RowsInv, MayFollow, IsRow, RowValues
<1>m. Shaped(M, n)
  BY ShapedAdd
<1>1. IssuesNumbered(M) /\ IssuesIn(M) = (IF x.type = "issue" THEN IssuesIn(L) \cup {x} ELSE IssuesIn(L))
      /\ (x.type = "issue" => x.issue \in Nat \ {0} /\ \A r \in L : r.issue # x.issue)
  BY NumbersAdd
<1> SUFFICES ASSUME NEW lot \in 1 .. n, NEW loc \in Locations
             PROVE  SumFunction([i \in {j \in IssuesIn(M) : j.lot = lot} |-> Custody(M, lot, loc, i.issue)])
                      = Balance(OfLot(M, lot), "issuedToActivity", loc)
  BY DEF CustodyOwned
<1> DEFINE S == {j \in IssuesIn(L) : j.lot = lot}
           T == {j \in IssuesIn(M) : j.lot = lot}
           f == [i \in S |-> Custody(L, lot, loc, i.issue)]
           k == [i \in T |-> Custody(M, lot, loc, i.issue)]
           d == IF x.lot = lot THEN Effect(x, "issuedToActivity", loc) ELSE 0
<1>2. d \in Int /\ (x.issue = 0 => d = 0) /\ (x.lot # lot => d = 0)
  BY CustodyEffect
<1>3. \A i : Custody(L, lot, loc, i) \in Int
             /\ Custody(M, lot, loc, i) = Custody(L, lot, loc, i) + (IF x.issue = i THEN d ELSE 0)
  <2> TAKE i
  <2>1. Custody(L, lot, loc, i) \in Int
        /\ Custody(M, lot, loc, i) =
             Custody(L, lot, loc, i) + (IF x.lot = lot /\ x.issue = i THEN Effect(x, "issuedToActivity", loc) ELSE 0)
    BY <1>0, CustodyMore
  <2> QED BY <2>1
<1>4. Balance(OfLot(L, lot), "issuedToActivity", loc) \in Int
      /\ Balance(OfLot(M, lot), "issuedToActivity", loc) = Balance(OfLot(L, lot), "issuedToActivity", loc) + d
  <2> DEFINE b == "issuedToActivity"
  <2> HIDE DEF b
  <2>1. /\ Balance(OfLot(L, lot), b, loc) \in Int
        /\ x.lot # lot => Balance(OfLot(L \cup {x}, lot), b, loc) = Balance(OfLot(L, lot), b, loc)
        /\ x.lot = lot => Balance(OfLot(L \cup {x}, lot), b, loc) = Balance(OfLot(L, lot), b, loc) + Effect(x, b, loc)
    BY <1>0, LotMore
  <2> QED BY <2>1 DEF b
<1>5. SumFunction(f) = Balance(OfLot(L, lot), "issuedToActivity", loc)
  BY DEF RowsInv, CustodyOwned
<1>6. IsFiniteSet(S) /\ IsFiniteSet(T)
  BY <1>0, <1>m, IssuesOfLot
<1> HIDE DEF d
<1>t. \A i : Custody(L, lot, loc, i) \in Int /\ Custody(M, lot, loc, i) \in Int
  BY <1>2, <1>3
<1> HIDE DEF M
<1>7. f \in [S -> Int] /\ k \in [T -> Int]
  BY <1>t
<1>8. SumFunction(k) = SumFunction(f) + d
  <2>1. ASSUME NEW z, S \ {z} = T \ {z}, \A y \in S \ {z} : y.issue # x.issue \/ d = 0, At(k, T, z) = At(f, S, z) + d
        PROVE  SumFunction(k) = SumFunction(f) + d
    <3>1. \A y \in S \ {z} : f[y] = k[y]
      BY <1>3, <2>1
    <3>2. At(f, S, z) \in Int
      BY <1>7 DEF At
    <3> HIDE DEF S, T, f, k
    <3>3. SumFunction(f) \in Int /\ SumFunction(k) \in Int /\ SumFunction(k) + At(f, S, z) = SumFunction(f) + At(k, T, z)
      BY <1>6, <1>7, <2>1, <3>1, OneDiffers
    <3>4. d \in Int /\ At(k, T, z) = At(f, S, z) + d
      BY <1>2, <2>1
    <3> QED BY <3>2, <3>3, <3>4
  <2>2. CASE d = 0 /\ x.type # "issue"
    <3>1. S = T /\ k = f
      BY <1>1, <1>3, <2>2
    <3>2. SumFunction(f) \in Int
      BY <1>6, <1>7, SumInInt
    <3> HIDE DEF S, T, f, k
    <3> QED BY <2>2, <3>1, <3>2
  <2>3. CASE x.type = "issue"
    <3>1. x \notin S /\ S \ {x} = T \ {x} /\ (x \in T <=> x.lot = lot)
      BY <1>0, <1>1, <2>3 DEF IssuesIn
    <3>2. \A y \in S \ {x} : y.issue # x.issue
      BY <1>1, <2>3 DEF IssuesIn
    <3>3. Custody(L, lot, loc, x.issue) = 0
      BY <1>1, <2>3, NumberUnused
    <3>4. At(f, S, x) = 0 /\ At(k, T, x) = d
      BY <1>2, <1>3, <3>1, <3>3 DEF At
    <3>5. At(k, T, x) = At(f, S, x) + d
      BY <1>2, <3>4
    <3> HIDE DEF S, T, f, k
    <3> QED BY <2>1, <3>1, <3>2, <3>5
  <2>4. CASE d # 0 /\ x.type # "issue"
    <3>1. PICK z \in IssuesIn(L) : OfIssue(x, z)
      BY <1>2, <2>4 DEF MayFollow
    <3>2. S = T /\ z \in S /\ z.issue = x.issue
      BY <1>1, <1>2, <2>4, <3>1 DEF OfIssue
    <3>3. \A y \in S \ {z} : y.issue # x.issue
      BY <3>1, <3>2 DEF RowsInv, IssuesNumbered
    <3>4. At(f, S, z) = Custody(L, lot, loc, x.issue) /\ At(k, T, z) = Custody(M, lot, loc, x.issue)
      BY <3>2 DEF At
    <3>5. At(k, T, z) = At(f, S, z) + d
      BY <1>3, <3>4
    <3> HIDE DEF S, T, f, k
    <3> QED BY <2>1, <3>2, <3>3, <3>5
  <2> QED BY <2>2, <2>3, <2>4
<1> QED BY <1>4, <1>5, <1>8

\* The invariant of the rows holds of one row more.
LEMMA AddRow ==
    ASSUME NEW L, NEW n, RowsInv(L, n), NEW x, MayFollow(L, n, x)
    PROVE  RowsInv(L \cup {x}, n)
  BY ShapedAdd, NumbersAdd, ReservedAdd, CustodyAdd, CustodyOwnedAdd DEF RowsInv

------------------------------------------------------------------------------
(* Appending: the row takes the next copy number, and nothing else of it    *)
(* changes.                                                                 *)

SameButNumber(x, row) ==
    /\ x.lot = row.lot /\ x.type = row.type /\ x.qty = row.qty /\ x.from = row.from /\ x.into = row.into
    /\ x.at = row.at /\ x.to = row.to /\ x.act = row.act /\ x.issue = row.issue /\ x.undoes = row.undoes

LEMMA Renumbered ==
    ASSUME NEW row, RowShape(row), NEW c
    PROVE  LET x == [row EXCEPT !.n = c]
           IN RowShape(x) /\ SameButNumber(x, row) /\ x.n = c /\ Alike(x, row)
<1> DEFINE x == [row EXCEPT !.n = c]
<1>1. x = [lot |-> row.lot, type |-> row.type, qty |-> row.qty, from |-> row.from, into |-> row.into, at |-> row.at,
           to |-> row.to, act |-> row.act, issue |-> row.issue, undoes |-> row.undoes, n |-> c]
  BY DEF RowShape
<1>2. [row EXCEPT !.n = 0] =
          [lot |-> row.lot, type |-> row.type, qty |-> row.qty, from |-> row.from, into |-> row.into, at |-> row.at,
           to |-> row.to, act |-> row.act, issue |-> row.issue, undoes |-> row.undoes, n |-> 0]
  BY DEF RowShape
<1> HIDE DEF x
<1>3. RowShape(x) /\ SameButNumber(x, row) /\ x.n = c
  BY <1>1 DEF RowShape, SameButNumber
<1>4. [x EXCEPT !.n = 0] = [row EXCEPT !.n = 0]
  BY <1>1, <1>2
<1> QED BY <1>3, <1>4 DEF x, Alike

LEMMA FreshRow ==
    ASSUME NEW L, IsFiniteSet(L), CopiesNumbered(L), \A r \in L : r.n \in Nat, NEW row, RowShape(row),
           NEW x, x = NumberedIn(L, row)
    PROVE  /\ RowShape(x) /\ SameButNumber(x, row) /\ x.n \in Nat \ {0}
           /\ x \notin L /\ CopiesNumbered(L \cup {x})
<1> DEFINE C == CopiesIn(L, row)
           M == L \cup {x}
<1>1. IsFiniteSet(C) /\ Cardinality(C) \in Nat
  BY FS_Subset, FS_CardinalityType DEF CopiesIn
<1>2. RowShape(x) /\ SameButNumber(x, row) /\ x.n = Cardinality(C) + 1 /\ Alike(x, row)
  BY Renumbered DEF NumberedIn
<1>3. CopiesIn(L, x) = C
  BY <1>2 DEF CopiesIn, Alike
<1>4. x \notin L
  BY <1>1, <1>2, <1>3 DEF CopiesNumbered
<1>5. IsFiniteSet(M)
  BY FS_AddElement
<1>6. ASSUME NEW r \in L PROVE r.n <= Cardinality(CopiesIn(M, r))
  <2>1. r.n <= Cardinality(CopiesIn(L, r)) /\ r.n \in Nat
    BY DEF CopiesNumbered
  <2>2. CopiesIn(L, r) \subseteq CopiesIn(M, r) /\ CopiesIn(M, r) \subseteq M
    BY DEF CopiesIn
  <2>3. IsFiniteSet(CopiesIn(M, r))
    BY <1>5, <2>2, FS_Subset
  <2>4. Cardinality(CopiesIn(L, r)) <= Cardinality(CopiesIn(M, r))
    BY <2>2, <2>3, FS_Subset
  <2>5. IsFiniteSet(CopiesIn(L, r))
    BY <2>2, <2>3, FS_Subset
  <2>6. Cardinality(CopiesIn(L, r)) \in Nat /\ Cardinality(CopiesIn(M, r)) \in Nat
    BY <2>3, <2>5, FS_CardinalityType
  <2> QED BY <2>1, <2>4, <2>6
<1>7. x.n <= Cardinality(CopiesIn(M, x))
  <2>1. CopiesIn(M, x) = C \cup {x} /\ x \notin C
    BY <1>3, <1>4 DEF CopiesIn, Alike
  <2> HIDE DEF C, M
  <2>2. Cardinality(C \cup {x}) = Cardinality(C) + 1
    BY <1>1, <2>1, FS_AddElement
  <2> QED BY <1>1, <1>2, <2>1, <2>2
<1> QED BY <1>1, <1>2, <1>4, <1>6, <1>7 DEF CopiesNumbered

\* A row as a command composes it, to be numbered and appended to L.
MayAppend(L, n, row, x) ==
    /\ RowShape(row) /\ RowValues(row) /\ row.lot \in 1 .. n /\ OwnedRow(row)
    /\ row.type = "reversal" => /\ row.undoes \in L /\ row.undoes.type # "reversal"
                                /\ ~Undone(L, row.undoes) /\ Inverts(row, row.undoes)
    /\ row.type = "issue" => row.issue = Cardinality(IssuesIn(L)) + 1
    /\ row.type # "issue" /\ row.issue # 0 => \E i \in IssuesIn(L) : OfIssue(row, i)
    /\ "reserved" \in {row.from, row.into} => Held(L \cup {x}, row.lot, row.at, row.act) >= 0
    /\ row.issue # 0 => Custody(L \cup {x}, row.lot, row.at, row.issue) >= 0

LEMMA Appended ==
    ASSUME NEW L, NEW n, RowsInv(L, n), NEW row, NEW x, x = NumberedIn(L, row), MayAppend(L, n, row, x)
    PROVE  RowsInv(L \cup {x}, n) /\ x \notin L /\ SameButNumber(x, row)
<1>1. IsFiniteSet(L) /\ CopiesNumbered(L) /\ \A r \in L : r.n \in Nat
  BY DEF RowsInv, Shaped, IsRow
<1>2. RowShape(row)
  BY DEF MayAppend
<1>3. RowShape(x) /\ SameButNumber(x, row) /\ x.n \in Nat \ {0} /\ x \notin L /\ CopiesNumbered(L \cup {x})
  BY <1>1, <1>2, FreshRow
<1>4. IsRow(x) /\ OwnedRow(x) /\ x.lot \in 1 .. n
  BY <1>3 DEF MayAppend, IsRow, RowValues, OwnedRow, SameButNumber
<1>5. /\ x.type = "reversal" => /\ x.undoes \in L /\ x.undoes.type # "reversal"
                                /\ ~Undone(L, x.undoes) /\ Inverts(x, x.undoes)
      /\ x.type = "issue" => x.issue = Cardinality(IssuesIn(L)) + 1
      /\ x.type # "issue" /\ x.issue # 0 => \E i \in IssuesIn(L) : OfIssue(x, i)
  BY <1>3 DEF MayAppend, SameButNumber, Inverts, OfIssue
<1>6. /\ "reserved" \in {x.from, x.into} => Held(L \cup {x}, x.lot, x.at, x.act) >= 0
      /\ x.issue # 0 => Custody(L \cup {x}, x.lot, x.at, x.issue) >= 0
  BY <1>3 DEF MayAppend, SameButNumber
<1>7. MayFollow(L, n, x)
  BY <1>3, <1>4, <1>5, <1>6 DEF MayFollow
<1>8. RowsInv(L \cup {x}, n)
  BY <1>7, AddRow
<1> QED BY <1>3, <1>8

------------------------------------------------------------------------------
(* The rows of the commands.                                                *)

\* A row that touches neither a reservation nor the custody of an issue.
LEMMA PlainRow ==
    ASSUME NEW L, NEW n, RowsInv(L, n), NEW row, NEW x, x = NumberedIn(L, row),
           RowShape(row), RowValues(row), row.lot \in 1 .. n, row.type \notin {"issue", "reversal"}, row.issue = 0,
           {row.from, row.into} \subseteq Stored \cup {Outside}
    PROVE  RowsInv(L \cup {x}, n) /\ x \notin L /\ SameButNumber(x, row)
<1>1. "reserved" \notin {row.from, row.into} /\ "issuedToActivity" \notin {row.from, row.into}
  BY StoreAssumption DEF Stored, Buckets
<1>2. MayAppend(L, n, row, x)
  BY <1>1 DEF MayAppend, OwnedRow
<1> QED BY <1>2, Appended

\* What an activity reserves, or what is released of its reservation.
LEMMA ActivityRow ==
    ASSUME NEW L, NEW n, RowsInv(L, n), NEW row, NEW x, x = NumberedIn(L, row),
           RowShape(row), RowValues(row), row.lot \in 1 .. n, row.type \notin {"issue", "reversal"}, row.issue = 0,
           row.act \in Activities, row.to = Outside,
           \/ row.from = Outside /\ row.into = "reserved"
           \/ row.from = "reserved" /\ row.into = Outside /\ Held(L, row.lot, row.at, row.act) >= row.qty
    PROVE  RowsInv(L \cup {x}, n) /\ x \notin L /\ SameButNumber(x, row)
<1>1. IsFiniteSet(L) /\ CopiesNumbered(L) /\ (\A r \in L : r.n \in Nat) /\ Shaped(L, n)
  BY DEF RowsInv, Shaped, IsRow
<1>2. SameButNumber(x, row) /\ x \notin L
  BY <1>1, FreshRow
<1>3. Outside # "reserved" /\ Outside # "issuedToActivity" /\ row.qty \in Nat /\ x.qty \in Nat
      /\ x.qty = row.qty /\ x.lot = row.lot /\ x.act = row.act /\ x.at = row.at /\ x.to = Outside
      /\ x.from = row.from /\ x.into = row.into
  BY <1>2, StoreAssumption DEF Buckets, RowValues, SameButNumber
<1>4. Effect(x, "reserved", x.at) = (IF x.into = "reserved" THEN x.qty ELSE 0) - (IF x.from = "reserved" THEN x.qty ELSE 0)
  BY <1>3, EffectIs
<1>5. Effect(x, "reserved", row.at) = IF row.into = "reserved" THEN row.qty ELSE 0 - row.qty
  BY <1>3, <1>4
<1>6. Held(L, row.lot, row.at, row.act) \in Int
      /\ Held(L \cup {x}, row.lot, row.at, row.act) = Held(L, row.lot, row.at, row.act) + Effect(x, "reserved", row.at)
  BY <1>1, <1>2, <1>3, HeldMore
<1>7. Held(L, row.lot, row.at, row.act) >= 0
  BY DEF RowsInv, ReservedOwned, RowValues
<1>8. Held(L \cup {x}, row.lot, row.at, row.act) >= 0
  BY <1>3, <1>5, <1>6, <1>7
<1>9. OwnedRow(row)
  BY <1>3 DEF OwnedRow
<1>10. MayAppend(L, n, row, x)
  BY <1>8, <1>9 DEF MayAppend
<1> QED BY <1>10, Appended

\* What is consumed, returned or wasted of an issue.
LEMMA DrawRow ==
    ASSUME NEW L, NEW n, RowsInv(L, n), NEW row, NEW x, x = NumberedIn(L, row),
           RowShape(row), RowValues(row), row.lot \in 1 .. n, row.type \notin {"issue", "reversal"},
           NEW i \in IssuesIn(L), OfIssue(row, i), row.to = Outside,
           row.from = "issuedToActivity", row.into \in {Outside, "acceptedOnHand"},
           Custody(L, row.lot, row.at, row.issue) >= row.qty
    PROVE  RowsInv(L \cup {x}, n) /\ x \notin L /\ SameButNumber(x, row)
<1>1. IsFiniteSet(L) /\ CopiesNumbered(L) /\ (\A r \in L : r.n \in Nat) /\ Shaped(L, n)
  BY DEF RowsInv, Shaped, IsRow
<1>2. SameButNumber(x, row) /\ x \notin L
  BY <1>1, FreshRow
<1>3. Outside # "reserved" /\ Outside # "issuedToActivity" /\ row.qty \in Nat /\ x.qty \in Nat
      /\ x.qty = row.qty /\ x.lot = row.lot /\ x.issue = row.issue /\ x.at = row.at /\ x.to = Outside
      /\ x.from = row.from /\ x.into = row.into
  BY <1>2, StoreAssumption DEF Buckets, RowValues, SameButNumber
<1>4. Effect(x, "issuedToActivity", x.at) = (IF x.into = "issuedToActivity" THEN x.qty ELSE 0)
                                            - (IF x.from = "issuedToActivity" THEN x.qty ELSE 0)
  BY <1>3, EffectIs
<1>5. Effect(x, "issuedToActivity", row.at) = 0 - row.qty
  BY <1>3, <1>4
<1>6. Custody(L, row.lot, row.at, row.issue) \in Int
      /\ Custody(L \cup {x}, row.lot, row.at, row.issue)
           = Custody(L, row.lot, row.at, row.issue) + Effect(x, "issuedToActivity", row.at)
  BY <1>1, <1>2, <1>3, CustodyMore
<1>7. Custody(L \cup {x}, row.lot, row.at, row.issue) >= 0
  BY <1>3, <1>5, <1>6
<1>8. row.issue # 0
  BY DEF OfIssue, RowsInv, IssuesNumbered
<1>9. OwnedRow(row)
  BY <1>3, <1>8 DEF OwnedRow
<1>10. MayAppend(L, n, row, x)
  BY <1>3, <1>7, <1>9 DEF MayAppend
<1> QED BY <1>10, Appended

\* No row carries the number of the next issue.
LEMMA NextNumber ==
    ASSUME NEW L, NEW n, RowsInv(L, n), NEW k, k = Cardinality(IssuesIn(L)) + 1
    PROVE  k \in Nat \ {0} /\ \A r \in L : r.issue # k
<1>1. Cardinality(IssuesIn(L)) \in Nat
  BY FS_Subset, FS_CardinalityType DEF IssuesIn, RowsInv, Shaped
<1>2. ASSUME NEW r \in L, r.issue # 0 PROVE r.issue # k
  <2>1. PICK i \in IssuesIn(L) : OfIssue(r, i)
    BY <1>2 DEF RowsInv, IssuesNumbered
  <2>2. i.issue \in 1 .. Cardinality(IssuesIn(L))
    BY <2>1 DEF RowsInv, IssuesNumbered
  <2> QED BY <1>1, <2>1, <2>2 DEF OfIssue
<1> QED BY <1>1, <1>2

\* What is issued takes the next number, under which nothing was drawn yet.
LEMMA IssueRow ==
    ASSUME NEW L, NEW n, RowsInv(L, n), NEW row, NEW x, x = NumberedIn(L, row),
           RowShape(row), RowValues(row), row.lot \in 1 .. n, row.type = "issue", row.to = Outside,
           row.from = "acceptedOnHand", row.into = "issuedToActivity", row.issue = Cardinality(IssuesIn(L)) + 1
    PROVE  /\ RowsInv(L \cup {x}, n) /\ x \notin L /\ SameButNumber(x, row)
           /\ Custody(L \cup {x}, row.lot, row.at, row.issue) = row.qty
<1>1. IsFiniteSet(L) /\ CopiesNumbered(L) /\ (\A r \in L : r.n \in Nat) /\ Shaped(L, n)
  BY DEF RowsInv, Shaped, IsRow
<1>2. SameButNumber(x, row) /\ x \notin L
  BY <1>1, FreshRow
<1>3. Outside # "reserved" /\ Outside # "issuedToActivity" /\ row.qty \in Nat /\ x.qty \in Nat
      /\ x.qty = row.qty /\ x.lot = row.lot /\ x.issue = row.issue /\ x.at = row.at /\ x.to = Outside
      /\ x.from = row.from /\ x.into = row.into
  BY <1>2, StoreAssumption DEF Buckets, RowValues, SameButNumber
<1>4. Effect(x, "issuedToActivity", x.at) = (IF x.into = "issuedToActivity" THEN x.qty ELSE 0)
                                            - (IF x.from = "issuedToActivity" THEN x.qty ELSE 0)
  BY <1>3, EffectIs
<1>5. Effect(x, "issuedToActivity", row.at) = row.qty
  BY <1>3, <1>4
<1>7. row.issue # 0 /\ \A r \in L : r.issue # row.issue
  BY NextNumber
<1>8. Custody(L, row.lot, row.at, row.issue) = 0
  BY <1>7, NumberUnused
<1>9. Custody(L \cup {x}, row.lot, row.at, row.issue)
           = Custody(L, row.lot, row.at, row.issue) + Effect(x, "issuedToActivity", row.at)
  BY <1>1, <1>2, <1>3, CustodyMore
<1>10. Custody(L \cup {x}, row.lot, row.at, row.issue) = row.qty
  BY <1>3, <1>5, <1>8, <1>9
<1>11. OwnedRow(row)
  BY <1>3, <1>7 DEF OwnedRow
<1>12. MayAppend(L, n, row, x)
  BY <1>3, <1>10, <1>11 DEF MayAppend
<1> QED BY <1>10, <1>12, Appended

\* A reversal undoes a row that nothing undid, within its activity's and its issue's holdings.
LEMMA UndoRow ==
    ASSUME NEW L, NEW n, RowsInv(L, n), NEW d \in L, d.type # "reversal", ~Undone(L, d),
           NEW x, x = NumberedIn(L, ExactInverse(d)),
           d.act # Outside => Held(L \cup {x}, d.lot, d.at, d.act) >= 0,
           d.issue # 0 => Custody(L \cup {x}, d.lot, d.at, d.issue) >= 0
    PROVE  /\ RowsInv(L \cup {x}, n) /\ x \notin L /\ SameButNumber(x, ExactInverse(d))
           /\ x.lot = d.lot /\ x.qty = d.qty /\ x.type = "reversal" /\ x.undoes = d
<1> DEFINE row == ExactInverse(d)
<1>1. IsRow(d) /\ OwnedRow(d) /\ d.lot \in 1 .. n
  BY DEF RowsInv, Shaped, Attributed
<1>2. CASE d.to # Outside
  <2>1. row = [lot |-> d.lot, type |-> "reversal", qty |-> d.qty, from |-> d.from, into |-> d.into, at |-> d.to,
               to |-> d.at, act |-> d.act, issue |-> d.issue, undoes |-> d, n |-> 0]
    BY <1>1, <1>2 DEF ExactInverse, IsRow, RowShape
  <2>2. RowShape(row)
    BY <2>1 DEF RowShape
  <2>3. RowValues(row) /\ row.lot \in 1 .. n /\ row.type = "reversal"
    BY <1>1, <1>2, <2>1 DEF IsRow, RowValues
  <2>4. "reserved" \notin {d.from, d.into} /\ "issuedToActivity" \notin {d.from, d.into} /\ d.issue = 0
    BY <1>1, <1>2 DEF OwnedRow
  <2>5. OwnedRow(row) /\ Inverts(row, d)
    BY <2>1, <2>4 DEF OwnedRow, Inverts
  <2> HIDE DEF row
  <2>6. MayAppend(L, n, row, x)
    BY <2>1, <2>2, <2>3, <2>4, <2>5 DEF MayAppend
  <2>7. RowsInv(L \cup {x}, n) /\ x \notin L /\ SameButNumber(x, row)
    BY <2>6, Appended DEF row
  <2> QED BY <2>1, <2>7 DEF SameButNumber, row
<1>3. CASE d.to = Outside
  <2>1. row = [lot |-> d.lot, type |-> "reversal", qty |-> d.qty, from |-> d.into, into |-> d.from, at |-> d.at,
               to |-> d.to, act |-> d.act, issue |-> d.issue, undoes |-> d, n |-> 0]
    BY <1>1, <1>3 DEF ExactInverse, IsRow, RowShape
  <2>2. RowShape(row)
    BY <2>1 DEF RowShape
  <2>3. RowValues(row) /\ row.lot \in 1 .. n /\ row.type = "reversal"
    BY <1>1, <2>1 DEF IsRow, RowValues
  <2>4. OwnedRow(row) /\ Inverts(row, d)
    BY <1>1, <1>3, <2>1 DEF OwnedRow, Inverts
  <2>5. "reserved" \in {d.from, d.into} => d.act # Outside
    BY <1>1, StoreAssumption DEF OwnedRow
  <2>6. d.issue # 0 => \E i \in IssuesIn(L) : OfIssue(d, i)
    BY DEF RowsInv, IssuesNumbered
  <2> HIDE DEF row
  <2>7. MayAppend(L, n, row, x)
    BY <2>1, <2>2, <2>3, <2>4, <2>5, <2>6 DEF MayAppend, OfIssue
  <2>8. RowsInv(L \cup {x}, n) /\ x \notin L /\ SameButNumber(x, row)
    BY <2>7, Appended DEF row
  <2> QED BY <2>1, <2>8 DEF SameButNumber, row
<1> QED BY <1>2, <1>3

\* A lot that was just received, before its first row: nothing is held of it.
LEMMA NewLot ==
    ASSUME NEW L, NEW n \in Nat, RowsInv(L, n)
    PROVE  RowsInv(L, n + 1)
<1>1. Shaped(L, n + 1)
  BY DEF RowsInv, Shaped
<1>2. OfLot(L, n + 1) = {} /\ {j \in IssuesIn(L) : j.lot = n + 1} = {}
  BY DEF RowsInv, Shaped, OfLot, IssuesIn
<1>3. \A loc, a : Held(L, n + 1, loc, a) = 0
  <2>1. \A a : {r \in OfLot(L, n + 1) : r.act = a} = {}
    BY <1>2
  <2> QED BY <2>1, BalanceNone DEF Held
<1>4. \A b, loc : Balance(OfLot(L, n + 1), b, loc) = 0
  BY <1>2, BalanceNone
<1>5. \A loc : SumFunction([a \in Activities |-> Held(L, n + 1, loc, a)]) = 0
  <2> SUFFICES ASSUME NEW loc PROVE SumFunction([a \in Activities |-> Held(L, n + 1, loc, a)]) = 0
    OBVIOUS
  <2> DEFINE f == [a \in Activities |-> Held(L, n + 1, loc, a)]
  <2>1. f \in [Activities -> Nat] /\ \A a \in Activities : f[a] = 0
    BY <1>3
  <2> HIDE DEF f
  <2>2. SumFunction(f) = 0
    BY <2>1, StoreAssumption, SumZeros
  <2> QED BY <2>2 DEF f
<1>6. \A loc : SumFunction([i \in {j \in IssuesIn(L) : j.lot = n + 1} |-> Custody(L, n + 1, loc, i.issue)]) = 0
  <2> SUFFICES ASSUME NEW loc
               PROVE SumFunction([i \in {j \in IssuesIn(L) : j.lot = n + 1} |-> Custody(L, n + 1, loc, i.issue)]) = 0
    OBVIOUS
  <2> DEFINE f == [i \in {j \in IssuesIn(L) : j.lot = n + 1} |-> Custody(L, n + 1, loc, i.issue)]
  <2>1. DOMAIN f = {}
    BY <1>2
  <2> QED BY <2>1, SumNone
<1>7. 1 .. n + 1 = (1 .. n) \cup {n + 1}
  OBVIOUS
<1>8. ReservedOwned(L, n + 1)
  <2> SUFFICES ASSUME NEW lot \in 1 .. n + 1, NEW loc \in Locations
               PROVE  /\ \A a \in Activities : Held(L, lot, loc, a) >= 0
                      /\ SumFunction([a \in Activities |-> Held(L, lot, loc, a)]) = Balance(OfLot(L, lot), "reserved", loc)
    BY DEF ReservedOwned
  <2>1. CASE lot = n + 1
    BY <1>3, <1>4, <1>5, <2>1
  <2>2. CASE lot \in 1 .. n
    BY <2>2 DEF RowsInv, ReservedOwned
  <2> QED BY <1>7, <2>1, <2>2
<1>9. CustodyOwned(L, n + 1)
  <2> SUFFICES ASSUME NEW lot \in 1 .. n + 1, NEW loc \in Locations
               PROVE  SumFunction([i \in {j \in IssuesIn(L) : j.lot = lot} |-> Custody(L, lot, loc, i.issue)])
                        = Balance(OfLot(L, lot), "issuedToActivity", loc)
    BY DEF CustodyOwned
  <2>1. CASE lot = n + 1
    BY <1>4, <1>6, <2>1
  <2>2. CASE lot \in 1 .. n
    BY <2>2 DEF RowsInv, CustodyOwned
  <2> QED BY <1>7, <2>1, <2>2
<1> QED BY <1>1, <1>8, <1>9 DEF RowsInv

------------------------------------------------------------------------------
(* The received quantities.                                                 *)

\* What a row adds to what an order received, were the lots received on ls.
ProgressOf(ls, r, o) ==
    CASE ls[r.lot] # o -> 0
      [] ls[r.lot] = o /\ (r.type = "receipt" \/ (r.type = "reversal" /\ r.undoes.type = "rejection")) -> r.qty
      [] ls[r.lot] = o /\ (r.type = "rejection" \/ (r.type = "reversal" /\ r.undoes.type = "receipt")) -> 0 - r.qty
      [] OTHER -> 0

ReceivedBy(L, ls, o) == SumFunction([r \in L |-> ProgressOf(ls, r, o)])

LEMMA ProgressIs ==
    ASSUME NEW r, r.qty \in Nat, NEW ls, NEW o
    PROVE  ProgressOf(ls, r, o) \in Int
<1>1. r.qty \in Int /\ 0 - r.qty \in Int
  OBVIOUS
<1> QED BY <1>1 DEF ProgressOf

LEMMA ReceivedMore ==
    ASSUME NEW L, NEW n, RowsInv(L, n), NEW x, x \notin L, x.qty \in Nat, NEW o, NEW ls, NEW ls2,
           \A lot \in 1 .. n : ls2[lot] = ls[lot]
    PROVE  /\ ReceivedBy(L, ls, o) \in Int /\ ProgressOf(ls2, x, o) \in Int
           /\ ReceivedBy(L \cup {x}, ls2, o) = ReceivedBy(L, ls, o) + ProgressOf(ls2, x, o)
<1> DEFINE M == L \cup {x}
           f == [r \in L |-> ProgressOf(ls, r, o)]
           k == [r \in M |-> ProgressOf(ls2, r, o)]
<1>1. IsFiniteSet(L) /\ IsFiniteSet(M) /\ \A r \in L : r.qty \in Nat /\ r.lot \in 1 .. n
  BY FS_AddElement DEF RowsInv, Shaped, IsRow, RowValues
<1>2. (\A r \in L : ProgressOf(ls, r, o) \in Int) /\ (\A r \in M : ProgressOf(ls2, r, o) \in Int)
  BY <1>1, ProgressIs
<1>3. f \in [L -> Int] /\ k \in [M -> Int]
  BY <1>2
<1>4. \A r \in L : ProgressOf(ls2, r, o) = ProgressOf(ls, r, o)
  BY <1>1 DEF ProgressOf
<1>5. L \ {x} = M \ {x} /\ (\A r \in L \ {x} : f[r] = k[r]) /\ At(f, L, x) = 0 /\ At(k, M, x) = ProgressOf(ls2, x, o)
  BY <1>4 DEF At
<1>6. ProgressOf(ls2, x, o) \in Int
  BY <1>2
<1> HIDE DEF f, k, M
<1>7. SumFunction(f) \in Int /\ SumFunction(k) \in Int /\ SumFunction(k) + At(f, L, x) = SumFunction(f) + At(k, M, x)
  BY <1>1, <1>3, <1>5, OneDiffers
<1>8. ReceivedBy(L, ls, o) = SumFunction(f) /\ ReceivedBy(M, ls2, o) = SumFunction(k)
  BY DEF ReceivedBy, f, k
<1>9. SumFunction(k) = SumFunction(f) + ProgressOf(ls2, x, o)
  BY <1>5, <1>6, <1>7
<1> QED BY <1>6, <1>7, <1>8, <1>9 DEF M

------------------------------------------------------------------------------
(* The orders: what a command of procurement does to them leaves what they  *)
(* received, and an order that was issued stays one.                        *)

Kept(os, ps) ==
    /\ OrdersSound(ps)
    /\ \A o \in Orders : /\ ps[o].received = os[o].received
                         /\ os[o].status \notin Unissued => ps[o].status \notin Unissued

LEMMA KeptByOne ==
    ASSUME NEW os, OrdersSound(os), NEW o \in Orders, NEW x, OrderSound(x), x.received = os[o].received,
           os[o].status \notin Unissued => x.status \notin Unissued
    PROVE  Kept(os, [os EXCEPT ![o] = x])
<1> DEFINE ps == [os EXCEPT ![o] = x]
<1>1. ps \in [Orders -> Order] /\ \A p \in Orders : ps[p] = IF p = o THEN x ELSE os[p]
  BY DEF OrdersSound, OrderSound
<1> HIDE DEF ps
<1>2. OrdersSound(ps)
  BY <1>1 DEF OrdersSound
<1>3. Kept(os, ps)
  BY <1>1, <1>2 DEF Kept
<1> QED BY <1>3 DEF ps

LEMMA KeptAgain ==
    ASSUME NEW os, NEW ps, NEW qs, Kept(os, ps), Kept(ps, qs)
    PROVE  Kept(os, qs)
  BY DEF Kept

LEMMA RefreshedIsRequested ==
    ASSUME reqs \in Requested, NEW os, NEW r
    PROVE  Refreshed(os, r) \in Requested
<1>1. CASE r \in Requisitions
  <2> DEFINE line == IF LiveAllocation(os, r) >= reqs[r].qty THEN "ordered" ELSE "open"
  <2>1. line \in {"open", "ordered", "cancelled"}
    OBVIOUS
  <2>2. Refreshed(os, r) = IF reqs[r].line = "cancelled" THEN reqs ELSE [reqs EXCEPT ![r].line = line]
    BY DEF Refreshed
  <2> HIDE DEF line
  <2>3. [reqs EXCEPT ![r].line = line] \in Requested
    BY <1>1, <2>1 DEF Requested
  <2> QED BY <2>2, <2>3
<1>2. CASE r \notin Requisitions
  <2> DEFINE line == IF LiveAllocation(os, r) >= reqs[r].qty THEN "ordered" ELSE "open"
  <2>1. Refreshed(os, r) = IF reqs[r].line = "cancelled" THEN reqs ELSE [reqs EXCEPT ![r].line = line]
    BY DEF Refreshed
  <2> HIDE DEF line
  <2>2. [reqs EXCEPT ![r].line = line] = reqs
    BY <1>2 DEF Requested
  <2> QED BY <2>1, <2>2
<1> QED BY <1>1, <1>2

\* One command of procurement.
LEMMA OrdersStep ==
    ASSUME reqs \in Requested, OrdersSound(orders), OrdersNext
    PROVE  reqs' \in Requested /\ Kept(orders, orders')
<1> USE BoundsAreNaturals
<1>0. Kept(orders, orders)
  BY DEF Kept
<1>f. \A o \in Orders : orders[o] \in Order /\ OrderSound(orders[o])
  BY DEF OrdersSound
<1>1. ASSUME NEW r \in Requisitions, NEW qty \in LineQtys, CreateRequisition(r, qty)
      PROVE  reqs' \in Requested /\ Kept(orders, orders')
  <2> DEFINE q == [status |-> "draft", line |-> "open", qty |-> qty]
  <2>1. q \in [status: ReqStatuses, line: {"open", "ordered", "cancelled"}, qty: Nat]
    BY DEF ReqStatuses
  <2>2. reqs' = [reqs EXCEPT ![r] = q] /\ orders' = orders
    BY <1>1 DEF CreateRequisition
  <2> HIDE DEF q
  <2>3. reqs' \in Requested
    BY <2>1, <2>2 DEF Requested
  <2> QED BY <1>0, <2>2, <2>3
<1>2. ASSUME NEW r \in Requisitions, Submit(r) \/ Approve(r) \/ Reject(r) \/ CancelLine(r) \/ CloseRequisition(r)
      PROVE  reqs' \in Requested /\ Kept(orders, orders')
  <2>1. orders' = orders
    BY <1>2 DEF Submit, Approve, Reject, CancelLine, CloseRequisition
  <2>2. \/ \E st \in ReqStatuses : reqs' = [reqs EXCEPT ![r].status = st]
        \/ reqs' = [reqs EXCEPT ![r].line = "cancelled"]
    BY <1>2 DEF Submit, Approve, Reject, CancelLine, CloseRequisition, ReqStatuses
  <2>3. reqs' \in Requested
    BY <2>2 DEF Requested
  <2> QED BY <1>0, <2>1, <2>3
<1>3. ASSUME NEW o \in Orders, NEW r \in Requisitions, NEW qty \in OrderQtys, CreateOrder(o, r, qty)
      PROVE  reqs' \in Requested /\ Kept(orders, orders')
  <2> DEFINE x == [NoOrder EXCEPT !.status = "draft", !.req = r, !.qty = qty]
  <2>1. x \in Order /\ x.received = 0 /\ x.qty = qty /\ x.overage = 0
    BY DEF NoOrder, Order, OrderStatuses, LiveOrder, Deliveries
  <2>2. orders' = [orders EXCEPT ![o] = x] /\ reqs' = Refreshed(orders', r) /\ orders[o].status = "none"
    BY <1>3 DEF CreateOrder, NextOrder
  <2> HIDE DEF x
  <2>3. OrderSound(x) /\ x.received = 0
    BY <2>1 DEF OrderSound, Order
  <2>4. orders[o].received = 0 /\ orders[o].status \in Unissued
    BY <1>f, <2>2 DEF OrderSound, Unissued
  <2>5. Kept(orders, orders')
    BY <2>2, <2>3, <2>4, KeptByOne
  <2> QED BY <2>2, <2>5, RefreshedIsRequested
<1>4. ASSUME NEW o \in Orders, NEW over \in Overages, IssueOrder(o, over)
      PROVE  reqs' \in Requested /\ Kept(orders, orders')
  <2> DEFINE x == [orders[o] EXCEPT !.status = "issued", !.overage = over]
  <2>1. orders[o] \in Order /\ OrderSound(orders[o]) /\ orders[o].status = "draft" /\ over \in Nat
    BY <1>4, <1>f DEF IssueOrder
  <2>2. x \in Order /\ x.received = 0 /\ x.received = orders[o].received /\ x.status = "issued"
    BY <2>1 DEF Order, OrderSound, Unissued, OrderStatuses, LiveOrder
  <2>3. orders' = [orders EXCEPT ![o] = x] /\ reqs' = reqs
    BY <1>4, <2>1 DEF IssueOrder, OrdersSound
  <2> HIDE DEF x
  <2>4. OrderSound(x) /\ x.status \notin Unissued
    BY <2>2 DEF OrderSound, Order, Unissued
  <2> QED BY <2>2, <2>3, <2>4, KeptByOne
<1>5. ASSUME NEW o \in Orders, NEW o2 \in Orders, NEW qty \in OrderQtys, NEW over \in Overages, Amend(o, o2, qty, over)
      PROVE  reqs' \in Requested /\ Kept(orders, orders')
  <2> DEFINE x == [orders[o] EXCEPT !.status = "amended"]
             y == [NoOrder EXCEPT !.status = "issued", !.req = orders[o].req, !.qty = qty, !.overage = over]
             released == [orders EXCEPT ![o] = x]
  <2>1. orders[o] \in Order /\ OrderSound(orders[o]) /\ orders[o].status = "issued" /\ over \in Nat /\ qty \in Nat
    BY <1>5, <1>f DEF Amend
  <2>2. x \in Order /\ x.received = orders[o].received /\ x.status = "amended" /\ x.qty = orders[o].qty /\ x.overage = orders[o].overage
    BY <2>1 DEF Order, OrderStatuses
  <2>4. orders' = [released EXCEPT ![o2] = y] /\ reqs' = Refreshed(orders', orders[o].req) /\ orders[o2].status = "none"
    BY <1>5 DEF Amend, NextOrder
  <2>3. y \in Order /\ y.received = 0 /\ y.status = "issued" /\ y.qty = qty /\ y.overage = over
    <3>1. orders[o].req \in Requisitions \cup {0}
      BY <2>1 DEF Order
    <3> QED BY <2>1, <3>1 DEF NoOrder, Order, OrderStatuses, LiveOrder, Deliveries
  <2> HIDE DEF x, y
  <2>5. OrderSound(x) /\ x.status \notin Unissued
    BY <2>1, <2>2 DEF OrderSound, Unissued
  <2>6. OrderSound(y) /\ y.received = 0 /\ y.status \notin Unissued
    BY <2>1, <2>3 DEF OrderSound, Unissued
  <2>7. Kept(orders, released)
    BY <2>2, <2>5, KeptByOne
  <2>8. o2 # o /\ released[o2] = orders[o2] /\ orders[o2].received = 0
    BY <1>f, <2>1, <2>4 DEF OrderSound, Unissued, OrdersSound
  <2>9. OrdersSound(released)
    BY <2>7 DEF Kept
  <2> HIDE DEF released
  <2>10. Kept(released, orders')
    BY <2>4, <2>6, <2>8, <2>9, KeptByOne
  <2>11. Kept(orders, orders')
    BY <2>7, <2>10, KeptAgain
  <2> QED BY <2>4, <2>11, RefreshedIsRequested
<1>6. ASSUME NEW o \in Orders, CancelOrder(o) \/ CloseShort(o)
      PROVE  reqs' \in Requested /\ Kept(orders, orders')
  <2>1. PICK st \in {"cancelled", "closed_short"} :
            orders' = [orders EXCEPT ![o].status = st] /\ reqs' = Refreshed(orders', orders[o].req)
    BY <1>6 DEF CancelOrder, CloseShort
  <2> DEFINE x == [orders[o] EXCEPT !.status = st]
  <2>2. orders[o] \in Order /\ OrderSound(orders[o])
    BY <1>f
  <2>3. x \in Order /\ x.received = orders[o].received /\ x.status = st /\ x.qty = orders[o].qty /\ x.overage = orders[o].overage
    BY <2>2 DEF Order, OrderStatuses
  <2>4. orders' = [orders EXCEPT ![o] = x]
    BY <2>1 DEF OrdersSound
  <2> HIDE DEF x
  <2>5. OrderSound(x) /\ x.status \notin Unissued
    BY <2>2, <2>3 DEF OrderSound, Unissued
  <2>6. Kept(orders, orders')
    BY <2>3, <2>4, <2>5, KeptByOne
  <2> QED BY <2>1, <2>6, RefreshedIsRequested
<1>7. ASSUME NEW o \in Orders, CommitDelivery(o) \/ ReviseDelivery(o) \/ FulfillDelivery(o) \/ DefaultDelivery(o)
      PROVE  reqs' \in Requested /\ Kept(orders, orders')
  <2>1. reqs' = reqs /\ \E dl \in Deliveries : orders' = [orders EXCEPT ![o].delivery = dl]
    BY <1>7 DEF CommitDelivery, ReviseDelivery, FulfillDelivery, DefaultDelivery, Deliveries, Promised
  <2>2. PICK dl \in Deliveries : orders' = [orders EXCEPT ![o].delivery = dl]
    BY <2>1
  <2> DEFINE x == [orders[o] EXCEPT !.delivery = dl]
  <2>3. orders[o] \in Order /\ OrderSound(orders[o])
    BY <1>f
  <2>4. x \in Order /\ x.received = orders[o].received /\ x.status = orders[o].status
        /\ x.qty = orders[o].qty /\ x.overage = orders[o].overage
    BY <2>3 DEF Order
  <2>5. orders' = [orders EXCEPT ![o] = x]
    BY <2>2 DEF OrdersSound
  <2> HIDE DEF x
  <2>6. OrderSound(x)
    BY <2>3, <2>4 DEF OrderSound
  <2>7. Kept(orders, orders')
    BY <2>4, <2>5, <2>6, KeptByOne
  <2> QED BY <2>1, <2>7
<1> QED BY <1>1, <1>2, <1>3, <1>4, <1>5, <1>6, <1>7 DEF OrdersNext

\* A receipt's progress, or a rejection's, on an order that was issued.
LEMMA Progresses ==
    ASSUME OrdersSound(orders), NEW o \in Orders, NEW delta \in Int, ProgressFits(o, delta), orders[o].status \notin Unissued
    PROVE  /\ OrdersSound(WithProgress(o, delta))
           /\ \A p \in Orders :
                 /\ orders[p].status \notin Unissued => WithProgress(o, delta)[p].status \notin Unissued
                 /\ WithProgress(o, delta)[p].received = orders[p].received + (IF p = o THEN delta ELSE 0)
<1> DEFINE received == orders[o].received + delta
           ahead == IF received >= orders[o].qty THEN "completed"
                    ELSE IF received > 0 THEN "partially_received" ELSE "issued"
           status == IF orders[o].status \in {"issued", "partially_received", "completed"} THEN ahead ELSE orders[o].status
           x == [orders[o] EXCEPT !.received = received, !.status = status]
           ps == [orders EXCEPT ![o] = x]
<1>1. orders \in [Orders -> Order] /\ orders[o] \in Order /\ OrderSound(orders[o])
      /\ \A p \in Orders : OrderSound(orders[p]) /\ orders[p].received \in Nat
  BY DEF OrdersSound, OrderSound, Order
<1>2. received \in Nat /\ received <= orders[o].qty + orders[o].overage
  <2>1. orders[o].received \in Nat /\ orders[o].qty \in Nat /\ orders[o].overage \in Nat
        /\ orders[o].received <= orders[o].qty + orders[o].overage
    BY <1>1 DEF OrderSound, Order
  <2> QED BY <2>1 DEF ProgressFits
<1>3. status \in OrderStatuses /\ status \notin Unissued
  BY <1>1 DEF Order, OrderStatuses, LiveOrder, Unissued
<1>4. WithProgress(o, delta) = ps
  BY <1>1 DEF WithProgress
<1> HIDE DEF received, status
<1>5. x \in Order /\ x.received = received /\ x.status = status /\ x.qty = orders[o].qty /\ x.overage = orders[o].overage
  BY <1>1, <1>2, <1>3 DEF Order
<1> HIDE DEF x
<1>6. OrderSound(x) /\ x.status \notin Unissued
  BY <1>2, <1>3, <1>5 DEF OrderSound
<1>7. \A p \in Orders : ps[p] = IF p = o THEN x ELSE orders[p]
  BY <1>1
<1>8. ps \in [Orders -> Order]
  BY <1>1, <1>5
<1> HIDE DEF ps
<1>9. OrdersSound(ps)
  BY <1>1, <1>6, <1>7, <1>8 DEF OrdersSound
<1>10. ASSUME NEW p \in Orders
       PROVE  /\ orders[p].status \notin Unissued => ps[p].status \notin Unissued
              /\ ps[p].received = orders[p].received + (IF p = o THEN delta ELSE 0)
  <2>1. CASE p = o
    BY <1>5, <1>6, <1>7, <2>1 DEF received
  <2>2. CASE p # o
    BY <1>1, <1>7, <2>2
  <2> QED BY <2>1, <2>2
<1> QED BY <1>4, <1>9, <1>10

------------------------------------------------------------------------------
(* The rows the commands compose.                                           *)

LEMMA MoveIs ==
    ASSUME NEW lot, NEW type, NEW qty, NEW from, NEW into, NEW at
    PROVE  LET row == Move(lot, type, qty, from, into, at)
           IN /\ RowShape(row)
              /\ row.lot = lot /\ row.type = type /\ row.qty = qty /\ row.from = from /\ row.into = into /\ row.at = at
              /\ row.to = Outside /\ row.act = Outside /\ row.issue = 0
  BY DEF Move, RowShape

\* A row with its destination, its activity, or its activity and its issue filled in.
Completes(x, row, to, a, i) ==
    /\ RowShape(x)
    /\ x.lot = row.lot /\ x.type = row.type /\ x.qty = row.qty /\ x.from = row.from /\ x.into = row.into
    /\ x.at = row.at /\ x.to = to /\ x.act = a /\ x.issue = i

LEMMA SentTo ==
    ASSUME NEW row, RowShape(row), NEW to
    PROVE  Completes([row EXCEPT !.to = to], row, to, row.act, row.issue)
<1> DEFINE x == [row EXCEPT !.to = to]
<1>1. /\ x.lot = row.lot /\ x.type = row.type /\ x.qty = row.qty /\ x.from = row.from /\ x.into = row.into
      /\ x.at = row.at /\ x.to = to /\ x.act = row.act /\ x.issue = row.issue /\ x.undoes = row.undoes /\ x.n = row.n
  BY DEF RowShape
<1>2. x = [k \in DOMAIN row |-> x[k]]
  BY DEF RowShape
<1>3. DOMAIN row = {"lot", "type", "qty", "from", "into", "at", "to", "act", "issue", "undoes", "n"}
  BY DEF RowShape
<1> HIDE DEF x
<1>4. RowShape(x)
  BY <1>2, <1>3 DEF RowShape
<1>5. Completes(x, row, to, row.act, row.issue)
  BY <1>1, <1>4 DEF Completes
<1> QED BY <1>5 DEF x

LEMMA HeldFor ==
    ASSUME NEW row, RowShape(row), NEW a
    PROVE  Completes([row EXCEPT !.act = a], row, row.to, a, row.issue)
<1> DEFINE x == [row EXCEPT !.act = a]
<1>1. /\ x.lot = row.lot /\ x.type = row.type /\ x.qty = row.qty /\ x.from = row.from /\ x.into = row.into
      /\ x.at = row.at /\ x.to = row.to /\ x.act = a /\ x.issue = row.issue /\ x.undoes = row.undoes /\ x.n = row.n
  BY DEF RowShape
<1>2. x = [k \in DOMAIN row |-> x[k]]
  BY DEF RowShape
<1>3. DOMAIN row = {"lot", "type", "qty", "from", "into", "at", "to", "act", "issue", "undoes", "n"}
  BY DEF RowShape
<1> HIDE DEF x
<1>4. RowShape(x)
  BY <1>2, <1>3 DEF RowShape
<1>5. Completes(x, row, row.to, a, row.issue)
  BY <1>1, <1>4 DEF Completes
<1> QED BY <1>5 DEF x

LEMMA OnIssue ==
    ASSUME NEW row, RowShape(row), NEW a, NEW i
    PROVE  Completes([row EXCEPT !.act = a, !.issue = i], row, row.to, a, i)
<1> DEFINE x == [row EXCEPT !.act = a, !.issue = i]
<1>1. /\ x.lot = row.lot /\ x.type = row.type /\ x.qty = row.qty /\ x.from = row.from /\ x.into = row.into
      /\ x.at = row.at /\ x.to = row.to /\ x.act = a /\ x.issue = i /\ x.undoes = row.undoes /\ x.n = row.n
  BY DEF RowShape
<1>2. x = [k \in DOMAIN row |-> x[k]]
  BY DEF RowShape
<1>3. DOMAIN row = {"lot", "type", "qty", "from", "into", "at", "to", "act", "issue", "undoes", "n"}
  BY DEF RowShape
<1> HIDE DEF x
<1>4. RowShape(x)
  BY <1>2, <1>3 DEF RowShape
<1>5. Completes(x, row, row.to, a, i)
  BY <1>1, <1>4 DEF Completes
<1> QED BY <1>5 DEF x

------------------------------------------------------------------------------
(* The commands of the store.                                               *)

Accounted(os, L, ls) == \A o \in Orders : os[o].received = ReceivedBy(L, ls, o)

LEMMA StockInvIs ==
    /\ StockInv <=> OrdersInv /\ RowsInv(ledger, Len(lots)) /\ Accounted(orders, ledger, lots)
    /\ StockInv' <=> OrdersInv' /\ RowsInv(ledger', Len(lots')) /\ Accounted(orders', ledger', lots')
<1>1. ReceivedIsLedger <=> Accounted(orders, ledger, lots)
  BY DEF ReceivedIsLedger, Accounted, ReceivedBy, Progressed, ProgressOf
<1>2. ReceivedIsLedger' <=> Accounted(orders', ledger', lots')
  BY DEF ReceivedIsLedger, Accounted, ReceivedBy, Progressed, ProgressOf
<1> QED BY <1>1, <1>2 DEF StockInv

Quiet(x) == /\ x.type \notin {"receipt", "rejection"}
            /\ x.type = "reversal" => x.undoes.type \notin {"receipt", "rejection"}

LEMMA QuietAccounted ==
    ASSUME NEW L, NEW n, RowsInv(L, n), NEW os, NEW ls, Accounted(os, L, ls), NEW x, x \notin L, x.qty \in Nat, Quiet(x)
    PROVE  Accounted(os, L \cup {x}, ls)
<1> SUFFICES ASSUME NEW o \in Orders PROVE ReceivedBy(L \cup {x}, ls, o) = ReceivedBy(L, ls, o)
  BY DEF Accounted
<1>1. ProgressOf(ls, x, o) = 0
  BY DEF ProgressOf, Quiet
<1>2. ReceivedBy(L, ls, o) \in Int
      /\ ReceivedBy(L \cup {x}, ls, o) = ReceivedBy(L, ls, o) + ProgressOf(ls, x, o)
  BY ReceivedMore
<1> QED BY <1>1, <1>2

\* A row that leaves the orders alone.
LEMMA QuietRow ==
    ASSUME StockInv, NEW x, x \notin ledger, x.qty \in Nat, RowsInv(ledger \cup {x}, Len(lots)),
           ledger' = ledger \cup {x}, UNCHANGED <<reqs, orders, lots>>, Quiet(x)
    PROVE  StockInv'
<1>1. OrdersInv /\ RowsInv(ledger, Len(lots)) /\ Accounted(orders, ledger, lots)
  BY StockInvIs
<1>2. OrdersInv'
  BY <1>1 DEF OrdersInv
<1>3. Accounted(orders', ledger', lots')
  BY <1>1, QuietAccounted
<1> QED BY <1>2, <1>3, StockInvIs

\* A row that is the progress of its lot's order.
LEMMA ProgressRow ==
    ASSUME StockInv, NEW x, x \notin ledger, x.qty \in Nat, x.lot \in 1 .. Len(lots),
           RowsInv(ledger \cup {x}, Len(lots)), ledger' = ledger \cup {x}, UNCHANGED <<reqs, lots>>,
           NEW delta, Progress(x.lot, delta),
           \/ delta = x.qty /\ x.type = "reversal" /\ x.undoes.type = "rejection"
           \/ delta = 0 - x.qty /\ (x.type = "rejection" \/ (x.type = "reversal" /\ x.undoes.type = "receipt"))
    PROVE  StockInv'
<1> DEFINE p == lots[x.lot]
<1>1. OrdersInv /\ RowsInv(ledger, Len(lots)) /\ Accounted(orders, ledger, lots)
  BY StockInvIs
<1>2. OrdersSound(orders) /\ LotsSound(orders, lots) /\ lots \in Seq(Orders) /\ reqs \in Requested
  BY <1>1 DEF OrdersInv, LotsSound
<1>3. p \in Orders /\ orders[p].status \notin Unissued /\ delta \in Int
  BY <1>2 DEF LotsSound
<1>4. ProgressFits(p, delta) /\ orders' = WithProgress(p, delta)
  BY DEF Progress
<1>5. OrdersSound(orders') /\ \A o \in Orders :
          /\ orders[o].status \notin Unissued => orders'[o].status \notin Unissued
          /\ orders'[o].received = orders[o].received + (IF o = p THEN delta ELSE 0)
  BY <1>2, <1>3, <1>4, Progresses
<1>6. LotsSound(orders', lots)
  BY <1>2, <1>5 DEF LotsSound
<1>7. OrdersInv'
  BY <1>2, <1>5, <1>6 DEF OrdersInv
<1>8. ASSUME NEW o \in Orders PROVE orders'[o].received = ReceivedBy(ledger', lots', o)
  <2>1. ProgressOf(lots, x, o) = IF o = p THEN delta ELSE 0
    BY DEF ProgressOf
  <2>2. ReceivedBy(ledger \cup {x}, lots, o) = ReceivedBy(ledger, lots, o) + ProgressOf(lots, x, o)
    BY <1>1, ReceivedMore
  <2>3. orders[o].received = ReceivedBy(ledger, lots, o)
    BY <1>1 DEF Accounted
  <2> QED BY <1>5, <2>1, <2>2, <2>3
<1>9. Accounted(orders', ledger', lots')
  BY <1>8 DEF Accounted
<1> QED BY <1>7, <1>9, StockInvIs

\* What AppendRow does, for a row of a lot of the store.
LEMMA AppendIs ==
    ASSUME NEW row, AppendRow(row)
    PROVE  /\ ledger' = ledger \cup {NumberedIn(ledger, row)} /\ UNCHANGED <<reqs, lots>> /\ row.lot <= Len(lots)
           /\ Numbered(row) = NumberedIn(ledger, row)
<1>1. Numbered(row) = NumberedIn(ledger, row)
  BY DEF Numbered, NumberedIn, Copies, CopiesIn, Alike
<1> QED BY <1>1 DEF AppendRow

LEMMA LotsIs ==
    ASSUME StockInv
    PROVE  /\ RowsInv(ledger, Len(lots)) /\ Len(lots) \in Nat /\ DOMAIN lots = 1 .. Len(lots) /\ lots \in Seq(Orders)
           /\ \A lot : LotRows(lot) = OfLot(ledger, lot)
           /\ Issues = IssuesIn(ledger)
  BY DEF StockInv, OrdersInv, LotsSound, LotRows, OfLot, Issues, IssuesIn

\* Acceptance, return to the vendor, adjustment and transfer.
LEMMA PlainStep ==
    ASSUME StockInv, NEW row, AppendRow(row), UNCHANGED orders,
           RowShape(row), RowValues(row), row.lot \in 1 .. Len(lots), row.issue = 0,
           row.type \in {"acceptance", "vendor_return", "adjustment", "transfer"},
           {row.from, row.into} \subseteq Stored \cup {Outside}
    PROVE  StockInv'
<1> DEFINE x == NumberedIn(ledger, row)
<1>1. RowsInv(ledger, Len(lots))
  BY LotsIs
<1>2. ledger' = ledger \cup {x} /\ UNCHANGED <<reqs, lots>>
  BY AppendIs
<1> HIDE DEF x
<1>3. RowsInv(ledger \cup {x}, Len(lots)) /\ x \notin ledger /\ SameButNumber(x, row)
  BY <1>1, PlainRow DEF x
<1>4. x.type = row.type /\ x.qty \in Nat
  BY <1>3 DEF SameButNumber, RowValues
<1> QED BY <1>2, <1>3, <1>4, QuietRow DEF Quiet

LEMMA PlainSteps ==
    ASSUME StockInv, NEW lot \in 1 .. Len(lots), NEW qty \in MoveQtys, NEW loc \in Locations
    PROVE  /\ Accept(lot, qty, loc) => StockInv'
           /\ VendorReturn(lot, qty, loc) => StockInv'
           /\ \A from, into \in Stored \cup {Outside} : Adjust(lot, qty, from, into, loc) => StockInv'
           /\ \A to \in Locations : Transfer(lot, qty, loc, to) => StockInv'
<1> USE StoreAssumption
<1>0. {"quarantine", "acceptedOnHand", "rejected"} = Stored /\ Stored \subseteq Buckets /\ qty \in Nat \ {0}
  BY DEF Stored, Buckets
<1>1. ASSUME NEW type \in {"acceptance", "vendor_return", "adjustment", "transfer"},
             NEW from \in Stored \cup {Outside}, NEW into \in Stored \cup {Outside}, NEW to \in Locations \cup {Outside},
             NEW row, row = Move(lot, type, qty, from, into, loc) \/ row = [Move(lot, type, qty, from, into, loc) EXCEPT !.to = to],
             AppendRow(row), UNCHANGED orders
      PROVE  StockInv'
  <2> DEFINE move == Move(lot, type, qty, from, into, loc)
  <2>1. RowShape(move) /\ move.lot = lot /\ move.type = type /\ move.qty = qty /\ move.from = from /\ move.into = into
        /\ move.at = loc /\ move.to = Outside /\ move.act = Outside /\ move.issue = 0
    BY MoveIs
  <2> HIDE DEF move
  <2>2. row = move \/ row = [move EXCEPT !.to = to]
    BY <1>1 DEF move
  <2>4. /\ RowShape(row)
        /\ row.lot = lot /\ row.type = type /\ row.qty = qty /\ row.from = from /\ row.into = into
        /\ row.at = loc /\ row.to \in Locations \cup {Outside} /\ row.act = Outside /\ row.issue = 0
    <3>1. CASE row = move
      BY <2>1, <3>1
    <3>2. CASE row = [move EXCEPT !.to = to]
      <4>1. Completes(row, move, to, move.act, move.issue)
        BY <2>1, <3>2, SentTo
      <4> QED BY <2>1, <4>1 DEF Completes
    <3> QED BY <2>2, <3>1, <3>2
  <2>5. RowValues(row)
    BY <1>0, <2>4 DEF RowValues
  <2> QED BY <1>1, <2>4, <2>5, PlainStep
<1>2. Accept(lot, qty, loc) => StockInv'
  BY <1>0, <1>1 DEF Accept
<1>3. VendorReturn(lot, qty, loc) => StockInv'
  BY <1>0, <1>1 DEF VendorReturn
<1>4. \A from, into \in Stored \cup {Outside} : Adjust(lot, qty, from, into, loc) => StockInv'
  BY <1>1 DEF Adjust
<1>5. \A to \in Locations : Transfer(lot, qty, loc, to) => StockInv'
  BY <1>0, <1>1 DEF Transfer
<1> QED BY <1>2, <1>3, <1>4, <1>5

LEMMA RejectStep ==
    ASSUME StockInv, NEW lot \in 1 .. Len(lots), NEW qty \in MoveQtys, NEW loc \in Locations, RejectStock(lot, qty, loc)
    PROVE  StockInv'
<1> DEFINE row == Move(lot, "rejection", qty, "quarantine", "rejected", loc)
           x == NumberedIn(ledger, row)
<1>1. RowsInv(ledger, Len(lots))
  BY LotsIs
<1>2. RowShape(row) /\ row.lot = lot /\ row.type = "rejection" /\ row.qty = qty /\ row.from = "quarantine" /\ row.into = "rejected"
      /\ row.at = loc /\ row.to = Outside /\ row.act = Outside /\ row.issue = 0
  BY MoveIs
<1>3. AppendRow(row) /\ Progress(lot, 0 - qty)
  BY DEF RejectStock
<1> HIDE DEF row
<1>4. ledger' = ledger \cup {x} /\ UNCHANGED <<reqs, lots>>
  BY <1>3, AppendIs
<1> HIDE DEF x
<1>5. RowValues(row) /\ qty \in Nat
  BY <1>2, StoreAssumption DEF RowValues, Buckets, Stored
<1>6. RowsInv(ledger \cup {x}, Len(lots)) /\ x \notin ledger /\ SameButNumber(x, row)
  BY <1>1, <1>2, <1>5, PlainRow DEF x, Stored
<1>7. x.type = "rejection" /\ x.qty = qty /\ x.lot = lot
  BY <1>2, <1>6 DEF SameButNumber
<1> QED BY <1>3, <1>4, <1>5, <1>6, <1>7, ProgressRow

LEMMA ReserveStep ==
    ASSUME StockInv, NEW lot \in 1 .. Len(lots), NEW qty \in MoveQtys, NEW loc \in Locations, NEW a \in Activities,
           Reserve(lot, qty, loc, a) \/ Release(lot, qty, loc, a)
    PROVE  StockInv'
<1>1. RowsInv(ledger, Len(lots)) /\ LotRows(lot) = OfLot(ledger, lot)
  BY LotsIs
<1>2. ASSUME NEW type, NEW from, NEW into, NEW row, row = [Move(lot, type, qty, from, into, loc) EXCEPT !.act = a],
             AppendRow(row), UNCHANGED orders, type \in {"reservation", "reservation_release"},
             \/ from = Outside /\ into = "reserved"
             \/ from = "reserved" /\ into = Outside /\ Held(ledger, lot, loc, a) >= qty
      PROVE  StockInv'
  <2> DEFINE move == Move(lot, type, qty, from, into, loc)
             x == NumberedIn(ledger, row)
  <2>1. RowShape(move) /\ move.lot = lot /\ move.type = type /\ move.qty = qty /\ move.from = from /\ move.into = into
        /\ move.at = loc /\ move.to = Outside /\ move.act = Outside /\ move.issue = 0
    BY MoveIs
  <2>2. row = [move EXCEPT !.act = a]
    BY <1>2
  <2> HIDE DEF move
  <2>3. /\ RowShape(row)
        /\ row.lot = lot /\ row.type = type /\ row.qty = qty /\ row.from = from /\ row.into = into
        /\ row.at = loc /\ row.to = Outside /\ row.act = a /\ row.issue = 0
    <3>1. Completes(row, move, move.to, a, move.issue)
      BY <2>1, <2>2, HeldFor
    <3> QED BY <2>1, <3>1 DEF Completes
  <2>4. RowValues(row) /\ qty \in Nat
    BY <1>2, <2>3, StoreAssumption DEF RowValues, Buckets
  <2>5. ledger' = ledger \cup {x} /\ UNCHANGED <<reqs, lots>>
    BY <1>2, AppendIs
  <2>x. x = NumberedIn(ledger, row)
    OBVIOUS
  <2> HIDE DEF x
  <2>h. row.type \notin {"issue", "reversal"}
        /\ \/ row.from = Outside /\ row.into = "reserved"
           \/ row.from = "reserved" /\ row.into = Outside /\ Held(ledger, row.lot, row.at, row.act) >= row.qty
    BY <1>2, <2>3
  <2>6. RowsInv(ledger \cup {x}, Len(lots)) /\ x \notin ledger /\ SameButNumber(x, row)
    <3>1. row.issue = 0 /\ row.act \in Activities /\ row.to = Outside /\ row.lot \in 1 .. Len(lots)
      BY <2>3
    <3> QED BY <1>1, <2>3, <2>4, <2>x, <2>h, <3>1, ActivityRow
  <2>7. Quiet(x) /\ x.qty \in Nat
    BY <1>2, <2>3, <2>4, <2>6 DEF SameButNumber, Quiet
  <2> QED BY <1>2, <2>5, <2>6, <2>7, QuietRow
<1>3. CASE Reserve(lot, qty, loc, a)
  BY <1>2, <1>3 DEF Reserve
<1>4. CASE Release(lot, qty, loc, a)
  <2>1. Held(ledger, lot, loc, a) >= qty
    BY <1>1, <1>4 DEF Release, ReservedForActivity, Held
  <2> QED BY <1>2, <1>4, <2>1 DEF Release, ReleaseRow
<1> QED BY <1>3, <1>4

LEMMA DrawStep ==
    ASSUME StockInv, NEW issue \in Issues, NEW qty \in MoveQtys,
           Consume(issue, qty) \/ SiteReturn(issue, qty) \/ Wastage(issue, qty)
    PROVE  StockInv'
<1>1. RowsInv(ledger, Len(lots)) /\ LotRows(issue.lot) = OfLot(ledger, issue.lot) /\ issue \in IssuesIn(ledger)
  BY LotsIs
<1>2. PICK type \in {"consumption", "site_return", "wastage"}, into \in {Outside, "acceptedOnHand"} :
           AgainstIssue(issue, type, qty, into)
  BY DEF Consume, SiteReturn, Wastage
<1> DEFINE move == Move(issue.lot, type, qty, "issuedToActivity", into, issue.at)
           row == [move EXCEPT !.act = issue.act, !.issue = issue.issue]
           x == NumberedIn(ledger, row)
<1>3. Custody(ledger, issue.lot, issue.at, issue.issue) >= qty /\ AppendRow(row) /\ UNCHANGED orders
  BY <1>1, <1>2 DEF AgainstIssue, IssueCustody, Custody
<1>4. RowShape(move) /\ move.lot = issue.lot /\ move.type = type /\ move.qty = qty /\ move.from = "issuedToActivity"
      /\ move.into = into /\ move.at = issue.at /\ move.to = Outside /\ move.act = Outside /\ move.issue = 0
  BY MoveIs
<1> HIDE DEF move
<1>5. /\ RowShape(row)
      /\ row.lot = issue.lot /\ row.type = type /\ row.qty = qty /\ row.from = "issuedToActivity" /\ row.into = into
      /\ row.at = issue.at /\ row.to = Outside /\ row.act = issue.act /\ row.issue = issue.issue
  <2>1. Completes(row, move, move.to, issue.act, issue.issue)
    BY <1>4, OnIssue
  <2> HIDE DEF row
  <2> QED BY <1>4, <2>1 DEF Completes
<1> HIDE DEF row
<1>6. IsRow(issue) /\ issue.lot \in 1 .. Len(lots)
  BY <1>1 DEF RowsInv, Shaped, IssuesIn
<1>7. RowValues(row) /\ qty \in Nat /\ OfIssue(row, issue)
  BY <1>5, <1>6, StoreAssumption DEF IsRow, RowValues, Buckets, Stored, OfIssue
<1>8. ledger' = ledger \cup {x} /\ UNCHANGED <<reqs, lots>>
  BY <1>3, AppendIs
<1> HIDE DEF x
<1>9. RowsInv(ledger \cup {x}, Len(lots)) /\ x \notin ledger /\ SameButNumber(x, row)
  BY <1>1, <1>3, <1>5, <1>6, <1>7, DrawRow DEF x
<1>10. Quiet(x) /\ x.qty \in Nat
  BY <1>5, <1>7, <1>9 DEF SameButNumber, Quiet
<1> QED BY <1>3, <1>8, <1>9, <1>10, QuietRow

LEMMA ReverseStep ==
    ASSUME StockInv, NEW d \in ledger, Reverse(d)
    PROVE  StockInv'
<1> DEFINE x == NumberedIn(ledger, ExactInverse(d))
<1>1. RowsInv(ledger, Len(lots)) /\ LotRows(d.lot) = OfLot(ledger, d.lot)
  BY LotsIs
<1>2. d.type # "reversal" /\ (\A r \in ledger : r.undoes # d) /\ AppendRow(ExactInverse(d))
      /\ ScopeHolds(LotRows(d.lot) \cup {Numbered(ExactInverse(d))}, d)
  BY DEF Reverse
<1>3. ledger' = ledger \cup {x} /\ UNCHANGED <<reqs, lots>> /\ Numbered(ExactInverse(d)) = x
  BY <1>2, AppendIs
<1>4. IsFiniteSet(ledger) /\ CopiesNumbered(ledger) /\ (\A r \in ledger : r.n \in Nat) /\ IsRow(d) /\ d.lot \in 1 .. Len(lots)
  BY <1>1 DEF RowsInv, Shaped, IsRow
<1>5. x.lot = d.lot
  BY <1>4 DEF NumberedIn, ExactInverse, IsRow, RowShape
<1>x. x = NumberedIn(ledger, ExactInverse(d))
  OBVIOUS
<1> HIDE DEF x
<1>6. OfLot(ledger \cup {x}, d.lot) = LotRows(d.lot) \cup {x}
  BY <1>1, <1>5 DEF OfLot
<1>7. /\ d.act # Outside => Held(ledger \cup {x}, d.lot, d.at, d.act) >= 0
      /\ d.issue # 0 => Custody(ledger \cup {x}, d.lot, d.at, d.issue) >= 0
  BY <1>2, <1>3, <1>6 DEF ScopeHolds, ReservedForActivity, IssueCustody, Held, Custody
<1>8. ~Undone(ledger, d)
  BY <1>2 DEF Undone
<1>9. RowsInv(ledger \cup {x}, Len(lots)) /\ x \notin ledger
      /\ x.lot = d.lot /\ x.qty = d.qty /\ x.type = "reversal" /\ x.undoes = d
  <2> DEFINE n == Len(lots)
  <2>1. RowsInv(ledger, n) /\ d.type # "reversal"
    BY <1>1, <1>2
  <2> HIDE DEF n
  <2>2. /\ RowsInv(ledger \cup {x}, n) /\ x \notin ledger /\ SameButNumber(x, ExactInverse(d))
        /\ x.lot = d.lot /\ x.qty = d.qty /\ x.type = "reversal" /\ x.undoes = d
    BY <1>7, <1>8, <1>x, <2>1, UndoRow
  <2> QED BY <2>2 DEF n
<1>10. x.qty \in Nat
  BY <1>4, <1>9 DEF IsRow, RowValues
<1>11. CASE d.type = "receipt"
  <2>1. Progress(x.lot, 0 - x.qty)
    BY <1>9, <1>11 DEF Reverse
  <2> QED BY <1>3, <1>4, <1>9, <1>10, <1>11, <2>1, ProgressRow
<1>12. CASE d.type = "rejection"
  <2>1. Progress(x.lot, x.qty)
    BY <1>9, <1>12 DEF Reverse
  <2> QED BY <1>3, <1>4, <1>9, <1>10, <1>12, <2>1, ProgressRow
<1>13. CASE d.type \notin {"receipt", "rejection"}
  <2>1. UNCHANGED orders /\ Quiet(x)
    BY <1>9, <1>13 DEF Reverse, Quiet
  <2> QED BY <1>3, <1>9, <1>10, <2>1, QuietRow
<1> QED BY <1>11, <1>12, <1>13

LEMMA ReceiptStep ==
    ASSUME StockInv, NEW o \in Orders, NEW qty \in MoveQtys, NEW loc \in Locations, RecordReceipt(o, qty, loc)
    PROVE  StockInv'
<1> DEFINE n == Len(lots)
           row == Move(n + 1, "receipt", qty, Outside, "quarantine", loc)
           x == NumberedIn(ledger, row)
<1>1. OrdersInv /\ RowsInv(ledger, n) /\ Accounted(orders, ledger, lots) /\ n \in Nat /\ lots \in Seq(Orders)
  BY StockInvIs, LotsIs
<1>2. RowShape(row) /\ row.lot = n + 1 /\ row.type = "receipt" /\ row.qty = qty /\ row.from = Outside /\ row.into = "quarantine"
      /\ row.at = loc /\ row.to = Outside /\ row.act = Outside /\ row.issue = 0
  BY MoveIs
<1>3. /\ n + 1 <= MaxLots /\ Receivable(o) /\ ProgressFits(o, qty) /\ orders' = WithProgress(o, qty)
      /\ lots' = lots \o <<o>> /\ ledger' = ledger \cup {x} /\ reqs' = reqs
  BY DEF RecordReceipt, Numbered, NumberedIn, Copies, CopiesIn, Alike
<1>x. x = NumberedIn(ledger, row)
  OBVIOUS
<1> HIDE DEF row, x
<1>4. Len(lots') = n + 1 /\ lots' \in Seq(Orders) /\ lots'[n + 1] = o /\ \A lot \in 1 .. n : lots'[lot] = lots[lot]
  BY <1>1, <1>3
<1> HIDE DEF n
<1>5. RowsInv(ledger, n + 1)
  BY <1>1, NewLot
<1>6. RowValues(row) /\ qty \in Nat /\ row.lot \in 1 .. n + 1
  BY <1>1, <1>2, StoreAssumption DEF RowValues, Buckets, Stored
<1>7. {row.from, row.into} \subseteq Stored \cup {Outside}
  BY <1>2 DEF Stored
<1>8. RowsInv(ledger \cup {x}, n + 1) /\ x \notin ledger /\ SameButNumber(x, row)
  BY <1>2, <1>5, <1>6, <1>7, <1>x, PlainRow
<1>9. x.type = "receipt" /\ x.qty = qty /\ x.lot = n + 1
  BY <1>2, <1>8 DEF SameButNumber
<1>10. OrdersSound(orders) /\ LotsSound(orders, lots) /\ reqs \in Requested
  BY <1>1 DEF OrdersInv
<1>11. orders[o].status \notin Unissued /\ qty \in Int
  BY <1>3, <1>6 DEF Receivable, Unissued
<1>12. OrdersSound(orders') /\ \A p \in Orders :
          /\ orders[p].status \notin Unissued => orders'[p].status \notin Unissued
          /\ orders'[p].received = orders[p].received + (IF p = o THEN qty ELSE 0)
  BY <1>3, <1>10, <1>11, Progresses
<1>13. LotsSound(orders', lots')
  <2> SUFFICES ASSUME NEW lot \in 1 .. n + 1 PROVE orders'[lots'[lot]].status \notin Unissued
    BY <1>3, <1>4 DEF LotsSound
  <2>1. CASE lot = n + 1
    BY <1>4, <1>11, <1>12, <2>1
  <2>2. CASE lot \in 1 .. n
    <3>1. lots[lot] \in Orders /\ orders[lots[lot]].status \notin Unissued
      BY <1>1, <1>10, <2>2 DEF LotsSound, n
    <3> QED BY <1>4, <1>12, <2>2, <3>1
  <2> QED BY <1>1, <2>1, <2>2
<1>14. OrdersInv'
  BY <1>3, <1>10, <1>12, <1>13 DEF OrdersInv
<1>15. ASSUME NEW p \in Orders PROVE orders'[p].received = ReceivedBy(ledger', lots', p)
  <2>1. ProgressOf(lots', x, p) = IF p = o THEN qty ELSE 0
    BY <1>4, <1>9 DEF ProgressOf
  <2>2. x.qty \in Nat
    BY <1>6, <1>9
  <2>3. ReceivedBy(ledger \cup {x}, lots', p) = ReceivedBy(ledger, lots, p) + ProgressOf(lots', x, p)
    BY <1>1, <1>4, <1>8, <2>2, ReceivedMore
  <2>4. orders[p].received = ReceivedBy(ledger, lots, p)
    BY <1>1 DEF Accounted
  <2> QED BY <1>3, <1>12, <2>1, <2>3, <2>4
<1>16. Accounted(orders', ledger', lots')
  BY <1>15 DEF Accounted
<1> QED BY <1>3, <1>4, <1>8, <1>14, <1>16, StockInvIs

\* What an issue does: it releases at most what it takes, and carries out what it takes.
Released(L, L1, lot, qty, loc, a) ==
    \/ L1 = L
    \/ \E y : /\ L1 = L \cup {y} /\ y \notin L /\ y.type = "reservation_release" /\ y.issue = 0
              /\ y.lot = lot /\ y.at = loc /\ y.to = Outside /\ y.act = a /\ y.qty \in Nat /\ y.qty <= qty
              /\ Effect(y, "reserved", loc) = 0 - y.qty
              /\ {y.from, y.into} \subseteq {"reserved", Outside}

\* The rows before an issue's own, and that row.
IssuedBy(L1, x, lot, qty, loc, a) ==
    /\ Released(ledger, L1, lot, qty, loc, a) /\ RowsInv(L1, Len(lots)) /\ Accounted(orders, L1, lots)
    /\ ledger' = L1 \cup {x} /\ x \notin L1 /\ RowsInv(L1 \cup {x}, Len(lots))
    /\ x.type = "issue" /\ x.lot = lot /\ x.at = loc /\ x.to = Outside /\ x.act = a /\ x.qty = qty
    /\ x.from = "acceptedOnHand" /\ x.into = "issuedToActivity"
    /\ x.issue # 0 /\ (\A r \in L1 : r.issue # x.issue)
    /\ Custody(L1 \cup {x}, lot, loc, x.issue) = qty

LEMMA IssueIs ==
    ASSUME StockInv, NEW lot \in 1 .. Len(lots), NEW qty \in MoveQtys, NEW loc \in Locations, NEW a \in Activities,
           Issue(lot, qty, loc, a)
    PROVE  \E L1, x : IssuedBy(L1, x, lot, qty, loc, a)
<1> DEFINE n == Len(lots)
           reserved == Held(ledger, lot, loc, a)
           released == IF reserved < qty THEN reserved ELSE qty
           row1 == ReleaseRow(lot, released, loc, a)
           y == NumberedIn(ledger, row1)
           L1 == ledger \cup (IF released > 0 THEN {y} ELSE {})
           row == [Move(lot, "issue", qty, "acceptedOnHand", "issuedToActivity", loc)
                     EXCEPT !.act = a, !.issue = Cardinality(IssuesIn(ledger)) + 1]
           x == NumberedIn(ledger, row)
<1>1. RowsInv(ledger, n) /\ LotRows(lot) = OfLot(ledger, lot) /\ Issues = IssuesIn(ledger) /\ Accounted(orders, ledger, lots)
  BY StockInvIs, LotsIs
<1>2. ledger' = L1 \cup {x}
  <2>1. reserved = ReservedForActivity(LotRows(lot), loc, a)
    BY <1>1 DEF ReservedForActivity, Held
  <2>2. y = Numbered(row1) /\ x = Numbered(row)
    BY <1>1 DEF Numbered, NumberedIn, Copies, CopiesIn, Alike
  <2> QED BY <1>1, <2>1, <2>2 DEF Issue
<1>3. qty \in Nat \ {0} /\ Outside # "reserved" /\ Outside # "issuedToActivity"
  BY StoreAssumption DEF Buckets
<1>4. Shaped(ledger, n) /\ reserved \in Int
  <2>1. Shaped(ledger, n)
    BY <1>1 DEF RowsInv
  <2>2. IsFiniteSet({r \in OfLot(ledger, lot) : r.act = a}) /\ \A r \in {z \in OfLot(ledger, lot) : z.act = a} : r.qty \in Nat
    BY <2>1, PartOfRows DEF OfLot
  <2>3. Held(ledger, lot, loc, a) \in Int
    BY <2>2, BalanceIs DEF Held
  <2> QED BY <2>1, <2>3
<1>5. released \in Int /\ released <= qty /\ released <= reserved
  BY <1>3, <1>4
<1>6. /\ RowShape(row1) /\ row1.lot = lot /\ row1.type = "reservation_release" /\ row1.qty = released
      /\ row1.from = "reserved" /\ row1.into = Outside /\ row1.at = loc /\ row1.to = Outside /\ row1.act = a /\ row1.issue = 0
  <2> DEFINE move == Move(lot, "reservation_release", released, "reserved", Outside, loc)
  <2>1. RowShape(move) /\ move.lot = lot /\ move.type = "reservation_release" /\ move.qty = released /\ move.from = "reserved"
        /\ move.into = Outside /\ move.at = loc /\ move.to = Outside /\ move.act = Outside /\ move.issue = 0
    BY MoveIs
  <2>2. row1 = [move EXCEPT !.act = a]
    BY DEF ReleaseRow
  <2> HIDE DEF move
  <2>3. Completes(row1, move, move.to, a, move.issue)
    BY <2>1, <2>2, HeldFor
  <2> QED BY <2>1, <2>3 DEF Completes
<1>7. /\ RowShape(row) /\ row.lot = lot /\ row.type = "issue" /\ row.qty = qty
      /\ row.from = "acceptedOnHand" /\ row.into = "issuedToActivity" /\ row.at = loc /\ row.to = Outside /\ row.act = a
      /\ row.issue = Cardinality(IssuesIn(ledger)) + 1
  <2> DEFINE move == Move(lot, "issue", qty, "acceptedOnHand", "issuedToActivity", loc)
  <2>1. RowShape(move) /\ move.lot = lot /\ move.type = "issue" /\ move.qty = qty /\ move.from = "acceptedOnHand"
        /\ move.into = "issuedToActivity" /\ move.at = loc /\ move.to = Outside /\ move.act = Outside /\ move.issue = 0
    BY MoveIs
  <2>2. row = [move EXCEPT !.act = a, !.issue = Cardinality(IssuesIn(ledger)) + 1]
    OBVIOUS
  <2> HIDE DEF move, row
  <2>3. Completes(row, move, move.to, a, Cardinality(IssuesIn(ledger)) + 1)
    BY <2>1, <2>2, OnIssue
  <2> QED BY <2>1, <2>3 DEF Completes
<1>y. y = NumberedIn(ledger, row1) /\ x = NumberedIn(ledger, row)
  OBVIOUS
<1> HIDE DEF reserved, row1, y, row, x
<1>8. ASSUME NEW M, Released(ledger, M, lot, qty, loc, a), RowsInv(M, n), Accounted(orders, M, lots),
             IssuesIn(M) = IssuesIn(ledger), CopiesIn(M, row) = CopiesIn(ledger, row), ledger' = M \cup {x}
      PROVE  IssuedBy(M, x, lot, qty, loc, a)
  <2>1. x = NumberedIn(M, row)
    BY <1>y, <1>8 DEF NumberedIn
  <2>2. RowValues(row)
    <3>1. Cardinality(IssuesIn(ledger)) + 1 \in Nat
      BY <1>4, FS_Subset, FS_CardinalityType DEF IssuesIn, Shaped
    <3> QED BY <1>3, <1>7, <3>1 DEF RowValues, Buckets, Stored
  <2>3. row.issue = Cardinality(IssuesIn(M)) + 1
    BY <1>7, <1>8
  <2>4. RowsInv(M \cup {x}, n) /\ x \notin M /\ SameButNumber(x, row)
        /\ Custody(M \cup {x}, row.lot, row.at, row.issue) = row.qty
    BY <1>7, <1>8, <2>1, <2>2, <2>3, IssueRow
  <2>5. /\ x.type = "issue" /\ x.lot = lot /\ x.at = loc /\ x.to = Outside /\ x.act = a /\ x.qty = qty
        /\ x.from = "acceptedOnHand" /\ x.into = "issuedToActivity" /\ x.issue = row.issue
    BY <1>7, <2>4 DEF SameButNumber
  <2>6. x.issue # 0 /\ \A r \in M : r.issue # x.issue
    BY <1>8, <2>3, <2>4, <2>5, NextNumber
  <2>7. Custody(M \cup {x}, lot, loc, x.issue) = qty
    BY <1>7, <2>4, <2>5
  <2> QED BY <1>8, <2>4, <2>5, <2>6, <2>7 DEF IssuedBy
<1>9. CASE released > 0
  <2>1. released \in Nat \ {0}
    BY <1>5, <1>9
  <2>2. RowValues(row1)
    BY <1>6, <2>1 DEF RowValues, Buckets
  <2> HIDE DEF released
  <2>3. Held(ledger, row1.lot, row1.at, row1.act) >= row1.qty
    BY <1>5, <1>6 DEF reserved
  <2>4. row1.lot \in 1 .. n /\ row1.type \notin {"issue", "reversal"} /\ row1.act \in Activities
    BY <1>6
  <2>5. RowsInv(ledger \cup {y}, n) /\ y \notin ledger /\ SameButNumber(y, row1)
    <3>1. \/ row1.from = Outside /\ row1.into = "reserved"
          \/ row1.from = "reserved" /\ row1.into = Outside /\ Held(ledger, row1.lot, row1.at, row1.act) >= row1.qty
      BY <1>6, <2>3
    <3>2. RowShape(row1) /\ row1.issue = 0 /\ row1.to = Outside
      BY <1>6
    <3>3. RowsInv(ledger, n) /\ y = NumberedIn(ledger, row1)
      BY <1>1, <1>y
    <3> HIDE DEF n, L1
    <3> QED BY <2>2, <2>4, <3>1, <3>2, <3>3, ActivityRow
  <2>6. /\ y.type = "reservation_release" /\ y.issue = 0 /\ y.lot = lot /\ y.at = loc /\ y.to = Outside /\ y.act = a
        /\ y.qty = released /\ y.from = "reserved" /\ y.into = Outside
    BY <1>6, <2>5 DEF SameButNumber
  <2>7. Effect(y, "reserved", loc) = 0 - y.qty
    <3>1. Effect(y, "reserved", loc) = (IF y.into = "reserved" THEN y.qty ELSE 0) - (IF y.from = "reserved" THEN y.qty ELSE 0)
      BY <2>1, <2>6, EffectIs
    <3> QED BY <1>3, <2>1, <2>6, <3>1
  <2>8. L1 = ledger \cup {y}
    BY <1>9 DEF released
  <2>9. Released(ledger, L1, lot, qty, loc, a)
    BY <1>5, <2>1, <2>5, <2>6, <2>7, <2>8 DEF Released
  <2>10. Accounted(orders, L1, lots)
    BY <1>1, <2>1, <2>5, <2>6, <2>8, QuietAccounted DEF Quiet
  <2>11. IssuesIn(L1) = IssuesIn(ledger) /\ CopiesIn(L1, row) = CopiesIn(ledger, row)
    <3>1. IssuesIn(L1) = IssuesIn(ledger)
      BY <2>6, <2>8 DEF IssuesIn
    <3>2. IsRow(y)
      BY <2>5 DEF RowsInv, Shaped
    <3>3. ~Alike(y, row)
      <4>1. [y EXCEPT !.n = 0].type = y.type /\ [row EXCEPT !.n = 0].type = row.type
        BY <1>7, <3>2 DEF IsRow, RowShape
      <4> QED BY <1>7, <2>6, <4>1 DEF Alike
    <3> QED BY <2>8, <3>1, <3>3 DEF CopiesIn
  <2>12. RowsInv(L1, n)
    BY <2>5, <2>8
  <2> HIDE DEF L1
  <2> QED BY <1>2, <1>8, <2>9, <2>10, <2>11, <2>12
<1>10. CASE ~(released > 0)
  <2>1. L1 = ledger
    BY <1>10
  <2>2. Released(ledger, L1, lot, qty, loc, a)
    BY <2>1 DEF Released
  <2> HIDE DEF L1
  <2> QED BY <1>1, <1>2, <1>8, <2>1, <2>2
<1> QED BY <1>9, <1>10

LEMMA IssueStepKeeps ==
    ASSUME StockInv, NEW lot \in 1 .. Len(lots), NEW qty \in MoveQtys, NEW loc \in Locations, NEW a \in Activities,
           Issue(lot, qty, loc, a)
    PROVE  StockInv'
<1>0. PICK L1, x : IssuedBy(L1, x, lot, qty, loc, a)
  BY IssueIs
<1>1. /\ RowsInv(L1, Len(lots)) /\ Accounted(orders, L1, lots)
      /\ ledger' = L1 \cup {x} /\ x \notin L1 /\ RowsInv(L1 \cup {x}, Len(lots))
      /\ x.type = "issue" /\ x.qty = qty
  BY <1>0 DEF IssuedBy
<1>2. UNCHANGED <<reqs, orders, lots>>
  BY DEF Issue
<1>3. OrdersInv'
  BY <1>2, StockInvIs DEF OrdersInv
<1>4. Quiet(x) /\ x.qty \in Nat
  BY <1>1, StoreAssumption DEF Quiet
<1>5. Accounted(orders, L1 \cup {x}, lots)
  BY <1>1, <1>4, QuietAccounted
<1> QED BY <1>1, <1>2, <1>3, <1>5, StockInvIs

LEMMA StockInvInit == Init => StockInv
<1> SUFFICES ASSUME Init PROVE StockInv
  OBVIOUS
<1>1. lots = <<>> /\ ledger = {} /\ OrdersInit
  BY DEF Init
<1>2. reqs \in Requested
  BY <1>1 DEF OrdersInit, Requested, NoRequisition, ReqStatuses
<1>3. OrderSound(NoOrder) /\ NoOrder.received = 0
  BY DEF NoOrder, OrderSound, Order, OrderStatuses, LiveOrder, Deliveries
<1>4. OrdersSound(orders)
  <2>1. \A o \in Orders : orders[o] = NoOrder
    BY <1>1 DEF OrdersInit
  <2>2. NoOrder \in Order
    BY <1>3 DEF OrderSound
  <2>3. orders \in [Orders -> Order]
    BY <1>1, <2>2 DEF OrdersInit
  <2> QED BY <1>3, <2>1, <2>3 DEF OrdersSound
<1>5. Len(lots) = 0 /\ lots \in Seq(Orders)
  BY <1>1
<1>6. OrdersInv
  BY <1>2, <1>4, <1>5, StoreAssumption DEF OrdersInv, LotsSound
<1>7. RowsInv({}, 0)
  <2>1. IsFiniteSet({}) /\ IssuesIn({}) = {}
    BY FS_EmptySet DEF IssuesIn
  <2> QED BY <2>1 DEF RowsInv, Shaped, CopiesNumbered, UndoesItsOwn, IssuesNumbered, Attributed,
                      ReservedOwned, CustodyBalanced, CustodyOwned
<1>8. \A o \in Orders : ReceivedBy({}, lots, o) = 0
  BY SumNone DEF ReceivedBy
<1>9. Accounted(orders, {}, lots)
  BY <1>1, <1>3, <1>8 DEF Accounted, OrdersInit
<1> QED BY <1>1, <1>5, <1>6, <1>7, <1>9, StockInvIs

LEMMA StockInvNext == StockInv /\ [Next]_vars => StockInv'
<1> SUFFICES ASSUME StockInv, [Next]_vars PROVE StockInv'
  OBVIOUS
<1>0. DOMAIN lots = 1 .. Len(lots) /\ Issues \subseteq ledger
  BY LotsIs DEF Issues
<1>1. ASSUME OrdersNext, UNCHANGED <<lots, ledger>> PROVE StockInv'
  <2>1. OrdersInv /\ RowsInv(ledger, Len(lots)) /\ Accounted(orders, ledger, lots)
    BY StockInvIs
  <2>2. reqs' \in Requested /\ Kept(orders, orders')
    BY <1>1, <2>1, OrdersStep DEF OrdersInv
  <2>3. LotsSound(orders', lots)
    BY <2>1, <2>2 DEF OrdersInv, LotsSound, Kept
  <2>4. OrdersInv'
    BY <1>1, <2>2, <2>3 DEF OrdersInv, Kept
  <2>5. Accounted(orders', ledger', lots')
    BY <1>1, <2>1, <2>2 DEF Accounted, Kept
  <2> QED BY <1>1, <2>1, <2>4, <2>5, StockInvIs
<1>2. ASSUME Correction PROVE StockInv'
  BY <1>0, <1>2, PlainSteps DEF Correction
<1>3. ASSUME NEW o \in Orders, NEW qty \in MoveQtys, NEW loc \in Locations, RecordReceipt(o, qty, loc) PROVE StockInv'
  BY <1>3, ReceiptStep
<1>4. ASSUME NEW lot \in DOMAIN lots, NEW qty \in MoveQtys, NEW loc \in Locations,
             \/ Accept(lot, qty, loc) \/ RejectStock(lot, qty, loc) \/ VendorReturn(lot, qty, loc)
             \/ \E a \in Activities : Reserve(lot, qty, loc, a) \/ Release(lot, qty, loc, a) \/ Issue(lot, qty, loc, a)
             \/ \E to \in Locations : Transfer(lot, qty, loc, to)
      PROVE  StockInv'
  <2>1. ASSUME Accept(lot, qty, loc) \/ VendorReturn(lot, qty, loc) \/ \E to \in Locations : Transfer(lot, qty, loc, to)
        PROVE  StockInv'
    BY <1>0, <2>1, PlainSteps
  <2>2. ASSUME RejectStock(lot, qty, loc) PROVE StockInv'
    BY <1>0, <2>2, RejectStep
  <2>3. ASSUME NEW a \in Activities, Reserve(lot, qty, loc, a) \/ Release(lot, qty, loc, a) PROVE StockInv'
    BY <1>0, <2>3, ReserveStep
  <2>4. ASSUME NEW a \in Activities, Issue(lot, qty, loc, a) PROVE StockInv'
    BY <1>0, <2>4, IssueStepKeeps
  <2> QED BY <1>4, <2>1, <2>2, <2>3, <2>4
<1>5. ASSUME NEW row \in ledger, Reverse(row) PROVE StockInv'
  BY <1>5, ReverseStep
<1>6. ASSUME NEW issue \in Issues, NEW qty \in MoveQtys, Consume(issue, qty) \/ SiteReturn(issue, qty) \/ Wastage(issue, qty)
      PROVE  StockInv'
  BY <1>6, DrawStep
<1>7. ASSUME UNCHANGED vars PROVE StockInv'
  <2>1. OrdersInv /\ RowsInv(ledger, Len(lots)) /\ Accounted(orders, ledger, lots)
    BY StockInvIs
  <2>2. reqs' = reqs /\ orders' = orders /\ lots' = lots /\ ledger' = ledger
    BY <1>7 DEF vars
  <2>3. OrdersInv'
    BY <2>1, <2>2 DEF OrdersInv
  <2> QED BY <2>1, <2>2, <2>3, StockInvIs
<1> QED BY <1>1, <1>2, <1>3, <1>4, <1>5, <1>6, <1>7 DEF Next, StoreNext

LEMMA StockInvAlways == Spec => []StockInv
<1>1. Init => StockInv
  BY StockInvInit
<1>2. StockInv /\ [Next]_vars => StockInv'
  BY StockInvNext
<1> QED BY <1>1, <1>2, PTL DEF Spec

\* What an order line has received is what the ledger's receipts less its
\* rejections come to, reversals included, and within what was ordered and the
\* approved overage, whatever happened to the order in between.
THEOREM ReceiptsStayAccounted == Spec => []ReceiptsAccounted
<1>1. StockInv => ReceiptsAccounted
  <2> SUFFICES ASSUME StockInv PROVE ReceiptsAccounted
    OBVIOUS
  <2>1. OrdersInv /\ RowsInv(ledger, Len(lots)) /\ ReceivedIsLedger
    BY DEF StockInv
  <2>2. orders \in [Orders -> Order] /\ reqs \in Requested /\ \A o \in Orders : OrderSound(orders[o])
    BY <2>1 DEF OrdersInv, OrdersSound
  <2>3. OrdersTypeOK
    BY <2>2 DEF OrdersTypeOK, Order, Requested
  <2>4. ReceiptsWithinOrder
    BY <2>2 DEF ReceiptsWithinOrder, OrderSound
  <2>5. TypeOK
    <3>1. lots \in Seq(Orders) /\ Len(lots) <= MaxLots /\ DOMAIN lots = 1 .. Len(lots)
      BY <2>1, LotsIs DEF OrdersInv, LotsSound
    <3>2. \A r \in ledger : /\ r.lot \in 1 .. Len(lots) /\ r.qty \in Nat \ {0}
                            /\ {r.from, r.into} \subseteq Buckets \cup {Outside}
                            /\ r.at \in Locations /\ r.to \in Locations \cup {Outside}
      BY <2>1 DEF RowsInv, Shaped, IsRow, RowValues
    <3> QED BY <2>3, <3>1, <3>2 DEF TypeOK
  <2> QED BY <2>1, <2>4, <2>5 DEF ReceiptsAccounted
<1> QED BY <1>1, StockInvAlways, PTL

\* What is held of the stock is held for someone: no activity's reservation is
\* negative and together they are the reserved bucket, and no issue gives up
\* more than it carried out and together they are the custody.
THEOREM HoldingsStayOwned == Spec => []HoldingsAreOwned
<1>1. StockInv => HoldingsAreOwned
  <2> SUFFICES ASSUME StockInv PROVE HoldingsAreOwned
    OBVIOUS
  <2>1. RowsInv(ledger, Len(lots)) /\ DOMAIN lots = 1 .. Len(lots) /\ Issues = IssuesIn(ledger)
        /\ \A lot : LotRows(lot) = OfLot(ledger, lot)
    BY LotsIs
  <2>2. \A lot, loc, a : ReservedForActivity(LotRows(lot), loc, a) = Held(ledger, lot, loc, a)
    BY <2>1 DEF ReservedForActivity, Held
  <2>3. \A lot, loc, i : IssueCustody(LotRows(lot), loc, i) = Custody(ledger, lot, loc, i)
    BY <2>1 DEF IssueCustody, Custody
  <2>4. ReservationsHold
    BY <2>1, <2>2 DEF ReservationsHold, RowsInv, ReservedOwned
  <2>5. ASSUME NEW i \in Issues PROVE IssueCustody(LotRows(i.lot), i.at, i.issue) \in 0 .. i.qty
    <3>1. Custody(ledger, i.lot, i.at, i.issue) >= 0
          /\ Custody(ledger, i.lot, i.at, i.issue) + DrawnQty(ledger, i.issue) = Carried(ledger, i)
      BY <2>1 DEF RowsInv, CustodyBalanced
    <3>2. DrawnQty(ledger, i.issue) \in Nat
      BY <2>1, DrawnIsFinite DEF RowsInv
    <3>3. i.qty \in Nat /\ Shaped(ledger, Len(lots))
      BY <2>1 DEF RowsInv, Shaped, IsRow, RowValues, IssuesIn
    <3>4. Carried(ledger, i) \in 0 .. i.qty
      BY <3>3 DEF Carried
    <3>5. Custody(ledger, i.lot, i.at, i.issue) \in Int
      <4>1. IsFiniteSet({r \in OfLot(ledger, i.lot) : r.issue = i.issue})
            /\ \A r \in {z \in OfLot(ledger, i.lot) : z.issue = i.issue} : r.qty \in Nat
        BY <3>3, PartOfRows DEF OfLot
      <4> QED BY <4>1, BalanceIs DEF Custody
    <3>6. Custody(ledger, i.lot, i.at, i.issue) \in 0 .. i.qty
      BY <3>1, <3>2, <3>3, <3>4, <3>5
    <3> QED BY <2>3, <3>6
  <2>6. \A lot \in DOMAIN lots, loc \in Locations :
          SumFunction([i \in {j \in Issues : j.lot = lot} |-> IssueCustody(LotRows(lot), loc, i.issue)])
             = Balance(LotRows(lot), "issuedToActivity", loc)
    BY <2>1, <2>3 DEF RowsInv, CustodyOwned
  <2>7. CustodyHolds
    BY <2>5, <2>6 DEF CustodyHolds
  <2> QED BY <2>4, <2>7 DEF HoldingsAreOwned
<1> QED BY <1>1, StockInvAlways, PTL

------------------------------------------------------------------------------
(* Coverage: what an activity is covered for, as an issue's two rows go by. *)

IssuesFor(L, b) == {j \in IssuesIn(L) : j.act = b}
HeldBy(L, m, b) == [k \in (1 .. m) \X Locations |-> Held(L, k[1], k[2], b)]
CarriedBy(L, b) == [i \in IssuesFor(L, b) |-> Custody(L, i.lot, i.at, i.issue)]
HeldTotal(L, m, b) == SumFunction(HeldBy(L, m, b))
CarriedTotal(L, b) == SumFunction(CarriedBy(L, b))

LEMMA SupplyIs ==
    ASSUME NEW b
    PROVE  /\ DOMAIN lots = 1 .. Len(lots) => Supply(b) = HeldTotal(ledger, Len(lots), b) + CarriedTotal(ledger, b)
           /\ DOMAIN lots' = 1 .. Len(lots') => Supply(b)' = HeldTotal(ledger', Len(lots'), b) + CarriedTotal(ledger', b)
<1>1. /\ Issues = IssuesIn(ledger)
      /\ \A lot, loc : ReservedForActivity(LotRows(lot), loc, b) = Held(ledger, lot, loc, b)
      /\ \A lot, loc, i : IssueCustody(LotRows(lot), loc, i) = Custody(ledger, lot, loc, i)
  BY DEF Issues, IssuesIn, ReservedForActivity, IssueCustody, Held, Custody, LotRows, OfLot
<1>2. /\ Issues' = IssuesIn(ledger')
      /\ \A lot, loc : ReservedForActivity(LotRows(lot)', loc, b) = Held(ledger', lot, loc, b)
      /\ \A lot, loc, i : IssueCustody(LotRows(lot)', loc, i) = Custody(ledger', lot, loc, i)
  BY DEF Issues, IssuesIn, ReservedForActivity, IssueCustody, Held, Custody, LotRows, OfLot
<1>3. DOMAIN lots = 1 .. Len(lots) => Supply(b) = HeldTotal(ledger, Len(lots), b) + CarriedTotal(ledger, b)
  BY <1>1 DEF Supply, HeldTotal, HeldBy, CarriedTotal, CarriedBy, IssuesFor
<1>4. DOMAIN lots' = 1 .. Len(lots') => Supply(b)' = HeldTotal(ledger', Len(lots'), b) + CarriedTotal(ledger', b)
  BY <1>2 DEF Supply, HeldTotal, HeldBy, CarriedTotal, CarriedBy, IssuesFor
<1> QED BY <1>3, <1>4

LEMMA HeldIsInt ==
    ASSUME NEW L, NEW n, Shaped(L, n), NEW lot, NEW loc, NEW a
    PROVE  Held(L, lot, loc, a) \in Int /\ Custody(L, lot, loc, a) \in Int
<1>1. IsFiniteSet({r \in OfLot(L, lot) : r.act = a}) /\ \A r \in {z \in OfLot(L, lot) : z.act = a} : r.qty \in Nat
  BY PartOfRows DEF OfLot
<1>2. IsFiniteSet({r \in OfLot(L, lot) : r.issue = a}) /\ \A r \in {z \in OfLot(L, lot) : z.issue = a} : r.qty \in Nat
  BY PartOfRows DEF OfLot
<1> QED BY <1>1, <1>2, BalanceIs DEF Held, Custody

LEMMA TotalsAreInt ==
    ASSUME NEW L, NEW m \in Nat, Shaped(L, m), NEW b
    PROVE  /\ IsFiniteSet((1 .. m) \X Locations) /\ HeldBy(L, m, b) \in [(1 .. m) \X Locations -> Int]
           /\ IsFiniteSet(IssuesFor(L, b)) /\ CarriedBy(L, b) \in [IssuesFor(L, b) -> Int]
           /\ HeldTotal(L, m, b) \in Int /\ CarriedTotal(L, b) \in Int
<1>1. IsFiniteSet((1 .. m) \X Locations)
  <2>1. 1 \in Int /\ m \in Int
    OBVIOUS
  <2>2. IsFiniteSet(1 .. m)
    BY <2>1, FS_Interval
  <2> QED BY <2>2, FS_Product, StoreAssumption
<1>2. IsFiniteSet(IssuesFor(L, b))
  BY FS_Subset, IssuesFor(L, b) \subseteq L DEF IssuesFor, IssuesIn, Shaped
<1>3. HeldBy(L, m, b) \in [(1 .. m) \X Locations -> Int] /\ CarriedBy(L, b) \in [IssuesFor(L, b) -> Int]
  BY HeldIsInt DEF HeldBy, CarriedBy
<1>4. SumFunction(HeldBy(L, m, b)) \in Int /\ SumFunction(CarriedBy(L, b)) \in Int
  BY <1>1, <1>2, <1>3, SumInInt
<1> QED BY <1>1, <1>2, <1>3, <1>4 DEF HeldTotal, CarriedTotal

\* A release lowers the holdings of its activity by what it releases, and no custody.
Lowers(L, m, b, y) ==
    /\ y.act = b => HeldTotal(L \cup {y}, m, b) = HeldTotal(L, m, b) - y.qty
    /\ y.act # b => HeldTotal(L \cup {y}, m, b) = HeldTotal(L, m, b)
    /\ CarriedTotal(L \cup {y}, b) = CarriedTotal(L, b)

LEMMA ReleaseSupply ==
    ASSUME NEW L, NEW m \in Nat, RowsInv(L, m), NEW b,
           NEW y, y \notin L, RowsInv(L \cup {y}, m), y.type = "reservation_release", y.issue = 0,
           y.lot \in 1 .. m, y.at \in Locations, y.to = Outside, y.qty \in Nat,
           Effect(y, "reserved", y.at) = 0 - y.qty
    PROVE  Lowers(L, m, b, y)
<1> DEFINE M == L \cup {y}
           K == (1 .. m) \X Locations
           f == HeldBy(L, m, b)
           g == HeldBy(M, m, b)
           z == <<y.lot, y.at>>
           d == IF y.act = b THEN 0 - y.qty ELSE 0
<1>1. Shaped(L, m) /\ Shaped(M, m)
  BY DEF RowsInv
<1>2. IsFiniteSet(K) /\ f \in [K -> Int] /\ g \in [K -> Int]
  BY <1>1, TotalsAreInt
<1>3. z \in K
  OBVIOUS
<1>4. ASSUME NEW k \in K PROVE k[1] \in 1 .. m /\ k[2] \in Locations /\ (k # z => k[1] # y.lot \/ k[2] # y.at)
  OBVIOUS
<1>5. ASSUME NEW k \in K \ {z} PROVE f[k] = g[k]
  <2>1. Held(M, k[1], k[2], b) = Held(L, k[1], k[2], b) + (IF y.lot = k[1] /\ y.act = b THEN Effect(y, "reserved", k[2]) ELSE 0)
        /\ Held(L, k[1], k[2], b) \in Int
    BY <1>1, HeldMore
  <2>2. k[2] # y.at => Effect(y, "reserved", k[2]) = 0
    BY EffectIs
  <2>3. k[1] # y.lot \/ k[2] # y.at
    BY <1>4
  <2>4. Held(M, k[1], k[2], b) = Held(L, k[1], k[2], b)
    BY <2>1, <2>2, <2>3
  <2> QED BY <2>4 DEF HeldBy
<1>6. g[z] = f[z] + d
  <2>1. Held(M, y.lot, y.at, b) = Held(L, y.lot, y.at, b) + (IF y.lot = y.lot /\ y.act = b THEN Effect(y, "reserved", y.at) ELSE 0)
        /\ Held(L, y.lot, y.at, b) \in Int
    BY <1>1, HeldMore
  <2>2. g[z] = Held(M, y.lot, y.at, b) /\ f[z] = Held(L, y.lot, y.at, b)
    BY <1>3 DEF HeldBy
  <2> QED BY <2>1, <2>2
<1>7. HeldTotal(L, m, b) = SumFunction(f) /\ HeldTotal(M, m, b) = SumFunction(g)
  BY DEF HeldTotal
<1>8. d \in Int /\ (y.act = b => d = 0 - y.qty) /\ (y.act # b => d = 0)
  OBVIOUS
<1> HIDE DEF K, f, g, z, d
<1>9. SumFunction(f) \in Int /\ SumFunction(g) \in Int /\ SumFunction(g) + At(f, K, z) = SumFunction(f) + At(g, K, z)
  BY <1>2, <1>5, OneDiffers
<1>10. f[z] \in Int /\ g[z] \in Int /\ At(f, K, z) = f[z] /\ At(g, K, z) = g[z]
  BY <1>2, <1>3 DEF At
<1>11. SumFunction(g) + f[z] = SumFunction(f) + g[z]
  BY <1>9, <1>10
<1>12. SumFunction(g) = SumFunction(f) + d
  <2>1. SumFunction(g) = SumFunction(f) + (g[z] - f[z])
    BY <1>9, <1>10, <1>11
  <2>2. d = g[z] - f[z]
    BY <1>6, <1>8, <1>10
  <2> QED BY <2>1, <2>2
<1>13. CarriedTotal(M, b) = CarriedTotal(L, b)
  <2>1. IssuesIn(M) = IssuesIn(L)
    BY DEF IssuesIn
  <2>2. ASSUME NEW i \in IssuesIn(L) PROVE Custody(M, i.lot, i.at, i.issue) = Custody(L, i.lot, i.at, i.issue)
    <3>1. i.issue # 0
      BY DEF RowsInv, IssuesNumbered
    <3>2. Custody(L, i.lot, i.at, i.issue) \in Int
      BY <1>1, HeldIsInt
    <3>3. Custody(M, i.lot, i.at, i.issue) = Custody(L, i.lot, i.at, i.issue)
                 + (IF y.lot = i.lot /\ y.issue = i.issue THEN Effect(y, "issuedToActivity", i.at) ELSE 0)
      BY <1>1, CustodyMore
    <3> QED BY <3>1, <3>2, <3>3
  <2> QED BY <2>1, <2>2 DEF CarriedTotal, CarriedBy, IssuesFor
<1>14. /\ y.act = b => HeldTotal(M, m, b) = HeldTotal(L, m, b) - y.qty
       /\ y.act # b => HeldTotal(M, m, b) = HeldTotal(L, m, b)
  <2>1. CASE y.act = b
    BY <1>7, <1>8, <1>9, <1>12, <2>1
  <2>2. CASE y.act # b
    BY <1>7, <1>8, <1>9, <1>12, <2>2
  <2> QED BY <2>1, <2>2
<1> QED BY <1>13, <1>14 DEF Lowers

\* The issue's own row adds what it carries out to the custody of its activity, and touches no holding.
Raises(L, m, b, x) ==
    /\ HeldTotal(L \cup {x}, m, b) = HeldTotal(L, m, b)
    /\ x.act = b => CarriedTotal(L \cup {x}, b) = CarriedTotal(L, b) + x.qty
    /\ x.act # b => CarriedTotal(L \cup {x}, b) = CarriedTotal(L, b)

LEMMA IssueSupply ==
    ASSUME NEW L, NEW m \in Nat, RowsInv(L, m), NEW b,
           NEW x, x \notin L, RowsInv(L \cup {x}, m), x.type = "issue", x.qty \in Nat,
           x.from = "acceptedOnHand", x.into = "issuedToActivity", \A r \in L : r.issue # x.issue,
           Custody(L \cup {x}, x.lot, x.at, x.issue) = x.qty
    PROVE  Raises(L, m, b, x)
<1> DEFINE M == L \cup {x}
           S == IssuesFor(L, b)
           T == IssuesFor(M, b)
           f == CarriedBy(L, b)
           g == CarriedBy(M, b)
<1>1. Shaped(L, m) /\ Shaped(M, m)
  BY DEF RowsInv
<1>2. IsFiniteSet(S) /\ f \in [S -> Int] /\ IsFiniteSet(T) /\ g \in [T -> Int]
  BY <1>1, TotalsAreInt
<1>3. HeldTotal(M, m, b) = HeldTotal(L, m, b)
  <2>1. ASSUME NEW lot, NEW loc PROVE Held(M, lot, loc, b) = Held(L, lot, loc, b)
    <3>1. Effect(x, "reserved", loc) = 0
      BY EffectIs
    <3>2. Held(M, lot, loc, b) = Held(L, lot, loc, b) + (IF x.lot = lot /\ x.act = b THEN Effect(x, "reserved", loc) ELSE 0)
          /\ Held(L, lot, loc, b) \in Int
      BY <1>1, HeldMore
    <3> QED BY <3>1, <3>2
  <2> HIDE DEF M
  <2> QED BY <2>1 DEF HeldTotal, HeldBy
<1>4. S \ {x} = T \ {x} /\ x \notin S /\ (x \in T <=> x.act = b)
  BY DEF IssuesIn, IssuesFor
<1>5. ASSUME NEW i \in S \ {x} PROVE f[i] = g[i]
  <2>1. i \in L /\ i \in T /\ i \in S
    BY <1>4 DEF IssuesIn, IssuesFor
  <2>2. Custody(L, i.lot, i.at, i.issue) \in Int
        /\ Custody(M, i.lot, i.at, i.issue) = Custody(L, i.lot, i.at, i.issue)
               + (IF x.lot = i.lot /\ x.issue = i.issue THEN Effect(x, "issuedToActivity", i.at) ELSE 0)
    BY <1>1, CustodyMore
  <2>3. Custody(M, i.lot, i.at, i.issue) = Custody(L, i.lot, i.at, i.issue)
    BY <2>1, <2>2
  <2> QED BY <2>1, <2>3 DEF CarriedBy
<1>6. At(f, S, x) = 0 /\ At(g, T, x) = IF x.act = b THEN x.qty ELSE 0
  <2>1. x \in T => g[x] = x.qty
    BY DEF CarriedBy
  <2> QED BY <1>4, <2>1 DEF At
<1>7. CarriedTotal(L, b) = SumFunction(f) /\ CarriedTotal(M, b) = SumFunction(g)
  BY DEF CarriedTotal
<1> HIDE DEF S, T, f, g
<1>8. SumFunction(f) \in Int /\ SumFunction(g) \in Int /\ SumFunction(g) + At(f, S, x) = SumFunction(f) + At(g, T, x)
  BY <1>2, <1>4, <1>5, OneDiffers
<1>9. x.act = b => CarriedTotal(M, b) = CarriedTotal(L, b) + x.qty
  BY <1>6, <1>7, <1>8
<1>10. x.act # b => CarriedTotal(M, b) = CarriedTotal(L, b)
  BY <1>6, <1>7, <1>8
<1> QED BY <1>3, <1>9, <1>10 DEF Raises

\* An issue leaves every activity covered for what it was.
LEMMA IssueCovers ==
    ASSUME StockInv, NEW lot \in 1 .. Len(lots), NEW qty \in MoveQtys, NEW loc \in Locations, NEW a \in Activities,
           Issue(lot, qty, loc, a), NEW b \in Activities
    PROVE  Supply(b)' >= Supply(b)
<1> DEFINE m == Len(lots)
<1>0. RowsInv(ledger, m) /\ m \in Nat /\ DOMAIN lots = 1 .. m
  BY LotsIs
<1>1. PICK M, x : IssuedBy(M, x, lot, qty, loc, a)
  BY IssueIs
<1>2. lots' = lots /\ ledger' = M \cup {x}
  BY <1>1 DEF Issue, IssuedBy
<1>3. Supply(b) = HeldTotal(ledger, m, b) + CarriedTotal(ledger, b)
  BY <1>0, SupplyIs
<1>4. Supply(b)' = HeldTotal(M \cup {x}, m, b) + CarriedTotal(M \cup {x}, b)
  <2>1. DOMAIN lots' = 1 .. Len(lots')
    BY <1>0, <1>2
  <2>2. Supply(b)' = HeldTotal(ledger', Len(lots'), b) + CarriedTotal(ledger', b)
    BY <2>1, SupplyIs
  <2> QED BY <1>2, <2>2
<1> HIDE DEF m
<1>5. RowsInv(M, m) /\ RowsInv(M \cup {x}, m) /\ qty \in Nat
  BY <1>1, StoreAssumption DEF IssuedBy, m
<1>6. /\ HeldTotal(M \cup {x}, m, b) = HeldTotal(M, m, b)
      /\ a = b => CarriedTotal(M \cup {x}, b) = CarriedTotal(M, b) + qty
      /\ a # b => CarriedTotal(M \cup {x}, b) = CarriedTotal(M, b)
  <2>1. /\ x \notin M /\ x.type = "issue" /\ x.act = a /\ x.qty = qty /\ x.lot = lot /\ x.at = loc
        /\ x.from = "acceptedOnHand" /\ x.into = "issuedToActivity" /\ \A r \in M : r.issue # x.issue
        /\ Custody(M \cup {x}, lot, loc, x.issue) = qty
    BY <1>1 DEF IssuedBy
  <2>2. Custody(M \cup {x}, x.lot, x.at, x.issue) = x.qty /\ x.qty \in Nat
    BY <1>5, <2>1
  <2>3. Raises(M, m, b, x)
    BY <1>0, <1>5, <2>1, <2>2, IssueSupply
  <2> QED BY <2>1, <2>3 DEF Raises
<1>7. HeldTotal(ledger, m, b) \in Int /\ CarriedTotal(ledger, b) \in Int
      /\ HeldTotal(M, m, b) \in Int /\ CarriedTotal(M, b) \in Int
  BY <1>0, <1>5, TotalsAreInt DEF RowsInv
<1>8. Released(ledger, M, lot, qty, loc, a)
  BY <1>1 DEF IssuedBy
<1>9. CASE M = ledger
  BY <1>3, <1>4, <1>5, <1>6, <1>7, <1>9
<1>10. CASE M # ledger
  <2>1. PICK y : /\ M = ledger \cup {y} /\ y \notin ledger /\ y.type = "reservation_release" /\ y.issue = 0
                 /\ y.lot = lot /\ y.at = loc /\ y.to = Outside /\ y.act = a /\ y.qty \in Nat /\ y.qty <= qty
                 /\ Effect(y, "reserved", loc) = 0 - y.qty
    BY <1>8, <1>10 DEF Released
  <2>2. /\ y.act = b => HeldTotal(M, m, b) = HeldTotal(ledger, m, b) - y.qty
        /\ y.act # b => HeldTotal(M, m, b) = HeldTotal(ledger, m, b)
        /\ CarriedTotal(M, b) = CarriedTotal(ledger, b)
    <3>1. RowsInv(ledger \cup {y}, m) /\ y.lot \in 1 .. m /\ y.at \in Locations /\ Effect(y, "reserved", y.at) = 0 - y.qty
      BY <1>5, <2>1 DEF m
    <3>2. Lowers(ledger, m, b, y)
      BY <1>0, <2>1, <3>1, ReleaseSupply
    <3> QED BY <2>1, <3>2 DEF Lowers
  <2>3. y.act = a /\ y.qty \in Nat /\ y.qty <= qty
    BY <2>1
  <2> QED BY <1>3, <1>4, <1>5, <1>6, <1>7, <2>2, <2>3
<1> QED BY <1>9, <1>10

\* A row but the issue's own is no issue, whatever it is completed with.
LEMMA OtherRows ==
    ASSUME NEW lot, NEW type, type # "issue", NEW qty, NEW from, NEW into, NEW at, NEW to, NEW a, NEW i, NEW row,
           LET move == Move(lot, type, qty, from, into, at)
           IN \/ row = move \/ row = [move EXCEPT !.to = to]
              \/ row = [move EXCEPT !.act = a] \/ row = [move EXCEPT !.act = a, !.issue = i],
           AppendRow(row)
    PROVE  ~IssueStep
<1> DEFINE move == Move(lot, type, qty, from, into, at)
           x == NumberedIn(ledger, row)
<1>1. "type" \in DOMAIN move /\ move.type = type
  BY DEF Move
<1>2. \/ row = move \/ row = [move EXCEPT !.to = to]
      \/ row = [move EXCEPT !.act = a] \/ row = [move EXCEPT !.act = a, !.issue = i]
  OBVIOUS
<1> HIDE DEF move
<1>3. "type" \in DOMAIN row /\ row.type = type
  BY <1>1, <1>2
<1>4. x.type = type
  BY <1>3 DEF NumberedIn
<1>5. ledger' = ledger \cup {x}
  BY AppendIs
<1> QED BY <1>4, <1>5 DEF IssueStep

LEMMA OnlyAnIssue ==
    ASSUME StockInv, [Next]_vars, IssueStep
    PROVE  \E lot \in 1 .. Len(lots), qty \in MoveQtys, loc \in Locations, a \in Activities : Issue(lot, qty, loc, a)
<1>0. DOMAIN lots = 1 .. Len(lots) /\ RowsInv(ledger, Len(lots))
  BY LotsIs
<1>1. ASSUME ledger' = ledger PROVE FALSE
  BY <1>1 DEF IssueStep
<1>2. ASSUME NEW lot, NEW qty, NEW from, NEW into, NEW loc, Adjust(lot, qty, from, into, loc) PROVE FALSE
  BY <1>2, OtherRows DEF Adjust
<1>3. ASSUME NEW o, NEW qty, NEW loc, RecordReceipt(o, qty, loc) PROVE FALSE
  <2> DEFINE row == Move(Len(lots) + 1, "receipt", qty, Outside, "quarantine", loc)
             x == NumberedIn(ledger, row)
  <2>1. ledger' = ledger \cup {x}
    BY <1>3 DEF RecordReceipt, Numbered, NumberedIn, Copies, CopiesIn, Alike
  <2>2. x.type = "receipt"
    BY DEF NumberedIn, Move
  <2> QED BY <2>1, <2>2 DEF IssueStep
<1>4. ASSUME NEW lot, NEW qty, NEW loc,
             \/ Accept(lot, qty, loc) \/ RejectStock(lot, qty, loc) \/ VendorReturn(lot, qty, loc)
             \/ \E to : Transfer(lot, qty, loc, to)
             \/ \E a : Reserve(lot, qty, loc, a) \/ Release(lot, qty, loc, a)
      PROVE  FALSE
  <2>1. ASSUME Accept(lot, qty, loc) PROVE FALSE
    BY <2>1, OtherRows DEF Accept
  <2>2. ASSUME RejectStock(lot, qty, loc) PROVE FALSE
    BY <2>2, OtherRows DEF RejectStock
  <2>3. ASSUME VendorReturn(lot, qty, loc) PROVE FALSE
    BY <2>3, OtherRows DEF VendorReturn
  <2>4. ASSUME NEW to, Transfer(lot, qty, loc, to) PROVE FALSE
    BY <2>4, OtherRows DEF Transfer
  <2>5. ASSUME NEW a, Reserve(lot, qty, loc, a) PROVE FALSE
    BY <2>5, OtherRows DEF Reserve
  <2>6. ASSUME NEW a, Release(lot, qty, loc, a) PROVE FALSE
    BY <2>6, OtherRows DEF Release, ReleaseRow
  <2> QED BY <1>4, <2>1, <2>2, <2>3, <2>4, <2>5, <2>6
<1>5. ASSUME NEW d \in ledger, Reverse(d) PROVE FALSE
  <2>1. ledger' = ledger \cup {NumberedIn(ledger, ExactInverse(d))}
    BY <1>5, AppendIs DEF Reverse
  <2>2. IsRow(d)
    BY <1>0 DEF RowsInv, Shaped
  <2>3. NumberedIn(ledger, ExactInverse(d)).type = "reversal"
    BY <2>2 DEF NumberedIn, ExactInverse, IsRow, RowShape
  <2> QED BY <2>1, <2>3 DEF IssueStep
<1>6. ASSUME NEW issue, NEW qty, NEW type, NEW into, type # "issue", AgainstIssue(issue, type, qty, into) PROVE FALSE
  BY <1>6, OtherRows DEF AgainstIssue
<1>7. ASSUME NEW issue, NEW qty, Consume(issue, qty) \/ SiteReturn(issue, qty) \/ Wastage(issue, qty) PROVE FALSE
  BY <1>6, <1>7 DEF Consume, SiteReturn, Wastage
<1>8. CASE UNCHANGED vars
  BY <1>1, <1>8 DEF vars
<1>9. CASE OrdersNext /\ UNCHANGED <<lots, ledger>>
  BY <1>1, <1>9
<1>10. CASE Correction
  BY <1>2, <1>10 DEF Correction
<1>11. CASE StoreNext
  <2>1. \E lot \in DOMAIN lots, qty \in MoveQtys, loc \in Locations, a \in Activities : Issue(lot, qty, loc, a)
    BY <1>3, <1>4, <1>5, <1>7, <1>11 DEF StoreNext
  <2> QED BY <1>0, <2>1
<1> QED BY <1>8, <1>9, <1>10, <1>11 DEF Next

\* Stock issued to an activity out of its own reservation or the free pool
\* never lowers what it, or any other activity, is covered for: what the issue
\* takes out of the reservation it carries out for the same activity.
THEOREM IssuesKeepCoverage == Spec => IssueKeepsCoverage
<1>1. StockInv /\ [Next]_vars => (IssueStep => \A b \in Activities : Supply(b)' >= Supply(b))
  <2> SUFFICES ASSUME StockInv, [Next]_vars, IssueStep, NEW b \in Activities PROVE Supply(b)' >= Supply(b)
    OBVIOUS
  <2>1. PICK lot \in 1 .. Len(lots), qty \in MoveQtys, loc \in Locations, a \in Activities : Issue(lot, qty, loc, a)
    BY OnlyAnIssue
  <2> QED BY <2>1, IssueCovers
<1>2. StockInv /\ [Next]_vars => [IssueStep => \A a \in Activities : Supply(a)' >= Supply(a)]_vars
  BY <1>1
<1> QED BY <1>2, StockInvAlways, PTL DEF Spec, IssueKeepsCoverage
=============================================================================

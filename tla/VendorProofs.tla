---------------------------- MODULE VendorProofs ----------------------------
(* The commercial chain, for any number of bills, lines, evidence rows,    *)
(* people and ledger rows: money that is out rests on a certificate that   *)
(* stands, what was withheld comes back only by a release, and live claims *)
(* and frozen evidence stay within what was accepted or measured.          *)
(* Every property is about sums over the ledgers, so the folds are stated  *)
(* of any ledger first, and a command is what it does to each of them.     *)
EXTENDS VendorBills, SumTheorems, SequenceTheorems

------------------------------------------------------------------------------
(* The inductive invariant.                                                 *)

\* The rows of the ledgers refer to each other, and nothing is given back twice.
HeldLinked(cs, hs) == \A h \in DOMAIN hs : hs[h].cert \in DOMAIN cs /\ hs[h].released <= hs[h].amount
ApprovalsLinked(cs, aps) == \A a \in DOMAIN aps : aps[a].cert \in DOMAIN cs
PaymentsLinked(aps, ps) == \A p \in DOMAIN ps : ps[p].approval \in DOMAIN aps /\ ps[p].back <= ps[p].amount

\* A bill has at most one certificate that stands.
OneStands(cs) == \A j, k \in DOMAIN cs : cs[j].live /\ cs[k].live /\ cs[j].bill = cs[k].bill => j = k

\* The order of the versions holds every bill that was recorded, once.
VersionsOrdered == \A b \in Bills : bills[b].status # "none" <=> b \in ToSet(recent)

LedgersLinked ==
    /\ HeldLinked(certs, held) /\ ApprovalsLinked(certs, approvals) /\ PaymentsLinked(approvals, payments)
    /\ OneStands(certs)

VendorInv ==
    /\ TypeOK /\ LedgersLinked /\ VersionsOrdered
    /\ CashIsCovered /\ RecoveryWithinAdvance /\ StatusIsDerived
    /\ ClaimsWithinEvidence /\ FrozenEvidenceStands

------------------------------------------------------------------------------
(* Sequences, minima and maxima.                                            *)

LEMMA Appended ==
    ASSUME NEW X, NEW s \in Seq(X), NEW x \in X
    PROVE  /\ IsFiniteSet(DOMAIN s) /\ DOMAIN s = 1 .. Len(s) /\ Len(s) \in Nat
           /\ DOMAIN Append(s, x) = DOMAIN s \cup {Len(s) + 1} /\ Len(s) + 1 \notin DOMAIN s
           /\ \A i \in DOMAIN s : Append(s, x)[i] = s[i] /\ s[i] \in X
           /\ Append(s, x)[Len(s) + 1] = x /\ Append(s, x) \in Seq(X)
<1>1. DOMAIN s = 1 .. Len(s) /\ Len(s) \in Nat
  OBVIOUS
<1>2. IsFiniteSet(DOMAIN s)
  BY <1>1, FS_Interval
<1>3. DOMAIN Append(s, x) = DOMAIN s \cup {Len(s) + 1} /\ Len(s) + 1 \notin DOMAIN s
  BY <1>1
<1> QED BY <1>1, <1>2, <1>3

LEMMA SeqFinite ==
    ASSUME NEW X, NEW s \in Seq(X)
    PROVE  IsFiniteSet(DOMAIN s) /\ DOMAIN s = 1 .. Len(s) /\ Len(s) \in Nat /\ \A i \in DOMAIN s : s[i] \in X
<1>1. DOMAIN s = 1 .. Len(s) /\ Len(s) \in Nat
  OBVIOUS
<1> QED BY <1>1, FS_Interval

LEMMA MaxIsGreatest ==
    ASSUME NEW S, S \subseteq Int, NEW m \in S, \A x \in S : m >= x
    PROVE  Max(S) = m
<1>1. Max(S) \in S /\ \A x \in S : Max(S) >= x
  BY DEF Max
<1>2. Max(S) \in Int /\ m \in Int /\ Max(S) >= m /\ m >= Max(S)
  BY <1>1
<1> QED BY <1>2

LEMMA AtLeastZero ==
    ASSUME NEW x \in Int
    PROVE  Max({0, x}) \in Nat /\ (x >= 0 => Max({0, x}) = x) /\ (x <= 0 => Max({0, x}) = 0)
<1>1. CASE x >= 0
  BY <1>1, MaxIsGreatest
<1>2. CASE ~(x >= 0)
  BY <1>2, MaxIsGreatest
<1> QED BY <1>1, <1>2

LEMMA LesserOf ==
    ASSUME NEW x \in Nat, NEW y \in Nat
    PROVE  Min({x, y}) \in Nat /\ Min({x, y}) <= x
<1> DEFINE M == {x, y}
<1>1. \E m \in M : \A z \in M : m =< z
  OBVIOUS
<1>2. Min(M) \in M /\ \A z \in M : Min(M) =< z
  <2> HIDE DEF M
  <2> QED BY <1>1 DEF Min
<1> QED BY <1>2

------------------------------------------------------------------------------
(* The folds, of any ledgers.                                               *)

Approvals == [cert: Nat, amount: Nat, by: People, excusedBy: Signers]
Payments == [approval: Nat, amount: Nat, back: Nat]

HeldSound(hs) == hs \in Seq(Withholdings) /\ \A h \in DOMAIN hs : hs[h].released <= hs[h].amount
PaidSound(ps) == ps \in Seq(Payments) /\ \A p \in DOMAIN ps : ps[p].back <= ps[p].amount

Left(hs) == [h \in DOMAIN hs |-> hs[h].amount - hs[h].released]
CertOf(xs) == [x \in DOMAIN xs |-> xs[x].cert]
KindOf(hs) == [h \in DOMAIN hs |-> <<hs[h].cert, hs[h].kind>>]
AmountOf(aps) == [a \in DOMAIN aps |-> aps[a].amount]
ApprovalOf(ps) == [p \in DOMAIN ps |-> ps[p].approval]
Out(ps) == [p \in DOMAIN ps |-> ps[p].amount - ps[p].back]

Outs(hs, K) == PartSum(CertOf(hs), Left(hs), K)
Recs(hs, K) == PartSum(KindOf(hs), Left(hs), K \X {"advance-recovery"})
Apps(aps, K) == PartSum(CertOf(aps), AmountOf(aps), K)
Pays(ps, A) == PartSum(ApprovalOf(ps), Out(ps), A)

LEMMA HeldLedger ==
    ASSUME NEW hs, HeldSound(hs)
    PROVE  IsLedger(CertOf(hs), Left(hs)) /\ IsLedger(KindOf(hs), Left(hs))
<1>1. IsFiniteSet(DOMAIN hs) /\ \A h \in DOMAIN hs : hs[h] \in Withholdings /\ hs[h].released <= hs[h].amount
  BY SeqFinite DEF HeldSound
<1>2. \A h \in DOMAIN hs : hs[h].amount - hs[h].released \in Nat
  BY <1>1 DEF Withholdings
<1> QED BY <1>1, <1>2 DEF IsLedger, CertOf, KindOf, Left

LEMMA ApprovalLedger ==
    ASSUME NEW aps, aps \in Seq(Approvals)
    PROVE  IsLedger(CertOf(aps), AmountOf(aps))
<1>1. IsFiniteSet(DOMAIN aps) /\ \A a \in DOMAIN aps : aps[a] \in Approvals
  BY SeqFinite
<1> QED BY <1>1 DEF IsLedger, CertOf, AmountOf, Approvals

LEMMA PaymentLedger ==
    ASSUME NEW ps, PaidSound(ps)
    PROVE  IsLedger(ApprovalOf(ps), Out(ps))
<1>1. IsFiniteSet(DOMAIN ps) /\ \A p \in DOMAIN ps : ps[p] \in Payments /\ ps[p].back <= ps[p].amount
  BY SeqFinite DEF PaidSound
<1>2. \A p \in DOMAIN ps : ps[p].amount - ps[p].back \in Nat
  BY <1>1 DEF Payments
<1> QED BY <1>1, <1>2 DEF IsLedger, ApprovalOf, Out

\* A withholding more.
LEMMA OutsAppend ==
    ASSUME NEW hs, HeldSound(hs), NEW w \in Withholdings, w.released <= w.amount, NEW K
    PROVE  /\ HeldSound(Append(hs, w)) /\ Outs(hs, K) \in Nat
           /\ w.cert \in K => Outs(Append(hs, w), K) = Outs(hs, K) + (w.amount - w.released)
           /\ w.cert \notin K => Outs(Append(hs, w), K) = Outs(hs, K)
<1> DEFINE n == Len(hs) + 1
           hs2 == Append(hs, w)
<1>1. /\ DOMAIN hs2 = DOMAIN hs \cup {n} /\ n \notin DOMAIN hs /\ hs2[n] = w /\ hs2 \in Seq(Withholdings)
      /\ \A i \in DOMAIN hs : hs2[i] = hs[i]
  BY Appended DEF HeldSound
<1>2. HeldSound(hs2)
  BY <1>1 DEF HeldSound
<1> HIDE DEF n, hs2
<1>3. IsLedger(CertOf(hs), Left(hs)) /\ IsLedger(CertOf(hs2), Left(hs2))
  BY <1>2, HeldLedger
<1>4. AlikeBut(CertOf(hs), Left(hs), K, CertOf(hs2), Left(hs2), K, n)
  BY <1>1 DEF AlikeBut, RowsWith, CertOf, Left
<1>5. n \notin RowsWith(CertOf(hs), K) /\ (n \in RowsWith(CertOf(hs2), K) <=> w.cert \in K)
      /\ Left(hs2)[n] = w.amount - w.released
  BY <1>1 DEF RowsWith, CertOf, Left
<1>6. Outs(hs, K) \in Nat /\ (w.cert \in K => Outs(hs2, K) = Outs(hs, K) + Left(hs2)[n])
      /\ (w.cert \notin K => Outs(hs2, K) = Outs(hs, K))
  BY <1>3, <1>4, <1>5, PartMoves DEF Outs
<1> QED BY <1>2, <1>5, <1>6 DEF hs2

LEMMA RecsAppend ==
    ASSUME NEW hs, HeldSound(hs), NEW w \in Withholdings, w.released <= w.amount, NEW K
    PROVE  /\ Recs(hs, K) \in Nat
           /\ w.cert \in K /\ w.kind = "advance-recovery" => Recs(Append(hs, w), K) = Recs(hs, K) + (w.amount - w.released)
           /\ w.cert \notin K \/ w.kind # "advance-recovery" => Recs(Append(hs, w), K) = Recs(hs, K)
<1> DEFINE n == Len(hs) + 1
           hs2 == Append(hs, w)
           Q == K \X {"advance-recovery"}
<1>1. /\ DOMAIN hs2 = DOMAIN hs \cup {n} /\ n \notin DOMAIN hs /\ hs2[n] = w
      /\ \A i \in DOMAIN hs : hs2[i] = hs[i]
  BY Appended DEF HeldSound
<1>2. HeldSound(hs2)
  BY OutsAppend
<1>q. <<w.cert, w.kind>> \in Q <=> w.cert \in K /\ w.kind = "advance-recovery"
  OBVIOUS
<1> HIDE DEF n, hs2, Q
<1>3. IsLedger(KindOf(hs), Left(hs)) /\ IsLedger(KindOf(hs2), Left(hs2))
  BY <1>2, HeldLedger
<1>4. AlikeBut(KindOf(hs), Left(hs), Q, KindOf(hs2), Left(hs2), Q, n)
  BY <1>1 DEF AlikeBut, RowsWith, KindOf, Left
<1>5. n \notin RowsWith(KindOf(hs), Q) /\ (n \in RowsWith(KindOf(hs2), Q) <=> <<w.cert, w.kind>> \in Q)
      /\ Left(hs2)[n] = w.amount - w.released
  BY <1>1 DEF RowsWith, KindOf, Left
<1>6. Recs(hs, K) = PartSum(KindOf(hs), Left(hs), Q) /\ Recs(hs2, K) = PartSum(KindOf(hs2), Left(hs2), Q)
  BY DEF Recs, Q
<1>7. Recs(hs, K) \in Nat /\ (<<w.cert, w.kind>> \in Q => Recs(hs2, K) = Recs(hs, K) + Left(hs2)[n])
      /\ (<<w.cert, w.kind>> \notin Q => Recs(hs2, K) = Recs(hs, K))
  BY <1>3, <1>4, <1>5, <1>6, PartMoves
<1> QED BY <1>5, <1>7, <1>q DEF hs2

\* Some of a withholding given back.
Given(hs, h, a) == [hs EXCEPT ![h].released = @ + a]

LEMMA GivenRow ==
    ASSUME NEW w \in Withholdings, NEW a \in Nat
    PROVE  /\ w.released \in Nat /\ w.amount \in Nat
           /\ [w EXCEPT !.released = w.released + a] \in Withholdings
           /\ [w EXCEPT !.released = w.released + a].released = w.released + a
           /\ [w EXCEPT !.released = w.released + a].amount = w.amount
           /\ [w EXCEPT !.released = w.released + a].cert = w.cert
           /\ [w EXCEPT !.released = w.released + a].kind = w.kind
  BY DEF Withholdings

LEMMA GivenIs ==
    ASSUME NEW hs, HeldSound(hs), NEW h \in DOMAIN hs, NEW a \in Nat, a <= hs[h].amount - hs[h].released
    PROVE  /\ HeldSound(Given(hs, h, a)) /\ DOMAIN Given(hs, h, a) = DOMAIN hs
           /\ CertOf(Given(hs, h, a)) = CertOf(hs) /\ KindOf(Given(hs, h, a)) = KindOf(hs)
           /\ \A i \in DOMAIN hs \ {h} : Given(hs, h, a)[i] = hs[i]
           /\ Given(hs, h, a)[h].released = hs[h].released + a /\ Given(hs, h, a)[h].amount = hs[h].amount
           /\ Left(hs)[h] \in Nat /\ Left(Given(hs, h, a))[h] \in Nat /\ Left(Given(hs, h, a))[h] + a = Left(hs)[h]
<1> DEFINE hs2 == Given(hs, h, a)
<1>1. hs[h] \in Withholdings /\ hs \in Seq(Withholdings)
  BY SeqFinite DEF HeldSound
<1>2. hs[h].released \in Nat /\ hs[h].amount \in Nat /\ hs[h].released <= hs[h].amount
  BY <1>1 DEF Withholdings, HeldSound
<1>3. DOMAIN hs2 = DOMAIN hs /\ hs2[h] = [hs[h] EXCEPT !.released = hs[h].released + a] /\ \A i \in DOMAIN hs \ {h} : hs2[i] = hs[i]
  BY DEF Given
<1>4. /\ hs2[h].released = hs[h].released + a /\ hs2[h].amount = hs[h].amount
      /\ hs2[h].cert = hs[h].cert /\ hs2[h].kind = hs[h].kind
  BY <1>1, <1>3, GivenRow
<1>5. hs2[h] \in Withholdings
  BY <1>1, <1>3, GivenRow
<1>6. hs2 \in Seq(Withholdings)
  BY <1>1, <1>5 DEF Given
<1>7. HeldSound(hs2)
  <2>1. hs2[h].released <= hs2[h].amount
    BY <1>2, <1>4
  <2>2. \A i \in DOMAIN hs : hs2[i].released <= hs2[i].amount
    BY <1>3, <2>1 DEF HeldSound
  <2> HIDE DEF hs2
  <2> QED BY <1>3, <1>6, <2>2 DEF HeldSound
<1> HIDE DEF hs2
<1>8. CertOf(hs2) = CertOf(hs)
  BY <1>3, <1>4 DEF CertOf
<1>9. KindOf(hs2) = KindOf(hs)
  BY <1>3, <1>4 DEF KindOf
<1>10. Left(hs2)[h] = hs[h].amount - (hs[h].released + a) /\ Left(hs)[h] = hs[h].amount - hs[h].released
  BY <1>3, <1>4 DEF Left
<1> QED BY <1>2, <1>3, <1>4, <1>7, <1>8, <1>9, <1>10 DEF hs2

LEMMA OutsGive ==
    ASSUME NEW hs, HeldSound(hs), NEW h \in DOMAIN hs, NEW a \in Nat, a <= hs[h].amount - hs[h].released, NEW K
    PROVE  /\ Outs(hs, K) \in Nat /\ Outs(Given(hs, h, a), K) \in Nat
           /\ hs[h].cert \in K => Outs(Given(hs, h, a), K) + a = Outs(hs, K)
           /\ hs[h].cert \notin K => Outs(Given(hs, h, a), K) = Outs(hs, K)
<1> DEFINE hs2 == Given(hs, h, a)
<1>1. /\ HeldSound(hs2) /\ CertOf(hs2) = CertOf(hs) /\ DOMAIN hs2 = DOMAIN hs
      /\ \A i \in DOMAIN hs \ {h} : hs2[i] = hs[i]
      /\ Left(hs)[h] \in Nat /\ Left(hs2)[h] \in Nat /\ Left(hs2)[h] + a = Left(hs)[h]
  BY GivenIs
<1> HIDE DEF hs2
<1>2. IsLedger(CertOf(hs), Left(hs)) /\ IsLedger(CertOf(hs2), Left(hs2))
  BY <1>1, HeldLedger
<1>3. AlikeBut(CertOf(hs), Left(hs), K, CertOf(hs2), Left(hs2), K, h)
  BY <1>1 DEF AlikeBut, RowsWith, CertOf, Left
<1>4. (h \in RowsWith(CertOf(hs), K) <=> hs[h].cert \in K) /\ (h \in RowsWith(CertOf(hs2), K) <=> hs[h].cert \in K)
  <2>1. h \in RowsWith(CertOf(hs), K) <=> hs[h].cert \in K
    BY DEF RowsWith, CertOf
  <2> QED BY <1>1, <2>1
<1>5. /\ Outs(hs, K) \in Nat /\ Outs(hs2, K) \in Nat
      /\ hs[h].cert \in K => Outs(hs2, K) + Left(hs)[h] = Outs(hs, K) + Left(hs2)[h]
      /\ hs[h].cert \notin K => Outs(hs2, K) = Outs(hs, K)
  BY <1>2, <1>3, <1>4, PartMoves DEF Outs
<1>6. hs[h].cert \in K => Outs(hs2, K) + a = Outs(hs, K)
  BY <1>1, <1>5
<1> QED BY <1>5, <1>6 DEF hs2

LEMMA RecsGive ==
    ASSUME NEW hs, HeldSound(hs), NEW h \in DOMAIN hs, NEW a \in Nat, a <= hs[h].amount - hs[h].released, NEW K
    PROVE  Recs(hs, K) \in Nat /\ Recs(Given(hs, h, a), K) \in Nat /\ Recs(Given(hs, h, a), K) <= Recs(hs, K)
<1> DEFINE hs2 == Given(hs, h, a)
           Q == K \X {"advance-recovery"}
<1>1. /\ HeldSound(hs2) /\ KindOf(hs2) = KindOf(hs) /\ DOMAIN hs2 = DOMAIN hs
      /\ \A i \in DOMAIN hs \ {h} : hs2[i] = hs[i]
      /\ Left(hs)[h] \in Nat /\ Left(hs2)[h] \in Nat /\ Left(hs2)[h] + a = Left(hs)[h]
  BY GivenIs
<1> HIDE DEF hs2, Q
<1>2. IsLedger(KindOf(hs), Left(hs)) /\ IsLedger(KindOf(hs2), Left(hs2))
  BY <1>1, HeldLedger
<1>3. RowsWith(KindOf(hs2), Q) = RowsWith(KindOf(hs), Q) /\ RowsWith(KindOf(hs), Q) \subseteq DOMAIN hs
  BY <1>1 DEF RowsWith, KindOf
<1>4. \A i \in DOMAIN hs : Left(hs2)[i] <= Left(hs)[i]
  <2>1. \A i \in DOMAIN hs \ {h} : Left(hs2)[i] = Left(hs)[i] /\ Left(hs)[i] \in Nat
    BY <1>1, <1>2 DEF Left, IsLedger, KindOf
  <2> QED BY <1>1, <2>1
<1>5. PartSum(KindOf(hs2), Left(hs2), Q) <= PartSum(KindOf(hs), Left(hs), Q)
  BY <1>2, <1>3, <1>4, PartGrows
<1>6. PartSum(KindOf(hs2), Left(hs2), Q) \in Nat /\ PartSum(KindOf(hs), Left(hs), Q) \in Nat
  BY <1>2, PartIs
<1> QED BY <1>5, <1>6 DEF hs2, Q, Recs

\* An approval more.
LEMMA AppsAppend ==
    ASSUME NEW aps, aps \in Seq(Approvals), NEW w \in Approvals, NEW K
    PROVE  /\ Append(aps, w) \in Seq(Approvals) /\ Apps(aps, K) \in Nat
           /\ w.cert \in K => Apps(Append(aps, w), K) = Apps(aps, K) + w.amount
           /\ w.cert \notin K => Apps(Append(aps, w), K) = Apps(aps, K)
<1> DEFINE n == Len(aps) + 1
           more == Append(aps, w)
<1>1. /\ DOMAIN more = DOMAIN aps \cup {n} /\ n \notin DOMAIN aps /\ more[n] = w /\ more \in Seq(Approvals)
      /\ \A i \in DOMAIN aps : more[i] = aps[i]
  BY Appended
<1> HIDE DEF n, more
<1>2. IsLedger(CertOf(aps), AmountOf(aps)) /\ IsLedger(CertOf(more), AmountOf(more))
  BY <1>1, ApprovalLedger
<1>3. AlikeBut(CertOf(aps), AmountOf(aps), K, CertOf(more), AmountOf(more), K, n)
  BY <1>1 DEF AlikeBut, RowsWith, CertOf, AmountOf
<1>4. n \notin RowsWith(CertOf(aps), K) /\ (n \in RowsWith(CertOf(more), K) <=> w.cert \in K) /\ AmountOf(more)[n] = w.amount
  BY <1>1 DEF RowsWith, CertOf, AmountOf
<1>5. Apps(aps, K) \in Nat /\ (w.cert \in K => Apps(more, K) = Apps(aps, K) + AmountOf(more)[n])
      /\ (w.cert \notin K => Apps(more, K) = Apps(aps, K))
  BY <1>2, <1>3, <1>4, PartMoves DEF Apps
<1> QED BY <1>1, <1>4, <1>5 DEF more

\* A payment more.
LEMMA PaysAppend ==
    ASSUME NEW ps, PaidSound(ps), NEW w \in Payments, w.back <= w.amount, NEW A
    PROVE  /\ PaidSound(Append(ps, w)) /\ Pays(ps, A) \in Nat
           /\ w.approval \in A => Pays(Append(ps, w), A) = Pays(ps, A) + (w.amount - w.back)
           /\ w.approval \notin A => Pays(Append(ps, w), A) = Pays(ps, A)
<1> DEFINE n == Len(ps) + 1
           ps2 == Append(ps, w)
<1>1. /\ DOMAIN ps2 = DOMAIN ps \cup {n} /\ n \notin DOMAIN ps /\ ps2[n] = w /\ ps2 \in Seq(Payments)
      /\ \A i \in DOMAIN ps : ps2[i] = ps[i]
  BY Appended DEF PaidSound
<1>2. PaidSound(ps2)
  BY <1>1 DEF PaidSound
<1> HIDE DEF n, ps2
<1>3. IsLedger(ApprovalOf(ps), Out(ps)) /\ IsLedger(ApprovalOf(ps2), Out(ps2))
  BY <1>2, PaymentLedger
<1>4. AlikeBut(ApprovalOf(ps), Out(ps), A, ApprovalOf(ps2), Out(ps2), A, n)
  BY <1>1 DEF AlikeBut, RowsWith, ApprovalOf, Out
<1>5. n \notin RowsWith(ApprovalOf(ps), A) /\ (n \in RowsWith(ApprovalOf(ps2), A) <=> w.approval \in A)
      /\ Out(ps2)[n] = w.amount - w.back
  BY <1>1 DEF RowsWith, ApprovalOf, Out
<1>6. Pays(ps, A) \in Nat /\ (w.approval \in A => Pays(ps2, A) = Pays(ps, A) + Out(ps2)[n])
      /\ (w.approval \notin A => Pays(ps2, A) = Pays(ps, A))
  BY <1>3, <1>4, <1>5, PartMoves DEF Pays
<1> QED BY <1>2, <1>5, <1>6 DEF ps2

\* Some of a payment reversed.
Reversed(ps, p, a) == [ps EXCEPT ![p].back = @ + a]

LEMMA ReversedRow ==
    ASSUME NEW w \in Payments, NEW a \in Nat
    PROVE  /\ w.back \in Nat /\ w.amount \in Nat
           /\ [w EXCEPT !.back = w.back + a] \in Payments
           /\ [w EXCEPT !.back = w.back + a].back = w.back + a
           /\ [w EXCEPT !.back = w.back + a].amount = w.amount
           /\ [w EXCEPT !.back = w.back + a].approval = w.approval
  BY DEF Payments

LEMMA PaysReverse ==
    ASSUME NEW ps, PaidSound(ps), NEW p \in DOMAIN ps, NEW a \in Nat, a <= ps[p].amount - ps[p].back, NEW A
    PROVE  /\ PaidSound(Reversed(ps, p, a)) /\ DOMAIN Reversed(ps, p, a) = DOMAIN ps
           /\ Pays(ps, A) \in Nat /\ Pays(Reversed(ps, p, a), A) \in Nat
           /\ ps[p].approval \in A => Pays(Reversed(ps, p, a), A) + a = Pays(ps, A)
           /\ ps[p].approval \notin A => Pays(Reversed(ps, p, a), A) = Pays(ps, A)
           /\ \A i \in DOMAIN ps : /\ Reversed(ps, p, a)[i].approval = ps[i].approval
                                   /\ Reversed(ps, p, a)[i].amount = ps[i].amount
                                   /\ ps[i].back <= Reversed(ps, p, a)[i].back
<1> DEFINE ps2 == Reversed(ps, p, a)
<1>1. ps \in Seq(Payments) /\ \A i \in DOMAIN ps : ps[i] \in Payments /\ ps[i].back <= ps[i].amount
  BY SeqFinite DEF PaidSound
<1>2. ps[p].back \in Nat /\ ps[p].amount \in Nat
  BY <1>1 DEF Payments
<1>3. DOMAIN ps2 = DOMAIN ps /\ ps2[p] = [ps[p] EXCEPT !.back = ps[p].back + a] /\ \A i \in DOMAIN ps \ {p} : ps2[i] = ps[i]
  BY DEF Reversed
<1>4. ps2[p].back = ps[p].back + a /\ ps2[p].amount = ps[p].amount /\ ps2[p].approval = ps[p].approval
  BY <1>1, <1>3, ReversedRow
<1>5. ps2[p] \in Payments
  BY <1>1, <1>3, ReversedRow
<1>6. ps2 \in Seq(Payments)
  BY <1>1, <1>5 DEF Reversed
<1>7. PaidSound(ps2)
  <2>1. ps2[p].back <= ps2[p].amount
    BY <1>2, <1>4
  <2>2. \A i \in DOMAIN ps : ps2[i].back <= ps2[i].amount
    BY <1>1, <1>3, <2>1
  <2> HIDE DEF ps2
  <2> QED BY <1>3, <1>6, <2>2 DEF PaidSound
<1> HIDE DEF ps2
<1>8. IsLedger(ApprovalOf(ps), Out(ps)) /\ IsLedger(ApprovalOf(ps2), Out(ps2))
  BY <1>7, PaymentLedger
<1>9. ApprovalOf(ps2) = ApprovalOf(ps)
  BY <1>3, <1>4 DEF ApprovalOf
<1>10. AlikeBut(ApprovalOf(ps), Out(ps), A, ApprovalOf(ps2), Out(ps2), A, p)
  BY <1>3, <1>9 DEF AlikeBut, RowsWith, ApprovalOf, Out
<1>11. p \in RowsWith(ApprovalOf(ps), A) <=> ps[p].approval \in A
  BY DEF RowsWith, ApprovalOf
<1>12. Out(ps)[p] = ps[p].amount - ps[p].back /\ Out(ps2)[p] = ps[p].amount - (ps[p].back + a)
  BY <1>3, <1>4 DEF Out
<1>13. /\ Pays(ps, A) \in Nat /\ Pays(ps2, A) \in Nat
       /\ ps[p].approval \in A => Pays(ps2, A) + Out(ps)[p] = Pays(ps, A) + Out(ps2)[p]
       /\ ps[p].approval \notin A => Pays(ps2, A) = Pays(ps, A)
  BY <1>8, <1>9, <1>10, <1>11, PartMoves DEF Pays
<1>14. ps[p].approval \in A => Pays(ps2, A) + a = Pays(ps, A)
  <2> SUFFICES ASSUME ps[p].approval \in A PROVE Pays(ps2, A) + a = Pays(ps, A)
    OBVIOUS
  <2> DEFINE x == Pays(ps, A)
             y == Pays(ps2, A)
             m == ps[p].amount
             o == ps[p].back
  <2>1. x \in Nat /\ y \in Nat /\ m \in Nat /\ o \in Nat /\ y + (m - o) = x + (m - (o + a))
    BY <1>2, <1>12, <1>13
  <2> HIDE DEF x, y, m, o
  <2>2. y + a = x
    BY <2>1
  <2> QED BY <2>2 DEF x, y
<1>15. \A i \in DOMAIN ps : ps2[i].approval = ps[i].approval /\ ps2[i].amount = ps[i].amount /\ ps[i].back <= ps2[i].back
  <2> TAKE i \in DOMAIN ps
  <2>1. CASE i = p
    BY <1>2, <1>4, <2>1
  <2>2. CASE i # p
    <3>1. ps2[i] = ps[i] /\ ps[i].back \in Nat
      BY <1>1, <1>3, <2>2 DEF Payments
    <3> QED BY <3>1
  <2> QED BY <2>1, <2>2
<1> QED BY <1>3, <1>7, <1>13, <1>14, <1>15 DEF ps2

------------------------------------------------------------------------------
(* The books: what every bill may be paid, was approved and was paid.       *)

LiveIn(cs) == {k \in DOMAIN cs : cs[k].live}
CertsIn(cs, b) == {k \in DOMAIN cs : cs[k].bill = b}
LiveOf(cs, b) == CertsIn(cs, b) \cap LiveIn(cs)
ApprOn(aps, K) == {a \in DOMAIN aps : aps[a].cert \in K}

Worth(cs, b) == SumFunction([k \in LiveOf(cs, b) |-> cs[k].amount])
Due(cs, hs, b) == Worth(cs, b) - Outs(hs, LiveOf(cs, b))
Cleared(cs, aps, b) == Apps(aps, LiveOf(cs, b))
Spent(cs, aps, ps, b) == Pays(ps, ApprOn(aps, CertsIn(cs, b)))

StatusFor(due, cleared, spent) ==
    CASE due = spent -> "paid"
      [] due # spent /\ (cleared = 0 \/ (spent = cleared /\ cleared < due)) -> "certified"
      [] due # spent /\ cleared # 0 /\ spent = 0 -> "approved-for-payment"
      [] OTHER -> "part-paid"

StatusOf(cs, hs, aps, ps, b) == StatusFor(Due(cs, hs, b), Cleared(cs, aps, b), Spent(cs, aps, ps, b))

BookTyped(cs, hs, aps, ps) ==
    cs \in Seq(Certificates) /\ HeldSound(hs) /\ aps \in Seq(Approvals) /\ PaidSound(ps)

BookLinked(cs, hs, aps, ps) ==
    HeldLinked(cs, hs) /\ ApprovalsLinked(cs, aps) /\ PaymentsLinked(aps, ps) /\ OneStands(cs)

CashOnLive(cs, aps, ps) == \A p \in DOMAIN ps : ps[p].back < ps[p].amount => aps[ps[p].approval].cert \in LiveIn(cs)

BillCovered(cs, hs, aps, ps, b) ==
    LiveOf(cs, b) # {} => Spent(cs, aps, ps, b) <= Cleared(cs, aps, b) /\ Cleared(cs, aps, b) <= Due(cs, hs, b)

BillsCovered(cs, hs, aps, ps) == \A b \in Bills : BillCovered(cs, hs, aps, ps, b)

Book(cs, hs, aps, ps) ==
    /\ BookTyped(cs, hs, aps, ps) /\ BookLinked(cs, hs, aps, ps)
    /\ CashOnLive(cs, aps, ps) /\ BillsCovered(cs, hs, aps, ps)

\* Every bill shows what the books say of it.
ShowsBook(bs, cs, hs, aps, ps) ==
    \A b \in Bills : /\ bs[b].status \in PastCertification <=> LiveOf(cs, b) # {}
                     /\ bs[b].status \in PastCertification => bs[b].status = StatusOf(cs, hs, aps, ps, b)

\* The folds of the other bills stand.
OthersStand(cs, hs, aps, ps, cs2, hs2, aps2, ps2, b) ==
    \A c \in Bills \ {b} :
        /\ LiveOf(cs2, c) = LiveOf(cs, c) /\ Due(cs2, hs2, c) = Due(cs, hs, c)
        /\ Cleared(cs2, aps2, c) = Cleared(cs, aps, c) /\ Spent(cs2, aps2, ps2, c) = Spent(cs, aps, ps, c)

LEMMA FoldsTyped ==
    ASSUME NEW cs, NEW hs, NEW aps, NEW ps, BookTyped(cs, hs, aps, ps), NEW b
    PROVE  /\ Worth(cs, b) \in Nat /\ Outs(hs, LiveOf(cs, b)) \in Nat /\ Due(cs, hs, b) \in Int
           /\ Cleared(cs, aps, b) \in Nat /\ Spent(cs, aps, ps, b) \in Nat
<1>1. Outs(hs, LiveOf(cs, b)) \in Nat
  BY HeldLedger, PartIs DEF Outs, BookTyped
<1>2. Cleared(cs, aps, b) \in Nat
  BY ApprovalLedger, PartIs DEF Cleared, Apps, BookTyped
<1>3. Spent(cs, aps, ps, b) \in Nat
  BY PaymentLedger, PartIs DEF Spent, Pays, BookTyped
<1>4. Worth(cs, b) \in Nat
  <2> DEFINE f == [k \in LiveOf(cs, b) |-> cs[k].amount]
  <2>1. IsFiniteSet(DOMAIN cs) /\ \A k \in DOMAIN cs : cs[k] \in Certificates
    BY SeqFinite DEF BookTyped
  <2>2. LiveOf(cs, b) \subseteq DOMAIN cs
    BY DEF LiveOf, CertsIn
  <2>3. IsFiniteSet(LiveOf(cs, b))
    BY <2>1, <2>2, FS_Subset
  <2>4. f \in [LiveOf(cs, b) -> Nat]
    BY <2>1, <2>2 DEF Certificates
  <2>5. Worth(cs, b) = SumFunction(f)
    BY DEF Worth
  <2> HIDE DEF f
  <2> QED BY <2>3, <2>4, <2>5, SumInNat
<1> QED BY <1>1, <1>2, <1>3, <1>4 DEF Due

\* The certificate of a bill that stands is worth what it certified.
LEMMA LiveIsOne ==
    ASSUME NEW cs, cs \in Seq(Certificates), OneStands(cs), NEW b, NEW k \in LiveOf(cs, b)
    PROVE  /\ LiveOf(cs, b) = {k} /\ Worth(cs, b) = cs[k].amount /\ cs[k].amount \in Nat
           /\ k \in DOMAIN cs /\ cs[k].bill = b /\ cs[k].live /\ k \in LiveIn(cs)
<1>1. LiveOf(cs, b) = {k} /\ k \in DOMAIN cs /\ cs[k].bill = b /\ cs[k].live /\ k \in LiveIn(cs)
  BY DEF OneStands, LiveOf, CertsIn, LiveIn
<1>2. cs[k].amount \in Nat
  <2>1. cs[k] \in Certificates
    BY <1>1, SeqFinite
  <2> QED BY <2>1 DEF Certificates
<1> DEFINE S == LiveOf(cs, b)
           f == [j \in S |-> cs[j].amount]
<1>3. Worth(cs, b) = SumFunction(f)
  BY DEF Worth
<1>4. IsFiniteSet(S) /\ f \in [S -> Nat] /\ k \in S /\ S = {k} /\ f[k] = cs[k].amount
  BY <1>1, <1>2, FS_Singleton
<1> HIDE DEF f, S
<1>5. SumFunction(f) = f[k]
  BY <1>4, SumOfOne
<1>6. Worth(cs, b) = cs[k].amount
  BY <1>3, <1>4, <1>5
<1> QED BY <1>1, <1>2, <1>6

\* A bill without a certificate that stands.
LEMMA NoneStands ==
    ASSUME NEW cs, NEW hs, NEW aps, NEW b, LiveOf(cs, b) = {}
    PROVE  Worth(cs, b) = 0 /\ Outs(hs, LiveOf(cs, b)) = 0 /\ Due(cs, hs, b) = 0 /\ Cleared(cs, aps, b) = 0
<1>1. RowsWith(CertOf(hs), LiveOf(cs, b)) = {} /\ RowsWith(CertOf(aps), LiveOf(cs, b)) = {}
  BY DEF RowsWith
<1>2. Outs(hs, LiveOf(cs, b)) = 0 /\ Cleared(cs, aps, b) = 0
  BY <1>1, PartNone DEF Outs, Cleared, Apps
<1>3. DOMAIN [k \in LiveOf(cs, b) |-> cs[k].amount] = {}
  OBVIOUS
<1>4. Worth(cs, b) = 0
  BY <1>3, SumNone DEF Worth
<1> QED BY <1>2, <1>4 DEF Due

\* When the books change for one bill, that bill is what is left to look at.
LEMMA CoveredStays ==
    ASSUME NEW cs, NEW hs, NEW aps, NEW ps, NEW cs2, NEW hs2, NEW aps2, NEW ps2, NEW b,
           OthersStand(cs, hs, aps, ps, cs2, hs2, aps2, ps2, b), BillsCovered(cs, hs, aps, ps),
           BillCovered(cs2, hs2, aps2, ps2, b)
    PROVE  BillsCovered(cs2, hs2, aps2, ps2)
  BY DEF OthersStand, BillsCovered, BillCovered

LEMMA ShowsStays ==
    ASSUME NEW cs, NEW hs, NEW aps, NEW ps, NEW cs2, NEW hs2, NEW aps2, NEW ps2, NEW b \in Bills,
           OthersStand(cs, hs, aps, ps, cs2, hs2, aps2, ps2, b), NEW bs, ShowsBook(bs, cs, hs, aps, ps),
           NEW bs2, \A c \in Bills \ {b} : bs2[c].status = bs[c].status,
           bs2[b].status \in PastCertification <=> LiveOf(cs2, b) # {},
           bs2[b].status \in PastCertification => bs2[b].status = StatusOf(cs2, hs2, aps2, ps2, b)
    PROVE  ShowsBook(bs2, cs2, hs2, aps2, ps2)
<1> SUFFICES ASSUME NEW c \in Bills
             PROVE  /\ bs2[c].status \in PastCertification <=> LiveOf(cs2, c) # {}
                    /\ bs2[c].status \in PastCertification => bs2[c].status = StatusOf(cs2, hs2, aps2, ps2, c)
  BY DEF ShowsBook
<1>1. CASE c = b
  BY <1>1
<1>2. CASE c # b
  <2>1. bs2[c].status = bs[c].status /\ LiveOf(cs2, c) = LiveOf(cs, c)
        /\ StatusOf(cs2, hs2, aps2, ps2, c) = StatusOf(cs, hs, aps, ps, c)
    BY <1>2 DEF OthersStand, StatusOf
  <2>2. /\ bs[c].status \in PastCertification <=> LiveOf(cs, c) # {}
        /\ bs[c].status \in PastCertification => bs[c].status = StatusOf(cs, hs, aps, ps, c)
    BY DEF ShowsBook
  <2> QED BY <2>1, <2>2
<1> QED BY <1>1, <1>2

LEMMA StatusIsPast == \A d, c, s : StatusFor(d, c, s) \in PastCertification
  BY DEF StatusFor, PastCertification

------------------------------------------------------------------------------
(* The money commands on the books.                                         *)

\* The books after a command on bill b, and what it says of the other bills.
Moves(cs, hs, aps, ps, cs2, hs2, aps2, ps2, b) ==
    Book(cs2, hs2, aps2, ps2) /\ OthersStand(cs, hs, aps, ps, cs2, hs2, aps2, ps2, b)

LEMMA BookApprove ==
    ASSUME NEW cs, NEW hs, NEW aps, NEW ps, Book(cs, hs, aps, ps), NEW b, NEW k \in LiveOf(cs, b),
           NEW w \in Approvals, w.cert = k, Cleared(cs, aps, b) + w.amount <= Due(cs, hs, b)
    PROVE  Moves(cs, hs, aps, ps, cs, hs, Append(aps, w), ps, b)
<1> DEFINE aps2 == Append(aps, w)
           n == Len(aps) + 1
<1>0. BookTyped(cs, hs, aps, ps) /\ BookLinked(cs, hs, aps, ps)
  BY DEF Book
<1>1. aps \in Seq(Approvals) /\ cs \in Seq(Certificates) /\ OneStands(cs)
  BY <1>0 DEF BookTyped, BookLinked
<1>2. /\ DOMAIN aps2 = DOMAIN aps \cup {n} /\ n \notin DOMAIN aps /\ aps2[n] = w /\ aps2 \in Seq(Approvals)
      /\ \A i \in DOMAIN aps : aps2[i] = aps[i]
  BY <1>1, Appended
<1>3. k \in DOMAIN cs /\ cs[k].bill = b
  BY <1>1, LiveIsOne
<1>4. ASSUME NEW c
      PROVE  Cleared(cs, aps, c) \in Nat /\ Spent(cs, aps2, ps, c) = Spent(cs, aps, ps, c)
             /\ (c = b => Cleared(cs, aps2, c) = Cleared(cs, aps, c) + w.amount)
             /\ (c # b => Cleared(cs, aps2, c) = Cleared(cs, aps, c))
  <2>1. k \in LiveOf(cs, c) <=> c = b
    BY <1>3 DEF LiveOf, CertsIn
  <2>2. Cleared(cs, aps, c) \in Nat /\ (c = b => Cleared(cs, aps2, c) = Cleared(cs, aps, c) + w.amount)
        /\ (c # b => Cleared(cs, aps2, c) = Cleared(cs, aps, c))
    BY <1>1, <2>1, AppsAppend DEF Cleared
  <2> HIDE DEF aps2, n
  <2>3. \A p \in DOMAIN ps : ps[p].approval \in DOMAIN aps
    BY <1>0 DEF BookLinked, PaymentsLinked
  <2>4. ApprOn(aps2, CertsIn(cs, c)) \cap DOMAIN aps = ApprOn(aps, CertsIn(cs, c))
    BY <1>2 DEF ApprOn
  <2>5. RowsWith(ApprovalOf(ps), ApprOn(aps2, CertsIn(cs, c))) = RowsWith(ApprovalOf(ps), ApprOn(aps, CertsIn(cs, c)))
    BY <2>3, <2>4 DEF RowsWith, ApprovalOf
  <2>6. Spent(cs, aps2, ps, c) = Spent(cs, aps, ps, c)
    BY <2>5 DEF Spent, Pays, PartSum
  <2> QED BY <2>2, <2>6
<1> HIDE DEF aps2, n
<1>5. OthersStand(cs, hs, aps, ps, cs, hs, aps2, ps, b)
  BY <1>4 DEF OthersStand
<1>6. BillCovered(cs, hs, aps2, ps, b)
  <2>1. Spent(cs, aps, ps, b) <= Cleared(cs, aps, b) \/ b \notin Bills
    BY DEF Book, BillsCovered, BillCovered
  <2>2. b \in Bills
    <3>1. cs[k] \in Certificates
      BY <1>1, <1>3, SeqFinite
    <3> QED BY <1>3, <3>1 DEF Certificates
  <2>3. w.amount \in Nat
    BY DEF Approvals
  <2>4. Due(cs, hs, b) \in Int /\ Spent(cs, aps, ps, b) \in Nat /\ Cleared(cs, aps, b) \in Nat
    BY <1>0, FoldsTyped
  <2> QED BY <1>4, <2>1, <2>2, <2>3, <2>4 DEF BillCovered
<1>7. BillsCovered(cs, hs, aps2, ps)
  BY <1>5, <1>6, CoveredStays DEF Book
<1>8. BookTyped(cs, hs, aps2, ps)
  BY <1>0, <1>2 DEF BookTyped
<1>9. BookLinked(cs, hs, aps2, ps)
  <2>1. ApprovalsLinked(cs, aps2) /\ PaymentsLinked(aps2, ps)
    BY <1>0, <1>2, <1>3 DEF BookLinked, ApprovalsLinked, PaymentsLinked
  <2> QED BY <1>0, <2>1 DEF BookLinked
<1>10. CashOnLive(cs, aps2, ps)
  <2>1. \A p \in DOMAIN ps : ps[p].approval \in DOMAIN aps
    BY <1>0 DEF BookLinked, PaymentsLinked
  <2> QED BY <1>2, <2>1 DEF Book, CashOnLive
<1> QED BY <1>5, <1>7, <1>8, <1>9, <1>10 DEF Book, Moves, aps2

\* A payment changes the folds of the bill whose approval it names.
LEMMA SpentMoves ==
    ASSUME NEW cs, NEW hs, NEW aps, NEW ps, Book(cs, hs, aps, ps), NEW ap \in DOMAIN aps
    PROVE  /\ aps[ap].cert \in DOMAIN cs /\ cs[aps[ap].cert].bill \in Bills
           /\ \A c : ap \in ApprOn(aps, CertsIn(cs, c)) <=> cs[aps[ap].cert].bill = c
<1>1. aps[ap].cert \in DOMAIN cs
  BY DEF Book, BookLinked, ApprovalsLinked
<1>2. cs[aps[ap].cert] \in Certificates
  BY <1>1, SeqFinite DEF Book, BookTyped
<1>3. cs[aps[ap].cert].bill \in Bills
  BY <1>2 DEF Certificates
<1> QED BY <1>1, <1>3 DEF ApprOn, CertsIn

LEMMA BookPay ==
    ASSUME NEW cs, NEW hs, NEW aps, NEW ps, Book(cs, hs, aps, ps), NEW ap \in DOMAIN aps,
           aps[ap].cert \in LiveIn(cs), NEW b, b = cs[aps[ap].cert].bill,
           NEW w \in Payments, w.approval = ap, w.back = 0,
           Spent(cs, aps, ps, b) + w.amount <= Cleared(cs, aps, b)
    PROVE  Moves(cs, hs, aps, ps, cs, hs, aps, Append(ps, w), b)
<1> DEFINE ps2 == Append(ps, w)
           n == Len(ps) + 1
<1>0. BookTyped(cs, hs, aps, ps) /\ BookLinked(cs, hs, aps, ps) /\ PaidSound(ps) /\ w.amount \in Nat
  BY DEF Book, BookTyped, Payments
<1>1. /\ DOMAIN ps2 = DOMAIN ps \cup {n} /\ n \notin DOMAIN ps /\ ps2[n] = w
      /\ \A i \in DOMAIN ps : ps2[i] = ps[i]
  BY <1>0, Appended DEF PaidSound
<1>2. PaidSound(ps2) /\ \A c : Spent(cs, aps, ps, c) \in Nat
                               /\ (c = b => Spent(cs, aps, ps2, c) = Spent(cs, aps, ps, c) + w.amount)
                               /\ (c # b => Spent(cs, aps, ps2, c) = Spent(cs, aps, ps, c))
  <2>0. w.back <= w.amount /\ w.amount - w.back = w.amount
    BY <1>0
  <2>1. PaidSound(ps2)
    BY <1>0, <2>0, PaysAppend
  <2>2. ASSUME NEW c
        PROVE  Spent(cs, aps, ps, c) \in Nat
               /\ (c = b => Spent(cs, aps, ps2, c) = Spent(cs, aps, ps, c) + w.amount)
               /\ (c # b => Spent(cs, aps, ps2, c) = Spent(cs, aps, ps, c))
    <3>1. ap \in ApprOn(aps, CertsIn(cs, c)) <=> b = c
      BY SpentMoves
    <3> QED BY <1>0, <2>0, <3>1, PaysAppend DEF Spent
  <2> QED BY <2>1, <2>2
<1> HIDE DEF ps2, n
<1>3. OthersStand(cs, hs, aps, ps, cs, hs, aps, ps2, b)
  BY <1>2 DEF OthersStand
<1>4. BillCovered(cs, hs, aps, ps2, b)
  <2>1. b \in Bills
    BY SpentMoves
  <2>2. LiveOf(cs, b) # {} => Cleared(cs, aps, b) <= Due(cs, hs, b)
    BY <2>1 DEF Book, BillsCovered, BillCovered
  <2> QED BY <1>2, <2>2 DEF BillCovered
<1>5. BillsCovered(cs, hs, aps, ps2)
  BY <1>3, <1>4, CoveredStays DEF Book
<1>6. BookTyped(cs, hs, aps, ps2)
  BY <1>0, <1>2 DEF BookTyped
<1>7. BookLinked(cs, hs, aps, ps2)
  <2>1. PaymentsLinked(aps, ps2)
    BY <1>0, <1>1, <1>2 DEF BookLinked, PaymentsLinked, PaidSound
  <2> QED BY <1>0, <2>1 DEF BookLinked
<1>8. CashOnLive(cs, aps, ps2)
  BY <1>1 DEF Book, CashOnLive
<1> QED BY <1>3, <1>5, <1>6, <1>7, <1>8 DEF Book, Moves, ps2

LEMMA BookReverse ==
    ASSUME NEW cs, NEW hs, NEW aps, NEW ps, Book(cs, hs, aps, ps), NEW p \in DOMAIN ps,
           NEW a \in Nat, a <= ps[p].amount - ps[p].back, NEW b, b = cs[aps[ps[p].approval].cert].bill
    PROVE  Moves(cs, hs, aps, ps, cs, hs, aps, Reversed(ps, p, a), b)
<1> DEFINE ps2 == Reversed(ps, p, a)
           ap == ps[p].approval
<1>0. BookTyped(cs, hs, aps, ps) /\ BookLinked(cs, hs, aps, ps) /\ PaidSound(ps) /\ ap \in DOMAIN aps
  BY DEF Book, BookTyped, BookLinked, PaymentsLinked
<1>1. /\ PaidSound(ps2) /\ DOMAIN ps2 = DOMAIN ps
      /\ \A i \in DOMAIN ps : ps2[i].approval = ps[i].approval /\ ps2[i].amount = ps[i].amount /\ ps[i].back <= ps2[i].back
  BY <1>0, PaysReverse
<1>2. ASSUME NEW c
      PROVE  Spent(cs, aps, ps, c) \in Nat /\ Spent(cs, aps, ps2, c) \in Nat
             /\ (c = b => Spent(cs, aps, ps2, c) + a = Spent(cs, aps, ps, c))
             /\ (c # b => Spent(cs, aps, ps2, c) = Spent(cs, aps, ps, c))
  <2>1. ap \in ApprOn(aps, CertsIn(cs, c)) <=> b = c
    BY <1>0, SpentMoves
  <2> QED BY <1>0, <2>1, PaysReverse DEF Spent
<1> HIDE DEF ps2, ap
<1>3. OthersStand(cs, hs, aps, ps, cs, hs, aps, ps2, b)
  BY <1>2 DEF OthersStand
<1>4. BillCovered(cs, hs, aps, ps2, b)
  <2>1. b \in Bills
    BY <1>0, SpentMoves DEF ap
  <2>2. LiveOf(cs, b) # {} => Spent(cs, aps, ps, b) <= Cleared(cs, aps, b) /\ Cleared(cs, aps, b) <= Due(cs, hs, b)
    BY <2>1 DEF Book, BillsCovered, BillCovered
  <2>3. Spent(cs, aps, ps2, b) <= Spent(cs, aps, ps, b) /\ Spent(cs, aps, ps2, b) \in Nat /\ Spent(cs, aps, ps, b) \in Nat
    BY <1>2
  <2>4. Cleared(cs, aps, b) \in Nat
    BY <1>0, FoldsTyped
  <2>5. \A x, y, z \in Nat : x <= y /\ y <= z => x <= z
    OBVIOUS
  <2>6. LiveOf(cs, b) # {} => Spent(cs, aps, ps2, b) <= Cleared(cs, aps, b)
    BY <2>2, <2>3, <2>4, <2>5
  <2> QED BY <2>2, <2>6 DEF BillCovered
<1>5. BillsCovered(cs, hs, aps, ps2)
  BY <1>3, <1>4, CoveredStays DEF Book
<1>6. BookTyped(cs, hs, aps, ps2)
  BY <1>0, <1>1 DEF BookTyped
<1>7. BookLinked(cs, hs, aps, ps2)
  <2>1. PaymentsLinked(aps, ps2)
    BY <1>0, <1>1 DEF BookLinked, PaymentsLinked, PaidSound
  <2> QED BY <1>0, <2>1 DEF BookLinked
<1>8. CashOnLive(cs, aps, ps2)
  <2> SUFFICES ASSUME NEW i \in DOMAIN ps2, ps2[i].back < ps2[i].amount
               PROVE  aps[ps2[i].approval].cert \in LiveIn(cs)
    BY DEF CashOnLive
  <2>1. /\ ps2[i].approval = ps[i].approval /\ ps2[i].amount = ps[i].amount /\ ps[i].back <= ps2[i].back
        /\ i \in DOMAIN ps
    BY <1>1
  <2>2. ps[i].back \in Nat /\ ps[i].amount \in Nat /\ ps2[i].back \in Nat
    <3>1. ps[i] \in Payments /\ ps2[i] \in Payments
      BY <1>0, <1>1, SeqFinite DEF PaidSound
    <3> QED BY <3>1 DEF Payments
  <2>3. ps[i].back < ps[i].amount
    BY <2>1, <2>2
  <2> QED BY <2>1, <2>3 DEF Book, CashOnLive
<1> QED BY <1>3, <1>5, <1>6, <1>7, <1>8 DEF Book, Moves, ps2

LEMMA BookDeduct ==
    ASSUME NEW cs, NEW hs, NEW aps, NEW ps, Book(cs, hs, aps, ps), NEW b, NEW k \in LiveOf(cs, b),
           NEW w \in Withholdings, w.cert = k, w.released = 0, Cleared(cs, aps, b) <= Due(cs, hs, b) - w.amount
    PROVE  Moves(cs, hs, aps, ps, cs, Append(hs, w), aps, ps, b)
<1> DEFINE hs2 == Append(hs, w)
           n == Len(hs) + 1
<1>0. BookTyped(cs, hs, aps, ps) /\ BookLinked(cs, hs, aps, ps) /\ HeldSound(hs) /\ w.amount \in Nat
      /\ w.released <= w.amount /\ w.amount - w.released = w.amount
  BY DEF Book, BookTyped, Withholdings
<1>1. /\ DOMAIN hs2 = DOMAIN hs \cup {n} /\ n \notin DOMAIN hs /\ hs2[n] = w
      /\ \A i \in DOMAIN hs : hs2[i] = hs[i]
  BY <1>0, Appended DEF HeldSound
<1>2. HeldSound(hs2)
  BY <1>0, OutsAppend
<1>3. k \in DOMAIN cs /\ cs[k].bill = b
  BY <1>0, LiveIsOne DEF BookTyped, BookLinked
<1>4. ASSUME NEW c
      PROVE  (c = b => Due(cs, hs2, c) = Due(cs, hs, c) - w.amount) /\ (c # b => Due(cs, hs2, c) = Due(cs, hs, c))
  <2>1. k \in LiveOf(cs, c) <=> c = b
    BY <1>3 DEF LiveOf, CertsIn
  <2>2. Worth(cs, c) \in Nat /\ Outs(hs, LiveOf(cs, c)) \in Nat
    BY <1>0, FoldsTyped
  <2>3. (c = b => Outs(hs2, LiveOf(cs, c)) = Outs(hs, LiveOf(cs, c)) + w.amount)
        /\ (c # b => Outs(hs2, LiveOf(cs, c)) = Outs(hs, LiveOf(cs, c)))
    BY <1>0, <2>1, OutsAppend
  <2> QED BY <1>0, <2>2, <2>3 DEF Due
<1> HIDE DEF hs2, n
<1>5. OthersStand(cs, hs, aps, ps, cs, hs2, aps, ps, b)
  BY <1>4 DEF OthersStand
<1>6. BillCovered(cs, hs2, aps, ps, b)
  <2>1. b \in Bills
    <3>1. cs[k] \in Certificates
      BY <1>0, <1>3, SeqFinite DEF BookTyped
    <3> QED BY <1>3, <3>1 DEF Certificates
  <2>2. Spent(cs, aps, ps, b) <= Cleared(cs, aps, b)
    BY <2>1 DEF Book, BillsCovered, BillCovered
  <2> QED BY <1>4, <2>2 DEF BillCovered
<1>7. BillsCovered(cs, hs2, aps, ps)
  BY <1>5, <1>6, CoveredStays DEF Book
<1>8. BookTyped(cs, hs2, aps, ps)
  BY <1>0, <1>2 DEF BookTyped
<1>9. BookLinked(cs, hs2, aps, ps)
  <2>1. HeldLinked(cs, hs2)
    BY <1>0, <1>1, <1>3 DEF BookLinked, HeldLinked
  <2> QED BY <1>0, <2>1 DEF BookLinked
<1> QED BY <1>5, <1>7, <1>8, <1>9 DEF Book, Moves, hs2

LEMMA BookRelease ==
    ASSUME NEW cs, NEW hs, NEW aps, NEW ps, Book(cs, hs, aps, ps), NEW h \in DOMAIN hs,
           NEW a \in Nat, a <= hs[h].amount - hs[h].released, NEW b, b = cs[hs[h].cert].bill
    PROVE  Moves(cs, hs, aps, ps, cs, Given(hs, h, a), aps, ps, b)
<1> DEFINE hs2 == Given(hs, h, a)
<1>0. BookTyped(cs, hs, aps, ps) /\ BookLinked(cs, hs, aps, ps) /\ HeldSound(hs) /\ hs[h].cert \in DOMAIN cs
  BY DEF Book, BookTyped, BookLinked, HeldLinked
<1>1. HeldSound(hs2) /\ DOMAIN hs2 = DOMAIN hs /\ CertOf(hs2) = CertOf(hs)
  BY <1>0, GivenIs
<1>2. ASSUME NEW c
      PROVE  Due(cs, hs, c) \in Int /\ Due(cs, hs2, c) \in Int /\ Due(cs, hs, c) <= Due(cs, hs2, c)
             /\ (c # b => Due(cs, hs2, c) = Due(cs, hs, c))
  <2>1. c # b => hs[h].cert \notin LiveOf(cs, c)
    BY DEF LiveOf, CertsIn
  <2>2. Worth(cs, c) \in Nat
    BY <1>0, FoldsTyped
  <2> DEFINE x == Outs(hs, LiveOf(cs, c))
             y == Outs(hs2, LiveOf(cs, c))
  <2>3. x \in Nat /\ y \in Nat /\ (y + a = x \/ y = x) /\ (c # b => y = x)
    BY <1>0, <2>1, OutsGive
  <2>4. Due(cs, hs, c) = Worth(cs, c) - x /\ Due(cs, hs2, c) = Worth(cs, c) - y
    BY DEF Due
  <2> HIDE DEF x, y
  <2> QED BY <2>2, <2>3, <2>4
<1> HIDE DEF hs2
<1>3. OthersStand(cs, hs, aps, ps, cs, hs2, aps, ps, b)
  BY <1>2 DEF OthersStand
<1>4. BillCovered(cs, hs2, aps, ps, b)
  <2>1. b \in Bills
    <3>1. cs[hs[h].cert] \in Certificates
      BY <1>0, SeqFinite DEF BookTyped
    <3> QED BY <3>1 DEF Certificates
  <2>2. LiveOf(cs, b) # {} => Spent(cs, aps, ps, b) <= Cleared(cs, aps, b) /\ Cleared(cs, aps, b) <= Due(cs, hs, b)
    BY <2>1 DEF Book, BillsCovered, BillCovered
  <2>3. Cleared(cs, aps, b) \in Nat
    BY <1>0, FoldsTyped
  <2> QED BY <1>2, <2>2, <2>3 DEF BillCovered
<1>5. BillsCovered(cs, hs2, aps, ps)
  BY <1>3, <1>4, CoveredStays DEF Book
<1>6. BookTyped(cs, hs2, aps, ps)
  BY <1>0, <1>1 DEF BookTyped
<1>7. BookLinked(cs, hs2, aps, ps)
  <2>1. HeldLinked(cs, hs2)
    <3>1. \A i \in DOMAIN hs : hs2[i].cert = hs[i].cert
      BY <1>1 DEF CertOf
    <3> QED BY <1>0, <1>1, <3>1 DEF BookLinked, HeldLinked, HeldSound
  <2> QED BY <1>0, <2>1 DEF BookLinked
<1> QED BY <1>3, <1>5, <1>6, <1>7 DEF Book, Moves, hs2

------------------------------------------------------------------------------
(* Certificates on the books.                                               *)

Dead(cs, k) == [cs EXCEPT ![k].live = FALSE]

LEMMA DeadRow ==
    ASSUME NEW z \in Certificates
    PROVE  /\ [z EXCEPT !.live = FALSE] \in Certificates /\ [z EXCEPT !.live = FALSE].live = FALSE
           /\ [z EXCEPT !.live = FALSE].bill = z.bill /\ [z EXCEPT !.live = FALSE].amount = z.amount
           /\ [z EXCEPT !.live = FALSE].draws = z.draws
  BY DEF Certificates

LEMMA DeadIs ==
    ASSUME NEW cs, cs \in Seq(Certificates), NEW k \in DOMAIN cs
    PROVE  /\ Dead(cs, k) \in Seq(Certificates) /\ DOMAIN Dead(cs, k) = DOMAIN cs
           /\ \A i \in DOMAIN cs : /\ Dead(cs, k)[i].bill = cs[i].bill /\ Dead(cs, k)[i].amount = cs[i].amount
                                   /\ Dead(cs, k)[i].draws = cs[i].draws
           /\ LiveIn(Dead(cs, k)) = LiveIn(cs) \ {k}
           /\ \A c : CertsIn(Dead(cs, k), c) = CertsIn(cs, c) /\ LiveOf(Dead(cs, k), c) = LiveOf(cs, c) \ {k}
<1> DEFINE cs2 == Dead(cs, k)
<1>1. cs[k] \in Certificates
  BY SeqFinite
<1>2. DOMAIN cs2 = DOMAIN cs /\ cs2[k] = [cs[k] EXCEPT !.live = FALSE] /\ \A i \in DOMAIN cs \ {k} : cs2[i] = cs[i]
  BY DEF Dead
<1>3. cs2[k] \in Certificates /\ cs2[k].live = FALSE /\ cs2[k].bill = cs[k].bill /\ cs2[k].amount = cs[k].amount
      /\ cs2[k].draws = cs[k].draws
  BY <1>1, <1>2, DeadRow
<1>4. cs2 \in Seq(Certificates)
  BY <1>1, <1>3 DEF Dead
<1> HIDE DEF cs2
<1>5. \A i \in DOMAIN cs : cs2[i].bill = cs[i].bill /\ cs2[i].amount = cs[i].amount /\ cs2[i].draws = cs[i].draws
  BY <1>2, <1>3
<1>6. LiveIn(cs2) = LiveIn(cs) \ {k}
  BY <1>2, <1>3 DEF LiveIn
<1>7. \A c : CertsIn(cs2, c) = CertsIn(cs, c) /\ LiveOf(cs2, c) = LiveOf(cs, c) \ {k}
  <2> TAKE c
  <2>1. CertsIn(cs2, c) = CertsIn(cs, c)
    BY <1>2, <1>5 DEF CertsIn
  <2> QED BY <1>6, <2>1 DEF LiveOf
<1> QED BY <1>2, <1>4, <1>5, <1>6, <1>7 DEF cs2

LEMMA BookSupersede ==
    ASSUME NEW cs, NEW hs, NEW aps, NEW ps, Book(cs, hs, aps, ps), NEW b, NEW k \in LiveOf(cs, b),
           Spent(cs, aps, ps, b) = 0
    PROVE  /\ Moves(cs, hs, aps, ps, Dead(cs, k), hs, aps, ps, b) /\ LiveOf(Dead(cs, k), b) = {}
           /\ Recs(hs, LiveIn(Dead(cs, k))) \in Nat /\ Recs(hs, LiveIn(cs)) \in Nat
           /\ Recs(hs, LiveIn(Dead(cs, k))) <= Recs(hs, LiveIn(cs))
<1> DEFINE cs2 == Dead(cs, k)
<1>0. BookTyped(cs, hs, aps, ps) /\ BookLinked(cs, hs, aps, ps) /\ HeldSound(hs) /\ PaidSound(ps)
  BY DEF Book, BookTyped
<1>1. k \in DOMAIN cs /\ cs[k].bill = b /\ LiveOf(cs, b) = {k} /\ cs \in Seq(Certificates)
  BY <1>0, LiveIsOne DEF BookTyped, BookLinked
<1>2. /\ cs2 \in Seq(Certificates) /\ DOMAIN cs2 = DOMAIN cs
      /\ \A i \in DOMAIN cs : cs2[i].bill = cs[i].bill /\ cs2[i].amount = cs[i].amount
      /\ LiveIn(cs2) = LiveIn(cs) \ {k}
      /\ \A c : CertsIn(cs2, c) = CertsIn(cs, c) /\ LiveOf(cs2, c) = LiveOf(cs, c) \ {k}
  BY <1>1, DeadIs
<1> HIDE DEF cs2
<1>3. LiveOf(cs2, b) = {}
  BY <1>1, <1>2
<1>4. OthersStand(cs, hs, aps, ps, cs2, hs, aps, ps, b)
  <2> SUFFICES ASSUME NEW c \in Bills \ {b}
               PROVE  /\ LiveOf(cs2, c) = LiveOf(cs, c) /\ Due(cs2, hs, c) = Due(cs, hs, c)
                      /\ Cleared(cs2, aps, c) = Cleared(cs, aps, c) /\ Spent(cs2, aps, ps, c) = Spent(cs, aps, ps, c)
    BY DEF OthersStand
  <2>1. LiveOf(cs2, c) = LiveOf(cs, c) /\ LiveOf(cs, c) \subseteq DOMAIN cs
    <3>1. k \notin LiveOf(cs, c)
      BY <1>1 DEF LiveOf, CertsIn
    <3> QED BY <1>2, <3>1 DEF LiveOf, CertsIn
  <2>2. [j \in LiveOf(cs2, c) |-> cs2[j].amount] = [j \in LiveOf(cs, c) |-> cs[j].amount]
    BY <1>2, <2>1
  <2>3. Due(cs2, hs, c) = Due(cs, hs, c)
    BY <2>1, <2>2 DEF Due, Worth
  <2> QED BY <1>2, <2>1, <2>3 DEF Cleared, Spent
<1>5. BillsCovered(cs2, hs, aps, ps)
  <2>1. BillCovered(cs2, hs, aps, ps, b)
    BY <1>3 DEF BillCovered
  <2> QED BY <1>4, <2>1, CoveredStays DEF Book
<1>6. BookTyped(cs2, hs, aps, ps)
  BY <1>0, <1>2 DEF BookTyped
<1>7. BookLinked(cs2, hs, aps, ps)
  <2>1. HeldLinked(cs2, hs) /\ ApprovalsLinked(cs2, aps)
    BY <1>0, <1>2 DEF BookLinked, HeldLinked, ApprovalsLinked
  <2>2. OneStands(cs2)
    <3>1. \A j \in DOMAIN cs2 : cs2[j].live => cs[j].live /\ cs2[j].bill = cs[j].bill /\ j \in DOMAIN cs
      BY <1>2 DEF LiveIn
    <3> QED BY <1>0, <3>1 DEF BookLinked, OneStands
  <2> QED BY <1>0, <2>1, <2>2 DEF BookLinked
<1>8. CashOnLive(cs2, aps, ps)
  <2> SUFFICES ASSUME NEW p \in DOMAIN ps, ps[p].back < ps[p].amount, aps[ps[p].approval].cert = k PROVE FALSE
    <3>1. \A p \in DOMAIN ps : ps[p].back < ps[p].amount => aps[ps[p].approval].cert \in LiveIn(cs)
      BY DEF Book, CashOnLive
    <3> QED BY <1>2, <3>1 DEF CashOnLive
  <2> DEFINE A == ApprOn(aps, CertsIn(cs, b))
  <2>1. ps[p].approval \in DOMAIN aps
    BY <1>0 DEF BookLinked, PaymentsLinked
  <2>2. ps[p].approval \in A
    BY <1>1, <2>1 DEF ApprOn, CertsIn
  <2>3. p \in RowsWith(ApprovalOf(ps), A)
    BY <2>2 DEF RowsWith, ApprovalOf
  <2>4. Out(ps)[p] \in Nat /\ Out(ps)[p] <= Spent(cs, aps, ps, b)
    <3> HIDE DEF A
    <3>1. Out(ps)[p] \in Nat /\ Out(ps)[p] <= PartSum(ApprovalOf(ps), Out(ps), A)
      BY <1>0, <2>3, PaymentLedger, PartOfWhole
    <3> QED BY <3>1 DEF A, Spent, Pays
  <2>5. ps[p].back \in Nat /\ ps[p].amount \in Nat
    <3>1. ps[p] \in Payments
      BY <1>0, SeqFinite DEF PaidSound
    <3> QED BY <3>1 DEF Payments
  <2>6. Out(ps)[p] = ps[p].amount - ps[p].back
    BY DEF Out
  <2> QED BY <2>4, <2>5, <2>6
<1>9. Recs(hs, LiveIn(cs2)) \in Nat /\ Recs(hs, LiveIn(cs)) \in Nat /\ Recs(hs, LiveIn(cs2)) <= Recs(hs, LiveIn(cs))
  <2> DEFINE Q == LiveIn(cs) \X {"advance-recovery"}
             Q2 == LiveIn(cs2) \X {"advance-recovery"}
  <2>1. Q2 \subseteq Q
    BY <1>2
  <2>2. Recs(hs, LiveIn(cs2)) = PartSum(KindOf(hs), Left(hs), Q2) /\ Recs(hs, LiveIn(cs)) = PartSum(KindOf(hs), Left(hs), Q)
    BY DEF Recs
  <2> HIDE DEF Q, Q2
  <2>3. IsLedger(KindOf(hs), Left(hs))
    BY <1>0, HeldLedger
  <2>4. RowsWith(KindOf(hs), Q2) \subseteq RowsWith(KindOf(hs), Q)
    BY <2>1 DEF RowsWith
  <2>5. PartSum(KindOf(hs), Left(hs), Q) \in Nat /\ PartSum(KindOf(hs), Left(hs), Q2) \in Nat
    BY <2>3, PartIs
  <2>6. \A h \in RowsWith(KindOf(hs), Q2) : Left(hs)[h] <= Left(hs)[h]
    BY <2>3 DEF IsLedger, RowsWith
  <2>7. PartSum(KindOf(hs), Left(hs), Q2) <= PartSum(KindOf(hs), Left(hs), Q)
    BY <2>3, <2>4, <2>6, PartGrows
  <2> QED BY <2>2, <2>5, <2>7
<1> QED BY <1>3, <1>4, <1>5, <1>6, <1>7, <1>8, <1>9 DEF Book, Moves, cs2

\* The withholdings hs2 are those of hs, and others that are on certificate n.
Extended(hs, hs2, n) ==
    /\ HeldSound(hs2) /\ DOMAIN hs \subseteq DOMAIN hs2
    /\ \A h \in DOMAIN hs : hs2[h] = hs[h]
    /\ \A h \in DOMAIN hs2 \ DOMAIN hs : hs2[h].cert = n

LEMMA BookCertify ==
    ASSUME NEW cs, NEW hs, NEW aps, NEW ps, Book(cs, hs, aps, ps), NEW b, LiveOf(cs, b) = {},
           NEW z \in Certificates, z.bill = b, z.live, NEW hs2, Extended(hs, hs2, Len(cs) + 1),
           Outs(hs2, {Len(cs) + 1}) <= z.amount
    PROVE  /\ Moves(cs, hs, aps, ps, Append(cs, z), hs2, aps, ps, b)
           /\ LiveOf(Append(cs, z), b) = {Len(cs) + 1}
<1> DEFINE n == Len(cs) + 1
           cs2 == Append(cs, z)
<1>0. BookTyped(cs, hs, aps, ps) /\ BookLinked(cs, hs, aps, ps) /\ HeldSound(hs) /\ PaidSound(ps) /\ cs \in Seq(Certificates)
  BY DEF Book, BookTyped
<1>1. /\ DOMAIN cs2 = DOMAIN cs \cup {n} /\ n \notin DOMAIN cs /\ cs2[n] = z /\ cs2 \in Seq(Certificates)
      /\ \A i \in DOMAIN cs : cs2[i] = cs[i]
  BY <1>0, Appended
<1>2. Extended(hs, hs2, n) /\ Outs(hs2, {n}) <= z.amount
  OBVIOUS
<1> HIDE DEF n, cs2
<1>3. LiveOf(cs2, b) = {n} /\ (\A c : c # b => LiveOf(cs2, c) = LiveOf(cs, c)) /\ LiveIn(cs2) = LiveIn(cs) \cup {n}
      /\ (\A c : CertsIn(cs2, c) \cap DOMAIN cs = CertsIn(cs, c)) /\ \A c : LiveOf(cs, c) \subseteq DOMAIN cs
  <2>1. \A c : CertsIn(cs2, c) = IF c = b THEN CertsIn(cs, c) \cup {n} ELSE CertsIn(cs, c)
    BY <1>1 DEF CertsIn
  <2>2. LiveIn(cs2) = LiveIn(cs) \cup {n} /\ LiveIn(cs) \subseteq DOMAIN cs
    BY <1>1 DEF LiveIn
  <2>3. \A c : CertsIn(cs, c) \subseteq DOMAIN cs
    BY DEF CertsIn
  <2>4. LiveOf(cs2, b) = {n}
    BY <1>1, <2>1, <2>2, <2>3 DEF LiveOf
  <2>5. \A c : c # b => LiveOf(cs2, c) = LiveOf(cs, c)
    BY <1>1, <2>1, <2>2, <2>3 DEF LiveOf
  <2>6. \A c : LiveOf(cs, c) \subseteq DOMAIN cs
    BY <2>2 DEF LiveOf
  <2>7. \A c : CertsIn(cs2, c) \cap DOMAIN cs = CertsIn(cs, c)
    BY <1>1, <2>1, <2>3
  <2> QED BY <2>2, <2>4, <2>5, <2>6, <2>7
<1>4. \A c : Spent(cs2, aps, ps, c) = Spent(cs, aps, ps, c)
  <2> TAKE c
  <2>1. \A a \in DOMAIN aps : aps[a].cert \in DOMAIN cs
    BY <1>0 DEF BookLinked, ApprovalsLinked
  <2>2. \A a \in DOMAIN aps : aps[a].cert \in CertsIn(cs2, c) <=> aps[a].cert \in CertsIn(cs, c)
    BY <1>3, <2>1
  <2>3. ApprOn(aps, CertsIn(cs2, c)) = ApprOn(aps, CertsIn(cs, c))
    BY <2>2 DEF ApprOn
  <2> QED BY <2>3 DEF Spent
<1>5. OthersStand(cs, hs, aps, ps, cs2, hs2, aps, ps, b)
  <2> SUFFICES ASSUME NEW c \in Bills \ {b}
               PROVE  /\ LiveOf(cs2, c) = LiveOf(cs, c) /\ Due(cs2, hs2, c) = Due(cs, hs, c)
                      /\ Cleared(cs2, aps, c) = Cleared(cs, aps, c) /\ Spent(cs2, aps, ps, c) = Spent(cs, aps, ps, c)
    BY DEF OthersStand
  <2>1. LiveOf(cs2, c) = LiveOf(cs, c) /\ LiveOf(cs, c) \subseteq DOMAIN cs /\ n \notin LiveOf(cs, c)
    BY <1>1, <1>3
  <2>2. [j \in LiveOf(cs2, c) |-> cs2[j].amount] = [j \in LiveOf(cs, c) |-> cs[j].amount]
    BY <1>1, <2>1
  <2>3. Outs(hs2, LiveOf(cs, c)) = Outs(hs, LiveOf(cs, c))
    <3>1. RowsWith(CertOf(hs), LiveOf(cs, c)) = RowsWith(CertOf(hs2), LiveOf(cs, c))
      BY <1>2, <2>1 DEF RowsWith, CertOf, Extended
    <3>2. \A h \in RowsWith(CertOf(hs), LiveOf(cs, c)) : Left(hs)[h] = Left(hs2)[h]
      BY <1>2 DEF RowsWith, CertOf, Left, Extended
    <3> QED BY <3>1, <3>2, PartSame DEF Outs
  <2>4. Due(cs2, hs2, c) = Due(cs, hs, c)
    BY <2>1, <2>2, <2>3 DEF Due, Worth
  <2> QED BY <1>4, <2>1, <2>4 DEF Cleared
<1>6. Spent(cs2, aps, ps, b) = 0
  <2> DEFINE A == ApprOn(aps, CertsIn(cs, b))
  <2>1. \A p \in RowsWith(ApprovalOf(ps), A) : Out(ps)[p] = 0
    <3> SUFFICES ASSUME NEW p \in DOMAIN ps, ps[p].approval \in A PROVE Out(ps)[p] = 0
      BY DEF RowsWith, ApprovalOf
    <3>1. aps[ps[p].approval].cert \notin LiveIn(cs)
      BY DEF ApprOn, LiveOf
    <3>2. ~(ps[p].back < ps[p].amount)
      BY <3>1 DEF Book, CashOnLive
    <3>3. ps[p].back \in Nat /\ ps[p].amount \in Nat /\ ps[p].back <= ps[p].amount
      <4>1. ps[p] \in Payments
        BY <1>0, SeqFinite DEF PaidSound
      <4> QED BY <1>0, <4>1 DEF Payments, PaidSound
    <3> QED BY <3>2, <3>3 DEF Out
  <2>2. Spent(cs, aps, ps, b) = PartSum(ApprovalOf(ps), Out(ps), A)
    BY DEF Spent, Pays
  <2> HIDE DEF A
  <2>3. PartSum(ApprovalOf(ps), Out(ps), A) = 0
    BY <1>0, <2>1, PaymentLedger, PartZeros
  <2> QED BY <1>4, <2>2, <2>3
<1>7. Cleared(cs2, aps, b) = 0
  <2>1. RowsWith(CertOf(aps), {n}) = {}
    BY <1>0, <1>1 DEF RowsWith, CertOf, BookLinked, ApprovalsLinked
  <2> QED BY <1>3, <2>1, PartNone DEF Cleared, Apps
<1>8. BookTyped(cs2, hs2, aps, ps)
  BY <1>0, <1>1, <1>2 DEF BookTyped, Extended
<1>9. BookLinked(cs2, hs2, aps, ps)
  <2>1. HeldLinked(cs2, hs2)
    <3>1. \A h \in DOMAIN hs2 : hs2[h].cert \in DOMAIN cs2
      BY <1>0, <1>1, <1>2 DEF Extended, BookLinked, HeldLinked
    <3> QED BY <1>2, <3>1 DEF Extended, HeldSound, HeldLinked
  <2>2. ApprovalsLinked(cs2, aps)
    BY <1>0, <1>1 DEF BookLinked, ApprovalsLinked
  <2>3. OneStands(cs2)
    <3>1. \A j \in DOMAIN cs : ~(cs[j].live /\ cs[j].bill = b)
      BY DEF LiveOf, CertsIn, LiveIn
    <3> QED BY <1>0, <1>1, <3>1 DEF BookLinked, OneStands
  <2> QED BY <1>0, <2>1, <2>2, <2>3 DEF BookLinked
<1>10. BillsCovered(cs2, hs2, aps, ps)
  <2>1. Worth(cs2, b) = z.amount
    BY <1>1, <1>3, <1>9, LiveIsOne DEF BookLinked
  <2>2. Due(cs2, hs2, b) = z.amount - Outs(hs2, {n})
    BY <1>3, <2>1 DEF Due
  <2>3. Outs(hs2, {n}) \in Nat /\ z.amount \in Nat
    <3>1. Outs(hs2, {n}) \in Nat
      BY <1>2, HeldLedger, PartIs DEF Outs, Extended
    <3> QED BY <3>1 DEF Certificates
  <2>4. BillCovered(cs2, hs2, aps, ps, b)
    BY <1>2, <1>6, <1>7, <2>2, <2>3 DEF BillCovered
  <2> QED BY <1>5, <2>4, CoveredStays DEF Book
<1>11. CashOnLive(cs2, aps, ps)
  BY <1>3 DEF Book, CashOnLive
<1> QED BY <1>3, <1>5, <1>8, <1>9, <1>10, <1>11 DEF Book, Moves, cs2, n

------------------------------------------------------------------------------
(* What a certificate takes over from the one it replaces.                  *)

LEMMA AllInSequence ==
    ASSUME NEW S, IsFiniteSet(S)
    PROVE  /\ SetToSeq(S) \in [1 .. Cardinality(S) -> S] /\ Cardinality(S) \in Nat
           /\ \A i, j \in 1 .. Cardinality(S) : SetToSeq(S)[i] = SetToSeq(S)[j] => i = j
           /\ \A x \in S : \E i \in 1 .. Cardinality(S) : SetToSeq(S)[i] = x
<1> DEFINE I == 1 .. Cardinality(S)
           old == SetToSeq(S)
<1>1. Cardinality(S) \in Nat /\ ExistsBijection(I, S)
  BY FS_CardinalityType
<1>2. \E f \in [I -> S] : IsInjective(f)
  BY <1>1 DEF ExistsBijection, Bijection, Injection, IsInjective
<1>3. old \in [I -> S] /\ IsInjective(old)
  BY <1>2 DEF SetToSeq
<1>4. IsFiniteSet(I) /\ Cardinality(I) = Cardinality(S)
  BY <1>1, FS_Interval
<1> HIDE DEF I, old
<1>5. old \in Injection(I, S)
  BY <1>3 DEF Injection, IsInjective
<1>6. old \in Surjection(I, S)
  BY <1>4, <1>5, FS_Injection
<1>7. \A x \in S : \E i \in I : old[i] = x
  BY <1>6 DEF Surjection
<1>8. \A i, j \in I : old[i] = old[j] => i = j
  BY <1>5 DEF Injection, IsInjective
<1> QED BY <1>1, <1>3, <1>7, <1>8 DEF I, old

TakesOver(v, w, n) == v \in Withholdings /\ v.cert = n /\ v.amount = w.amount /\ v.released = w.released

LEMMA RestatedRow ==
    ASSUME NEW w \in Withholdings, NEW n \in Nat, NEW i \in Nat
    PROVE  TakesOver([w EXCEPT !.cert = n, !.from = i], w, n)
  BY DEF Withholdings, TakesOver

\* The withholdings on the certificates in K, as rows of certificate n.
RowsOn(hs, K, n) ==
    LET old == SetToSeq(RowsWith(CertOf(hs), K))
    IN [i \in DOMAIN old |-> [hs[old[i]] EXCEPT !.cert = n, !.from = old[i]]]

\* R has c rows: row i is old[i] of the rows S of hs, and there is one for each.
CopiedInto(hs, S, n, R, c, old) ==
    /\ \A i, j \in 1 .. c : old[i] = old[j] => i = j
    /\ \A h \in S : \E i \in 1 .. c : old[i] = h
    /\ R \in Seq(Withholdings) /\ Len(R) = c
    /\ \A i \in 1 .. c : R[i].cert = n /\ R[i].amount = hs[old[i]].amount /\ R[i].released = hs[old[i]].released

LEMMA RowsOnIs ==
    ASSUME NEW hs, HeldSound(hs), NEW K, NEW n \in Nat
    PROVE  \E c \in Nat : \E old \in [1 .. c -> RowsWith(CertOf(hs), K)] :
              CopiedInto(hs, RowsWith(CertOf(hs), K), n, RowsOn(hs, K, n), c, old)
<1> DEFINE S == RowsWith(CertOf(hs), K)
           old == SetToSeq(S)
           c == Cardinality(S)
           R == RowsOn(hs, K, n)
<1>1. IsFiniteSet(S)
  BY HeldLedger, PartIs
<1>2. S \subseteq DOMAIN hs /\ \A h \in DOMAIN hs : hs[h] \in Withholdings /\ h \in Nat
  BY SeqFinite DEF HeldSound, RowsWith, CertOf
<1>3. R = [i \in DOMAIN old |-> [hs[old[i]] EXCEPT !.cert = n, !.from = old[i]]]
  BY DEF RowsOn
<1> HIDE DEF S, R
<1>4. /\ old \in [1 .. c -> S] /\ c \in Nat /\ \A i, j \in 1 .. c : old[i] = old[j] => i = j
      /\ \A x \in S : \E i \in 1 .. c : old[i] = x
  BY <1>1, AllInSequence
<1> HIDE DEF old, c
<1>5. \A i \in 1 .. c : hs[old[i]] \in Withholdings /\ old[i] \in Nat
  BY <1>2, <1>4
<1>6. DOMAIN R = 1 .. c /\ \A i \in 1 .. c : R[i] = [hs[old[i]] EXCEPT !.cert = n, !.from = old[i]]
  BY <1>3, <1>4
<1>7. \A i \in 1 .. c : /\ R[i] \in Withholdings /\ R[i].cert = n
                        /\ R[i].amount = hs[old[i]].amount /\ R[i].released = hs[old[i]].released
  <2> TAKE i \in 1 .. c
  <2> DEFINE w == hs[old[i]]
             j == old[i]
  <2>1. w \in Withholdings /\ j \in Nat /\ R[i] = [w EXCEPT !.cert = n, !.from = j]
    BY <1>5, <1>6
  <2> HIDE DEF w, j
  <2>2. TakesOver(R[i], w, n)
    BY <2>1, RestatedRow
  <2> QED BY <2>2 DEF w, TakesOver
<1>8. R \in Seq(Withholdings) /\ Len(R) = c
  <2>1. R \in [1 .. c -> Withholdings]
    BY <1>3, <1>4, <1>6, <1>7
  <2> QED BY <1>4, <2>1
<1>9. CopiedInto(hs, S, n, R, c, old)
  BY <1>4, <1>7, <1>8 DEF CopiedInto
<1> QED BY <1>4, <1>9 DEF S, R

LEMMA CarriedOver ==
    ASSUME NEW cs, NEW hs, HeldSound(hs), HeldLinked(cs, hs), NEW K, NEW n \in Nat, n \notin DOMAIN cs
    PROVE  /\ Extended(hs, hs \o RowsOn(hs, K, n), n)
           /\ Outs(hs \o RowsOn(hs, K, n), {n}) = Outs(hs, K) /\ Outs(hs, K) \in Nat
<1> DEFINE R == RowsOn(hs, K, n)
           hs2 == hs \o R
           S == RowsWith(CertOf(hs), K)
           m == Len(hs)
<1>0. PICK c \in Nat : \E old \in [1 .. c -> S] : CopiedInto(hs, S, n, R, c, old)
  BY RowsOnIs
<1>p. PICK old \in [1 .. c -> S] : CopiedInto(hs, S, n, R, c, old)
  BY <1>0
<1>1. /\ \A i, j \in 1 .. c : old[i] = old[j] => i = j
      /\ \A h \in S : \E i \in 1 .. c : old[i] = h
      /\ R \in Seq(Withholdings) /\ Len(R) = c
      /\ \A i \in 1 .. c : R[i].cert = n /\ R[i].amount = hs[old[i]].amount /\ R[i].released = hs[old[i]].released
  BY <1>p DEF CopiedInto
<1>2. hs \in Seq(Withholdings) /\ m \in Nat /\ DOMAIN hs = 1 .. m
  BY SeqFinite DEF HeldSound
<1> HIDE DEF R, m
<1>3. hs2 \in Seq(Withholdings) /\ DOMAIN hs2 = 1 .. (m + c) /\ (\A h \in DOMAIN hs : hs2[h] = hs[h])
      /\ \A i \in 1 .. c : hs2[m + i] = R[i]
  BY <1>1, <1>2 DEF m
<1> HIDE DEF hs2
<1>4. \A h \in DOMAIN hs2 \ DOMAIN hs : h - m \in 1 .. c /\ hs2[h] = R[h - m]
  <2>1. \A h \in DOMAIN hs2 \ DOMAIN hs : h - m \in 1 .. c /\ m + (h - m) = h
    BY <1>1, <1>2, <1>3
  <2> QED BY <1>3, <2>1
<1>5. S \subseteq DOMAIN hs
  BY DEF RowsWith, CertOf
<1>6. HeldSound(hs2)
  <2>1. \A h \in DOMAIN hs : hs2[h].released <= hs2[h].amount
    BY <1>3 DEF HeldSound
  <2>2. \A i \in 1 .. c : old[i] \in DOMAIN hs
    BY <1>1, <1>5
  <2>3. \A h \in DOMAIN hs2 \ DOMAIN hs : hs2[h].released <= hs2[h].amount
    BY <1>1, <1>4, <2>2 DEF HeldSound
  <2> QED BY <1>3, <2>1, <2>3 DEF HeldSound
<1>7. DOMAIN hs \subseteq DOMAIN hs2
  BY <1>1, <1>2, <1>3
<1>8. Extended(hs, hs2, n)
  BY <1>1, <1>3, <1>4, <1>6, <1>7 DEF Extended
<1> DEFINE T == RowsWith(CertOf(hs2), {n})
           f == [h \in T |-> Left(hs2)[h]]
           k == [h \in S |-> Left(hs)[h]]
<1>9. T = DOMAIN hs2 \ DOMAIN hs
  <2>1. \A h \in DOMAIN hs : hs2[h].cert # n
    BY <1>3 DEF HeldLinked
  <2>2. \A h \in DOMAIN hs2 \ DOMAIN hs : hs2[h].cert = n
    BY <1>8 DEF Extended
  <2> QED BY <2>1, <2>2 DEF RowsWith, CertOf
<1>10. IsFiniteSet(T) /\ f \in [T -> Nat] /\ Outs(hs2, {n}) = SumFunction(f)
  BY <1>6, HeldLedger, PartIs DEF Outs, PartSum
<1>11. IsFiniteSet(S) /\ k \in [S -> Nat] /\ Outs(hs, K) = SumFunction(k) /\ Outs(hs, K) \in Nat
  BY HeldLedger, PartIs DEF Outs, PartSum
<1>12. \A h \in T : h - m \in 1 .. c /\ old[h - m] \in S /\ f[h] = k[old[h - m]]
  <2> TAKE h \in T
  <2>1. h - m \in 1 .. c /\ hs2[h] = R[h - m] /\ h \in DOMAIN hs2
    BY <1>4, <1>9
  <2>2. old[h - m] \in S /\ old[h - m] \in DOMAIN hs
    BY <1>1, <1>5, <2>1
  <2>3. hs2[h].amount = hs[old[h - m]].amount /\ hs2[h].released = hs[old[h - m]].released
    BY <1>1, <2>1
  <2>4. f[h] = hs2[h].amount - hs2[h].released /\ k[old[h - m]] = hs[old[h - m]].amount - hs[old[h - m]].released
    BY <2>1, <2>2 DEF Left
  <2> QED BY <2>1, <2>2, <2>3, <2>4
<1>13. \A i \in 1 .. c : m + i \in T /\ (m + i) - m = i
  <2> HIDE DEF T
  <2> TAKE i \in 1 .. c
  <2>1. m + i \in 1 .. (m + c) /\ m + i \notin 1 .. m /\ (m + i) - m = i
    BY <1>2
  <2> QED BY <1>2, <1>3, <1>9, <2>1
<1> HIDE DEF f, k, S, T
<1>14. SumFunction(f) <= SumFunction(k)
  <2> DEFINE match == [h \in T |-> old[h - m]]
  <2>1. \A h \in T : match[h] \in S /\ f[h] <= k[match[h]]
    BY <1>10, <1>12
  <2>2. \A g, h \in T : match[g] = match[h] => g = h
    <3>1. \A g, h \in T : g - m = h - m => g = h
      BY <1>2, <1>3, <1>9
    <3> QED BY <1>1, <1>12, <3>1
  <2> HIDE DEF match
  <2>3. Matches(f, k, match, T, S)
    BY <2>1, <2>2 DEF Matches
  <2> QED BY <1>10, <1>11, <2>3, SumFits
<1>15. SumFunction(k) <= SumFunction(f)
  <2> DEFINE match == [h \in S |-> m + (CHOOSE i \in 1 .. c : old[i] = h)]
  <2>1. \A h \in S : \E i \in 1 .. c : old[i] = h /\ match[h] = m + i
    BY <1>1 DEF S
  <2> HIDE DEF match
  <2>2. \A h \in S : match[h] \in T /\ match[h] - m \in 1 .. c /\ old[match[h] - m] = h
    BY <1>13, <2>1
  <2>3. \A h \in S : match[h] \in T /\ k[h] <= f[match[h]]
    BY <1>11, <1>12, <2>2
  <2>4. Matches(k, f, match, S, T)
    BY <2>2, <2>3 DEF Matches
  <2> QED BY <1>10, <1>11, <2>4, SumFits
<1>16. Outs(hs2, {n}) \in Nat
  BY <1>6, HeldLedger, PartIs DEF Outs
<1> QED BY <1>8, <1>10, <1>11, <1>14, <1>15, <1>16 DEF hs2, R

------------------------------------------------------------------------------
(* The operators of the model are these folds, before and after a step.     *)

LEMMA LiveAre ==
    ASSUME NEW b
    PROVE  /\ LiveCerts = LiveIn(certs) /\ LiveCertOf(b) = LiveOf(certs, b) /\ CertsOf(b) = CertsIn(certs, b)
           /\ LiveCerts' = LiveIn(certs') /\ LiveCertOf(b)' = LiveOf(certs', b) /\ CertsOf(b)' = CertsIn(certs', b)
  BY DEF LiveCerts, LiveIn, LiveCertOf, LiveOf, CertsOf, CertsIn

LEMMA OutsOf ==
    ASSUME NEW hs, NEW K
    PROVE  Outs(hs, K) = SumFunction([h \in {x \in DOMAIN hs : hs[x].cert \in K} |-> hs[h].amount - hs[h].released])
<1>1. RowsWith(CertOf(hs), K) = {x \in DOMAIN hs : hs[x].cert \in K}
  BY DEF RowsWith, CertOf
<1>2. [h \in RowsWith(CertOf(hs), K) |-> Left(hs)[h]]
        = [h \in {x \in DOMAIN hs : hs[x].cert \in K} |-> hs[h].amount - hs[h].released]
  BY <1>1 DEF Left
<1> QED BY <1>2 DEF Outs, PartSum

LEMMA RecsOf ==
    ASSUME NEW hs, NEW K
    PROVE  Recs(hs, K) = SumFunction([h \in {y \in {x \in DOMAIN hs : hs[x].cert \in K} : hs[y].kind = "advance-recovery"} |->
                                         hs[h].amount - hs[h].released])
<1> DEFINE Q == K \X {"advance-recovery"}
           S == {y \in {x \in DOMAIN hs : hs[x].cert \in K} : hs[y].kind = "advance-recovery"}
<1>1. RowsWith(KindOf(hs), Q) = S
  BY DEF RowsWith, KindOf
<1> HIDE DEF Q
<1>2. [h \in RowsWith(KindOf(hs), Q) |-> Left(hs)[h]] = [h \in S |-> hs[h].amount - hs[h].released]
  BY <1>1 DEF Left
<1> QED BY <1>2 DEF Recs, PartSum, Q

LEMMA AppsOf ==
    ASSUME NEW aps, NEW K
    PROVE  Apps(aps, K) = SumFunction([a \in {x \in DOMAIN aps : aps[x].cert \in K} |-> aps[a].amount])
<1>1. RowsWith(CertOf(aps), K) = {x \in DOMAIN aps : aps[x].cert \in K}
  BY DEF RowsWith, CertOf
<1>2. [a \in RowsWith(CertOf(aps), K) |-> AmountOf(aps)[a]] = [a \in {x \in DOMAIN aps : aps[x].cert \in K} |-> aps[a].amount]
  BY <1>1 DEF AmountOf
<1> QED BY <1>2 DEF Apps, PartSum

LEMMA PaysOf ==
    ASSUME NEW ps, NEW A
    PROVE  Pays(ps, A) = SumFunction([p \in {x \in DOMAIN ps : ps[x].approval \in A} |-> ps[p].amount - ps[p].back])
<1>1. RowsWith(ApprovalOf(ps), A) = {x \in DOMAIN ps : ps[x].approval \in A}
  BY DEF RowsWith, ApprovalOf
<1>2. [p \in RowsWith(ApprovalOf(ps), A) |-> Out(ps)[p]]
        = [p \in {x \in DOMAIN ps : ps[x].approval \in A} |-> ps[p].amount - ps[p].back]
  BY <1>1 DEF Out
<1> QED BY <1>2 DEF Pays, PartSum

LEMMA WithheldIs ==
    ASSUME NEW b
    PROVE  Withheld(b) = Outs(held, LiveOf(certs, b)) /\ Withheld(b)' = Outs(held', LiveOf(certs', b))
<1>1. Withheld(b) = Outs(held, LiveOf(certs, b))
  BY LiveAre, OutsOf DEF Withheld, Outstanding, HeldOn, Unreleased
<1>2. Withheld(b)' = Outs(held', LiveOf(certs', b))
  BY LiveAre, OutsOf DEF Withheld, Outstanding, HeldOn, Unreleased
<1> QED BY <1>1, <1>2

LEMMA PayableIs ==
    ASSUME NEW b
    PROVE  Payable(b) = Due(certs, held, b) /\ Payable(b)' = Due(certs', held', b)
<1>1. Payable(b) = Due(certs, held, b)
  BY LiveAre, WithheldIs DEF Payable, Due, Worth
<1>2. Payable(b)' = Due(certs', held', b)
  BY LiveAre, WithheldIs DEF Payable, Due, Worth
<1> QED BY <1>1, <1>2

LEMMA ApprovedIs ==
    ASSUME NEW b
    PROVE  Approved(b) = Cleared(certs, approvals, b) /\ Approved(b)' = Cleared(certs', approvals', b)
<1>1. Approved(b) = Cleared(certs, approvals, b)
  BY LiveAre, AppsOf DEF Approved, ApprovalsOn, Cleared
<1>2. Approved(b)' = Cleared(certs', approvals', b)
  BY LiveAre, AppsOf DEF Approved, ApprovalsOn, Cleared
<1> QED BY <1>1, <1>2

LEMMA PaidIs ==
    ASSUME NEW b
    PROVE  Paid(b) = Spent(certs, approvals, payments, b) /\ Paid(b)' = Spent(certs', approvals', payments', b)
<1>1. Paid(b) = Spent(certs, approvals, payments, b)
  BY LiveAre, PaysOf DEF Paid, PaidOn, PaymentsOn, ApprovalsOn, ApprOn, Spent
<1>2. Paid(b)' = Spent(certs', approvals', payments', b)
  BY LiveAre, PaysOf DEF Paid, PaidOn, PaymentsOn, ApprovalsOn, ApprOn, Spent
<1> QED BY <1>1, <1>2

LEMMA DerivedIs ==
    ASSUME NEW b
    PROVE  /\ Derived(b) = StatusOf(certs, held, approvals, payments, b)
           /\ Derived(b)' = StatusOf(certs', held', approvals', payments', b)
<1>1. Derived(b) = StatusOf(certs, held, approvals, payments, b)
  BY PayableIs, ApprovedIs, PaidIs DEF Derived, StatusOf, StatusFor
<1>2. Derived(b)' = StatusOf(certs', held', approvals', payments', b)
  BY PayableIs, ApprovedIs, PaidIs DEF Derived, StatusOf, StatusFor
<1> QED BY <1>1, <1>2

LEMMA RecoveredIs ==
    Recovered = Recs(held, LiveIn(certs)) /\ Recovered' = Recs(held', LiveIn(certs'))
<1>1. Recovered = Recs(held, LiveIn(certs))
  BY LiveAre, RecsOf DEF Recovered, Outstanding, HeldOn, Unreleased
<1>2. Recovered' = Recs(held', LiveIn(certs'))
  BY LiveAre, RecsOf DEF Recovered, Outstanding, HeldOn, Unreleased
<1> QED BY <1>1, <1>2

\* The same, of a bill that is found by way of the ledgers.
BillOfPayment(p) == BillOf(payments[p].approval)
BillOfHeld(h) == certs[held[h].cert].bill

LEMMA DerivedForApproval ==
    ASSUME NEW ap
    PROVE  Derived(BillOf(ap))' = StatusOf(certs', held', approvals', payments', BillOf(ap)')
<1>0. LiveCertOf(BillOf(ap))' = LiveOf(certs', BillOf(ap)') /\ CertsOf(BillOf(ap))' = CertsIn(certs', BillOf(ap)')
  BY DEF LiveCerts, LiveIn, LiveCertOf, LiveOf, CertsOf, CertsIn
<1>1. Payable(BillOf(ap))' = Due(certs', held', BillOf(ap)')
  BY <1>0, OutsOf DEF Payable, Due, Worth, Withheld, Outstanding, HeldOn, Unreleased
<1>2. Approved(BillOf(ap))' = Cleared(certs', approvals', BillOf(ap)')
  BY <1>0, AppsOf DEF Approved, ApprovalsOn, Cleared
<1>3. Paid(BillOf(ap))' = Spent(certs', approvals', payments', BillOf(ap)')
  BY <1>0, PaysOf DEF Paid, PaidOn, PaymentsOn, ApprovalsOn, ApprOn, Spent
<1> QED BY <1>1, <1>2, <1>3 DEF Derived, StatusOf, StatusFor

LEMMA DerivedForPayment ==
    ASSUME NEW p
    PROVE  Derived(BillOfPayment(p))' = StatusOf(certs', held', approvals', payments', BillOfPayment(p)')
<1>0. LiveCertOf(BillOfPayment(p))' = LiveOf(certs', BillOfPayment(p)') /\ CertsOf(BillOfPayment(p))' = CertsIn(certs', BillOfPayment(p)')
  BY DEF LiveCerts, LiveIn, LiveCertOf, LiveOf, CertsOf, CertsIn
<1>1. Payable(BillOfPayment(p))' = Due(certs', held', BillOfPayment(p)')
  BY <1>0, OutsOf DEF Payable, Due, Worth, Withheld, Outstanding, HeldOn, Unreleased
<1>2. Approved(BillOfPayment(p))' = Cleared(certs', approvals', BillOfPayment(p)')
  BY <1>0, AppsOf DEF Approved, ApprovalsOn, Cleared
<1>3. Paid(BillOfPayment(p))' = Spent(certs', approvals', payments', BillOfPayment(p)')
  BY <1>0, PaysOf DEF Paid, PaidOn, PaymentsOn, ApprovalsOn, ApprOn, Spent
<1> QED BY <1>1, <1>2, <1>3 DEF Derived, StatusOf, StatusFor

LEMMA DerivedForHeld ==
    ASSUME NEW h
    PROVE  Derived(BillOfHeld(h))' = StatusOf(certs', held', approvals', payments', BillOfHeld(h)')
<1>0. LiveCertOf(BillOfHeld(h))' = LiveOf(certs', BillOfHeld(h)') /\ CertsOf(BillOfHeld(h))' = CertsIn(certs', BillOfHeld(h)')
  BY DEF LiveCerts, LiveIn, LiveCertOf, LiveOf, CertsOf, CertsIn
<1>1. Payable(BillOfHeld(h))' = Due(certs', held', BillOfHeld(h)')
  BY <1>0, OutsOf DEF Payable, Due, Worth, Withheld, Outstanding, HeldOn, Unreleased
<1>2. Approved(BillOfHeld(h))' = Cleared(certs', approvals', BillOfHeld(h)')
  BY <1>0, AppsOf DEF Approved, ApprovalsOn, Cleared
<1>3. Paid(BillOfHeld(h))' = Spent(certs', approvals', payments', BillOfHeld(h)')
  BY <1>0, PaysOf DEF Paid, PaidOn, PaymentsOn, ApprovalsOn, ApprOn, Spent
<1> QED BY <1>1, <1>2, <1>3 DEF Derived, StatusOf, StatusFor

------------------------------------------------------------------------------
(* Bills, and what is claimed of a line.                                    *)

BillRow == [status: Statuses, claim: [Lines -> Nat], grants: SUBSET Grants]
BillsTyped(bs) == bs \in [Bills -> BillRow]

\* A bill whose lifecycle moved, and one whose claim was written as well.
Turned(v, w, s) == v.status = s /\ v.claim = w.claim /\ v.grants = {} /\ (s \in Statuses => v \in BillRow)
Written(v, claim, s) == v.status = s /\ v.claim = claim /\ v.grants = {} /\ (s \in Statuses => v \in BillRow)

LEMMA TurnedRow ==
    ASSUME NEW w \in BillRow, NEW s
    PROVE  Turned([w EXCEPT !.status = s, !.grants = {}], w, s)
  BY DEF BillRow, Turned

LEMMA WrittenRow ==
    ASSUME NEW w \in BillRow, NEW s, NEW claim \in [Lines -> Nat]
    PROVE  Written([w EXCEPT !.status = s, !.grants = {}, !.claim = claim], claim, s)
  BY DEF BillRow, Written

LEMMA MovedIs ==
    ASSUME BillsTyped(bills), NEW b \in Bills, NEW s
    PROVE  /\ Turned(Moved(b, s)[b], bills[b], s) /\ \A c \in Bills \ {b} : Moved(b, s)[c] = bills[c]
           /\ s \in Statuses => BillsTyped(Moved(b, s))
<1>1. bills[b] \in BillRow /\ DOMAIN bills = Bills /\ \A c \in Bills : bills[c] \in BillRow
  BY DEF BillsTyped
<1>2. Moved(b, s)[b] = [bills[b] EXCEPT !.status = s, !.grants = {}] /\ DOMAIN Moved(b, s) = Bills
  BY <1>1 DEF Moved
<1>3. \A c \in Bills \ {b} : Moved(b, s)[c] = bills[c]
  BY <1>1 DEF Moved
<1>4. Turned(Moved(b, s)[b], bills[b], s)
  BY <1>1, <1>2, TurnedRow
<1>5. s \in Statuses => BillsTyped(Moved(b, s))
  <2> SUFFICES ASSUME s \in Statuses PROVE BillsTyped(Moved(b, s))
    OBVIOUS
  <2>1. \A c \in Bills : Moved(b, s)[c] \in BillRow
    BY <1>1, <1>3, <1>4 DEF Turned
  <2>2. Moved(b, s) = [c \in Bills |-> Moved(b, s)[c]]
    BY <1>1 DEF Moved
  <2> QED BY <2>1, <2>2 DEF BillsTyped
<1> QED BY <1>3, <1>4, <1>5

LEMMA VersionedIs ==
    ASSUME BillsTyped(bills), NEW b \in Bills, NEW claim \in [Lines -> Nat], NEW s
    PROVE  /\ Written(Versioned(b, claim, s)[b], claim, s) /\ \A c \in Bills \ {b} : Versioned(b, claim, s)[c] = bills[c]
           /\ s \in Statuses => BillsTyped(Versioned(b, claim, s))
<1>1. bills[b] \in BillRow /\ DOMAIN bills = Bills /\ \A c \in Bills : bills[c] \in BillRow
  BY DEF BillsTyped
<1>2. Versioned(b, claim, s)[b] = [bills[b] EXCEPT !.status = s, !.grants = {}, !.claim = claim]
  BY <1>1 DEF Versioned, Moved
<1>3. \A c \in Bills \ {b} : Versioned(b, claim, s)[c] = bills[c]
  BY <1>1 DEF Versioned, Moved
<1>4. Written(Versioned(b, claim, s)[b], claim, s)
  <2> DEFINE w == bills[b]
  <2>1. w \in BillRow /\ claim \in [Lines -> Nat]
    BY <1>1
  <2> HIDE DEF w
  <2>2. Written([w EXCEPT !.status = s, !.grants = {}, !.claim = claim], claim, s)
    BY <2>1, WrittenRow
  <2> QED BY <1>2, <2>2 DEF w
<1>5. s \in Statuses => BillsTyped(Versioned(b, claim, s))
  <2> SUFFICES ASSUME s \in Statuses PROVE BillsTyped(Versioned(b, claim, s))
    OBVIOUS
  <2>1. \A c \in Bills : Versioned(b, claim, s)[c] \in BillRow
    BY <1>1, <1>3, <1>4 DEF Written
  <2>2. Versioned(b, claim, s) = [c \in Bills |-> Versioned(b, claim, s)[c]]
    BY <1>1 DEF Versioned, Moved
  <2> QED BY <2>1, <2>2 DEF BillsTyped
<1> QED BY <1>3, <1>4, <1>5

Claiming(bs, l) == [b \in InStatus(bs, Live) |-> bs[b].claim[l]]

LEMMA ClaimedIs ==
    ASSUME NEW bs, BillsTyped(bs), NEW l \in Lines
    PROVE  /\ IsFiniteSet(InStatus(bs, Live)) /\ Claiming(bs, l) \in [InStatus(bs, Live) -> Nat]
           /\ Claimed(bs, l) = SumFunction(Claiming(bs, l)) /\ Claimed(bs, l) \in Nat
<1>1. IsFiniteSet(InStatus(bs, Live))
  BY CommercialAssumption, FS_Subset DEF InStatus
<1>2. Claiming(bs, l) \in [InStatus(bs, Live) -> Nat]
  BY DEF Claiming, InStatus, BillsTyped, BillRow
<1>3. Claimed(bs, l) = SumFunction(Claiming(bs, l))
  BY DEF Claimed, Claiming
<1> QED BY <1>1, <1>2, <1>3, SumInNat

\* What is claimed of a line does not grow unless a claim on it is new.
OldClaims(bs, bs2, l) ==
    \A c \in Bills : bs2[c].status \in Live /\ bs2[c].claim[l] # 0 => bs[c].status \in Live /\ bs2[c].claim[l] = bs[c].claim[l]

LEMMA ClaimedFits ==
    ASSUME NEW bs, BillsTyped(bs), NEW bs2, BillsTyped(bs2), NEW l \in Lines, OldClaims(bs, bs2, l)
    PROVE  Claimed(bs2, l) <= Claimed(bs, l) /\ Claimed(bs2, l) \in Nat /\ Claimed(bs, l) \in Nat
<1> DEFINE S == InStatus(bs2, Live)
           T == InStatus(bs, Live)
           f == Claiming(bs2, l)
           k == Claiming(bs, l)
           m == [c \in Bills |-> c]
<1>1. IsFiniteSet(S) /\ f \in [S -> Nat] /\ Claimed(bs2, l) = SumFunction(f) /\ Claimed(bs2, l) \in Nat
  BY ClaimedIs
<1>2. IsFiniteSet(T) /\ k \in [T -> Nat] /\ Claimed(bs, l) = SumFunction(k) /\ Claimed(bs, l) \in Nat
  BY ClaimedIs
<1>3. \A c \in S : c \in Bills /\ (f[c] # 0 => c \in T /\ f[c] = k[c])
  BY DEF OldClaims, Claiming, InStatus
<1>4. \A c \in S : m[c] = c
  BY <1>3
<1> HIDE DEF S, T, f, k, m
<1>5. \A c \in T : k[c] <= k[c]
  BY <1>2
<1>6. Matches(f, k, m, S, T)
  BY <1>3, <1>4, <1>5 DEF Matches
<1>7. SumFunction(f) <= SumFunction(k)
  BY <1>1, <1>2, <1>6, SumFits
<1> QED BY <1>1, <1>2, <1>7

------------------------------------------------------------------------------
(* The invariant, of any values of the variables.                           *)

RowsTyped(rs) == rs \in [Rows -> [qty: Nat, by: SUBSET People]]
Grown(rs, l) == SumFunction([r \in RowsOf(l) |-> rs[r].qty])
FrozenIn(cs, r) == SumFunction([k \in LiveIn(cs) |-> cs[k].draws[r]])

ClaimsHold(bs, rs, op) ==
    \A l \in Lines : Claimed(bs, l) <= Grown(rs, l) /\ (Claimed(bs, l) > 0 => l \in op)

RowsHold(cs, rs) == \A r \in Rows : FrozenIn(cs, r) <= rs[r].qty
DrawsHold(cs, bs) == \A k \in LiveIn(cs), l \in Lines : Drawn(cs[k].draws, l) = bs[cs[k].bill].claim[l]

InOrder(bs, rc) ==
    rc \in Seq(Bills) /\ IsInjective(rc) /\ \A b \in Bills : bs[b].status # "none" <=> b \in ToSet(rc)

GroundTyped(rs, op, dn) == RowsTyped(rs) /\ op \subseteq Lines /\ dn \subseteq Labour

MoneyHolds(bs, cs, hs, aps, ps, adv) ==
    adv \in Nat /\ Book(cs, hs, aps, ps) /\ Recs(hs, LiveIn(cs)) <= adv /\ ShowsBook(bs, cs, hs, aps, ps)

LEMMA EvidenceIs ==
    /\ \A l : Evidence(l) = Grown(rows, l) /\ Evidence(l)' = Grown(rows', l)
    /\ \A r : Frozen(r) = FrozenIn(certs, r) /\ Frozen(r)' = FrozenIn(certs', r)
<1>1. \A l : Evidence(l) = Grown(rows, l) /\ Evidence(l)' = Grown(rows', l)
  BY DEF Evidence, Grown
<1>2. \A r : Frozen(r) = FrozenIn(certs, r) /\ Frozen(r)' = FrozenIn(certs', r)
  BY DEF Frozen, FrozenIn, LiveCerts, LiveIn
<1> QED BY <1>1, <1>2

LEMMA InvIs ==
    /\ VendorInv <=> /\ GroundTyped(rows, open, done) /\ BillsTyped(bills) /\ InOrder(bills, recent)
                     /\ MoneyHolds(bills, certs, held, approvals, payments, advanced)
                     /\ ClaimsHold(bills, rows, open) /\ RowsHold(certs, rows) /\ DrawsHold(certs, bills)
    /\ VendorInv' <=> /\ GroundTyped(rows', open', done') /\ BillsTyped(bills') /\ InOrder(bills', recent')
                      /\ MoneyHolds(bills', certs', held', approvals', payments', advanced')
                      /\ ClaimsHold(bills', rows', open') /\ RowsHold(certs', rows') /\ DrawsHold(certs', bills')
<1>1. TypeOK <=> /\ GroundTyped(rows, open, done) /\ BillsTyped(bills) /\ recent \in Seq(Bills) /\ IsInjective(recent)
                 /\ certs \in Seq(Certificates) /\ held \in Seq(Withholdings) /\ approvals \in Seq(Approvals)
                 /\ payments \in Seq(Payments) /\ advanced \in Nat
  BY DEF TypeOK, GroundTyped, RowsTyped, BillsTyped, BillRow, Approvals, Payments
<1>2. TypeOK' <=> /\ GroundTyped(rows', open', done') /\ BillsTyped(bills') /\ recent' \in Seq(Bills) /\ IsInjective(recent')
                  /\ certs' \in Seq(Certificates) /\ held' \in Seq(Withholdings) /\ approvals' \in Seq(Approvals)
                  /\ payments' \in Seq(Payments) /\ advanced' \in Nat
  BY DEF TypeOK, GroundTyped, RowsTyped, BillsTyped, BillRow, Approvals, Payments
<1>3. /\ LedgersLinked <=> BookLinked(certs, held, approvals, payments)
      /\ LedgersLinked' <=> BookLinked(certs', held', approvals', payments')
  BY DEF LedgersLinked, BookLinked, HeldLinked, ApprovalsLinked, PaymentsLinked, OneStands
<1>4. /\ VersionsOrdered <=> \A b \in Bills : bills[b].status # "none" <=> b \in ToSet(recent)
      /\ VersionsOrdered' <=> \A b \in Bills : bills'[b].status # "none" <=> b \in ToSet(recent')
  BY DEF VersionsOrdered, ToSet
<1>5. CashIsCovered <=> CashOnLive(certs, approvals, payments) /\ BillsCovered(certs, held, approvals, payments)
  <2>1. \A b \in Bills : (\A k \in LiveCerts : certs[k].bill = b => Paid(b) <= Approved(b) /\ Approved(b) <= Payable(b))
                           <=> BillCovered(certs, held, approvals, payments, b)
    <3> TAKE b \in Bills
    <3>1. (\E k \in LiveCerts : certs[k].bill = b) <=> LiveOf(certs, b) # {}
      BY LiveAre DEF LiveOf, CertsIn, LiveIn
    <3> QED BY <3>1, PaidIs, ApprovedIs, PayableIs DEF BillCovered
  <2> QED BY <2>1, LiveAre DEF CashIsCovered, CashOnLive, BillsCovered
<1>6. CashIsCovered' <=> CashOnLive(certs', approvals', payments') /\ BillsCovered(certs', held', approvals', payments')
  <2>1. \A b \in Bills : (\A k \in LiveCerts' : certs'[k].bill = b => Paid(b)' <= Approved(b)' /\ Approved(b)' <= Payable(b)')
                           <=> BillCovered(certs', held', approvals', payments', b)
    <3> TAKE b \in Bills
    <3>1. (\E k \in LiveCerts' : certs'[k].bill = b) <=> LiveOf(certs', b) # {}
      BY LiveAre DEF LiveOf, CertsIn, LiveIn
    <3> QED BY <3>1, PaidIs, ApprovedIs, PayableIs DEF BillCovered
  <2> QED BY <2>1, LiveAre DEF CashIsCovered, CashOnLive, BillsCovered
<1>7. StatusIsDerived <=> ShowsBook(bills, certs, held, approvals, payments)
  BY LiveAre, DerivedIs DEF StatusIsDerived, ShowsBook
<1>8. StatusIsDerived' <=> ShowsBook(bills', certs', held', approvals', payments')
  BY LiveAre, DerivedIs DEF StatusIsDerived, ShowsBook
<1>9. /\ RecoveryWithinAdvance <=> Recs(held, LiveIn(certs)) <= advanced
      /\ RecoveryWithinAdvance' <=> Recs(held', LiveIn(certs')) <= advanced'
  BY RecoveredIs DEF RecoveryWithinAdvance
<1>10. ClaimsWithinEvidence <=> ClaimsHold(bills, rows, open)
  BY EvidenceIs DEF ClaimsWithinEvidence, ClaimsHold
<1>11. ClaimsWithinEvidence' <=> ClaimsHold(bills', rows', open')
  BY EvidenceIs DEF ClaimsWithinEvidence, ClaimsHold, Claimed, InStatus
<1>12. FrozenEvidenceStands <=> RowsHold(certs, rows) /\ DrawsHold(certs, bills)
  BY EvidenceIs, LiveAre DEF FrozenEvidenceStands, RowsHold, DrawsHold
<1>13. FrozenEvidenceStands' <=> RowsHold(certs', rows') /\ DrawsHold(certs', bills')
  BY EvidenceIs, LiveAre DEF FrozenEvidenceStands, RowsHold, DrawsHold, Drawn, RowsOf
<1>14. \A hs : HeldLinked(certs, hs) => \A h \in DOMAIN hs : hs[h].released <= hs[h].amount
  BY DEF HeldLinked
<1>15. /\ Book(certs, held, approvals, payments) <=>
              /\ certs \in Seq(Certificates) /\ held \in Seq(Withholdings) /\ approvals \in Seq(Approvals) /\ payments \in Seq(Payments)
              /\ BookLinked(certs, held, approvals, payments)
              /\ CashOnLive(certs, approvals, payments) /\ BillsCovered(certs, held, approvals, payments)
       /\ Book(certs', held', approvals', payments') <=>
              /\ certs' \in Seq(Certificates) /\ held' \in Seq(Withholdings) /\ approvals' \in Seq(Approvals) /\ payments' \in Seq(Payments)
              /\ BookLinked(certs', held', approvals', payments')
              /\ CashOnLive(certs', approvals', payments') /\ BillsCovered(certs', held', approvals', payments')
  BY DEF Book, BookTyped, HeldSound, PaidSound, BookLinked, HeldLinked, PaymentsLinked
<1>16. VendorInv <=> /\ GroundTyped(rows, open, done) /\ BillsTyped(bills) /\ InOrder(bills, recent)
                     /\ MoneyHolds(bills, certs, held, approvals, payments, advanced)
                     /\ ClaimsHold(bills, rows, open) /\ RowsHold(certs, rows) /\ DrawsHold(certs, bills)
  BY <1>1, <1>3, <1>4, <1>5, <1>7, <1>9, <1>10, <1>12, <1>15 DEF VendorInv, InOrder, MoneyHolds
<1>17. VendorInv' <=> /\ GroundTyped(rows', open', done') /\ BillsTyped(bills') /\ InOrder(bills', recent')
                      /\ MoneyHolds(bills', certs', held', approvals', payments', advanced')
                      /\ ClaimsHold(bills', rows', open') /\ RowsHold(certs', rows') /\ DrawsHold(certs', bills')
  BY <1>2, <1>3, <1>4, <1>6, <1>8, <1>9, <1>11, <1>13, <1>15 DEF VendorInv, InOrder, MoneyHolds
<1> QED BY <1>16, <1>17

------------------------------------------------------------------------------
(* What a command leaves of the claims and the frozen evidence.             *)

LEMMA ClaimsStay ==
    ASSUME NEW bs, BillsTyped(bs), NEW bs2, BillsTyped(bs2), NEW rs, RowsTyped(rs), NEW op, ClaimsHold(bs, rs, op),
           \A c \in Bills : bs2[c].status \in Live => bs[c].status \in Live /\ bs2[c].claim = bs[c].claim
    PROVE  ClaimsHold(bs2, rs, op)
<1> SUFFICES ASSUME NEW l \in Lines PROVE Claimed(bs2, l) <= Grown(rs, l) /\ (Claimed(bs2, l) > 0 => l \in op)
  BY DEF ClaimsHold
<1>1. OldClaims(bs, bs2, l)
  BY DEF OldClaims
<1>2. Claimed(bs2, l) <= Claimed(bs, l) /\ Claimed(bs2, l) \in Nat /\ Claimed(bs, l) \in Nat
  BY <1>1, ClaimedFits
<1>3. Grown(rs, l) \in Nat
  <2> DEFINE f == [r \in RowsOf(l) |-> rs[r].qty]
  <2>1. IsFiniteSet(RowsOf(l)) /\ f \in [RowsOf(l) -> Nat]
    BY CommercialAssumption, FS_Subset DEF RowsOf, RowsTyped
  <2>2. Grown(rs, l) = SumFunction(f)
    BY DEF Grown
  <2> HIDE DEF f
  <2> QED BY <2>1, <2>2, SumInNat
<1>4. Claimed(bs, l) <= Grown(rs, l) /\ (Claimed(bs, l) > 0 => l \in op)
  BY DEF ClaimsHold
<1>5. Claimed(bs2, l) <= Grown(rs, l)
  BY <1>2, <1>3, <1>4
<1>6. Claimed(bs2, l) > 0 => l \in op
  BY <1>2, <1>4
<1> QED BY <1>5, <1>6

\* A bill past certification is one whose claim is live, and was recorded.
LEMMA PastIsLive == PastCertification \subseteq Live /\ Live \subseteq Statuses /\ "none" \notin Live
                    /\ {"draft", "disputed", "resolved", "rejected", "none"} \cap Live = {}
  BY DEF PastCertification, Live, Statuses

\* A command that moves one bill, to a status that shows its books.
LEMMA MoneyKeeps ==
    ASSUME VendorInv, NEW b \in Bills, UNCHANGED <<evidenceVars, recent, certs>>,
           Moves(certs, held, approvals, payments, certs, held', approvals', payments', b),
           advanced' \in Nat, Recs(held', LiveIn(certs)) <= advanced', NEW s, bills' = Moved(b, s),
           bills[b].status \in PastCertification => s = StatusOf(certs, held', approvals', payments', b),
           bills[b].status \notin PastCertification => s = bills[b].status
    PROVE  VendorInv'
<1>0. UNCHANGED <<rows, open, done, recent, certs>>
  BY DEF evidenceVars
<1>1. /\ GroundTyped(rows, open, done) /\ BillsTyped(bills) /\ InOrder(bills, recent)
      /\ MoneyHolds(bills, certs, held, approvals, payments, advanced)
      /\ ClaimsHold(bills, rows, open) /\ RowsHold(certs, rows) /\ DrawsHold(certs, bills)
  BY InvIs
<1>2. s \in Statuses /\ (s \in PastCertification <=> bills[b].status \in PastCertification)
      /\ (s \in Live <=> bills[b].status \in Live) /\ (s = "none" <=> bills[b].status = "none")
  <2>1. bills[b].status \in Statuses
    BY <1>1 DEF BillsTyped, BillRow
  <2>2. bills[b].status \in PastCertification => s \in PastCertification
    BY StatusIsPast DEF StatusOf
  <2> QED BY <2>1, <2>2, PastIsLive
<1>3. /\ Turned(bills'[b], bills[b], s) /\ BillsTyped(bills') /\ \A c \in Bills \ {b} : bills'[c] = bills[c]
  BY <1>1, <1>2, MovedIs
<1>4. \A c \in Bills : /\ bills'[c].claim = bills[c].claim /\ (bills'[c].status \in Live <=> bills[c].status \in Live)
                       /\ bills'[c].status = "none" <=> bills[c].status = "none"
  BY <1>2, <1>3 DEF Turned
<1>5. InOrder(bills', recent')
  BY <1>0, <1>1, <1>4 DEF InOrder
<1>6. ClaimsHold(bills', rows', open')
  BY <1>0, <1>1, <1>3, <1>4, ClaimsStay DEF GroundTyped
<1>7. DrawsHold(certs', bills')
  <2>1. \A k \in LiveIn(certs) : certs[k].bill \in Bills
    <3>1. \A k \in DOMAIN certs : certs[k] \in Certificates
      BY <1>1, SeqFinite DEF MoneyHolds, Book, BookTyped
    <3> QED BY <3>1 DEF LiveIn, Certificates
  <2> QED BY <1>0, <1>1, <1>4, <2>1 DEF DrawsHold
<1>8. ShowsBook(bills', certs', held', approvals', payments')
  <2>1. ShowsBook(bills, certs, held, approvals, payments)
        /\ OthersStand(certs, held, approvals, payments, certs, held', approvals', payments', b)
    BY <1>1 DEF MoneyHolds, Moves
  <2>2. \A c \in Bills \ {b} : bills'[c].status = bills[c].status
    BY <1>3
  <2>3. bills'[b].status = s
    BY <1>3 DEF Turned
  <2>4. bills'[b].status \in PastCertification <=> LiveOf(certs, b) # {}
    BY <1>2, <2>1, <2>3 DEF ShowsBook
  <2>5. bills'[b].status \in PastCertification => bills'[b].status = StatusOf(certs, held', approvals', payments', b)
    BY <1>2, <2>3
  <2> QED BY <1>0, <2>1, <2>2, <2>4, <2>5, ShowsStays
<1>9. MoneyHolds(bills', certs', held', approvals', payments', advanced')
  BY <1>0, <1>8 DEF MoneyHolds, Moves
<1>10. GroundTyped(rows', open', done') /\ RowsHold(certs', rows')
  BY <1>0, <1>1
<1> QED BY <1>3, <1>5, <1>6, <1>7, <1>9, <1>10, InvIs

\* The bill of a live certificate is past certification, and what it shows.
LEMMA LiveBill ==
    ASSUME VendorInv, NEW b \in Bills
    PROVE  /\ Book(certs, held, approvals, payments) /\ advanced \in Nat /\ Recs(held, LiveIn(certs)) <= advanced
           /\ bills[b].status \in PastCertification <=> LiveOf(certs, b) # {}
           /\ Due(certs, held, b) \in Int /\ Cleared(certs, approvals, b) \in Nat /\ Spent(certs, approvals, payments, b) \in Nat
           /\ LiveCertOf(b) = LiveOf(certs, b) /\ Payable(b) = Due(certs, held, b)
           /\ Approved(b) = Cleared(certs, approvals, b) /\ Paid(b) = Spent(certs, approvals, payments, b)
           /\ Derived(b)' = StatusOf(certs', held', approvals', payments', b)
<1>1. MoneyHolds(bills, certs, held, approvals, payments, advanced)
  BY InvIs
<1>2. Book(certs, held, approvals, payments) /\ ShowsBook(bills, certs, held, approvals, payments)
      /\ advanced \in Nat /\ Recs(held, LiveIn(certs)) <= advanced
  BY <1>1 DEF MoneyHolds
<1>3. bills[b].status \in PastCertification <=> LiveOf(certs, b) # {}
  BY <1>2 DEF ShowsBook
<1>4. Due(certs, held, b) \in Int /\ Cleared(certs, approvals, b) \in Nat /\ Spent(certs, approvals, payments, b) \in Nat
  BY <1>2, FoldsTyped DEF Book
<1> QED BY <1>2, <1>3, <1>4, LiveAre, PayableIs, ApprovedIs, PaidIs, DerivedIs

LEMMA ApproveKeeps ==
    ASSUME VendorInv, NEW b \in Bills, NEW p \in People, NEW a \in Amounts, NEW x \in Signers, Approve(b, p, a, x)
    PROVE  VendorInv'
<1>0. PICK k \in LiveCertOf(b) :
        /\ a <= Payable(b) - Approved(b)
        /\ approvals' = Append(approvals, [cert |-> k, amount |-> a, by |-> p, excusedBy |-> x])
        /\ UNCHANGED <<certs, held, payments, advanced, evidenceVars, recent>>
        /\ bills' = Rederived(b)
  BY DEF Approve
<1> DEFINE w == [cert |-> k, amount |-> a, by |-> p, excusedBy |-> x]
           s == IF bills[b].status \in PastCertification THEN Derived(b)' ELSE bills[b].status
<1>1. a \in Nat
  BY CommercialAssumption
<1>2. k \in LiveOf(certs, b) /\ a <= Due(certs, held, b) - Cleared(certs, approvals, b)
  BY <1>0, LiveBill
<1>3. Book(certs, held, approvals, payments) /\ advanced \in Nat /\ Recs(held, LiveIn(certs)) <= advanced
  BY LiveBill
<1>4. k \in Nat
  <2>1. k \in DOMAIN certs /\ certs \in Seq(Certificates)
    BY <1>2, <1>3 DEF LiveOf, CertsIn, Book, BookTyped
  <2> QED BY <2>1
<1>5. w \in Approvals /\ w.cert = k /\ w.amount = a
  BY <1>1, <1>4 DEF Approvals
<1>6. approvals' = Append(approvals, w) /\ UNCHANGED <<evidenceVars, recent, certs>> /\ held' = held
      /\ payments' = payments /\ advanced' = advanced
  BY <1>0
<1>7. bills' = Moved(b, s)
  BY <1>0 DEF Rederived
<1>8. /\ bills[b].status \in PastCertification => s = StatusOf(certs, held', approvals', payments', b)
      /\ bills[b].status \notin PastCertification => s = bills[b].status
  BY <1>6, LiveBill
<1> HIDE DEF w, s
<1>9. Cleared(certs, approvals, b) + w.amount <= Due(certs, held, b)
  BY <1>1, <1>2, <1>5, LiveBill
<1>10. Moves(certs, held, approvals, payments, certs, held', approvals', payments', b)
  BY <1>2, <1>3, <1>5, <1>6, <1>9, BookApprove
<1> QED BY <1>3, <1>6, <1>7, <1>8, <1>10, MoneyKeeps

LEMMA PayKeeps ==
    ASSUME VendorInv, NEW ap \in DOMAIN approvals, NEW a \in Amounts, Pay(ap, a)
    PROVE  VendorInv'
<1> DEFINE b == certs[approvals[ap].cert].bill
           w == [approval |-> ap, amount |-> a, back |-> 0]
           s == IF bills[b].status \in PastCertification THEN StatusOf(certs, held', approvals', payments', b)
                ELSE bills[b].status
<1>0. /\ approvals[ap].cert \in LiveCerts /\ a <= Approved(BillOf(ap)) - Paid(BillOf(ap))
      /\ payments' = Append(payments, w) /\ UNCHANGED <<certs, held, approvals, advanced, evidenceVars, recent>>
      /\ bills' = Rederived(BillOf(ap)) /\ BillOf(ap) = b
  BY DEF Pay, PayFits, BillOf
<1>1. a \in Nat
  BY CommercialAssumption
<1>2. Book(certs, held, approvals, payments) /\ approvals[ap].cert \in LiveIn(certs)
  BY <1>0, LiveAre, InvIs DEF MoneyHolds
<1>3. b \in Bills
  BY <1>2, SpentMoves
<1>4. advanced \in Nat /\ Recs(held, LiveIn(certs)) <= advanced
  BY <1>3, LiveBill
<1>5. w \in Payments /\ w.approval = ap /\ w.back = 0 /\ w.amount = a
  <2>1. ap \in Nat
    <3>1. approvals \in Seq(Approvals)
      BY <1>2 DEF Book, BookTyped
    <3> QED BY <3>1
  <2> QED BY <1>1, <2>1 DEF Payments
<1>6. bills' = Moved(b, s)
  <2>1. BillOf(ap)' = b
    BY <1>0 DEF BillOf
  <2>2. Derived(BillOf(ap))' = StatusOf(certs, held', approvals', payments', b)
    BY <1>0, <2>1, DerivedForApproval
  <2>3. bills' = Moved(BillOf(ap), IF bills[BillOf(ap)].status \in PastCertification THEN Derived(BillOf(ap))' ELSE bills[BillOf(ap)].status)
    BY <1>0 DEF Rederived
  <2> HIDE DEF b
  <2> QED BY <1>0, <2>2, <2>3
<1>7. /\ bills[b].status \in PastCertification => s = StatusOf(certs, held', approvals', payments', b)
      /\ bills[b].status \notin PastCertification => s = bills[b].status
  OBVIOUS
<1>8. Spent(certs, approvals, payments, b) + w.amount <= Cleared(certs, approvals, b)
  <2>1. a <= Approved(b) - Paid(b)
    BY <1>0
  <2> HIDE DEF b, w
  <2>2. a <= Cleared(certs, approvals, b) - Spent(certs, approvals, payments, b)
        /\ Cleared(certs, approvals, b) \in Nat /\ Spent(certs, approvals, payments, b) \in Nat
    BY <1>3, <2>1, LiveBill
  <2> QED BY <1>1, <1>5, <2>2
<1>9. b = certs[approvals[ap].cert].bill
  OBVIOUS
<1> HIDE DEF b, w, s
<1>10. Moves(certs, held, approvals, payments, certs, held, approvals, Append(payments, w), b)
  BY <1>2, <1>5, <1>8, <1>9, BookPay
<1>11. Moves(certs, held, approvals, payments, certs, held', approvals', payments', b)
  BY <1>0, <1>10
<1> QED BY <1>0, <1>3, <1>4, <1>6, <1>7, <1>11, MoneyKeeps

LEMMA ReversePaymentKeeps ==
    ASSUME VendorInv, NEW p \in DOMAIN payments, NEW a \in Amounts, ReversePayment(p, a)
    PROVE  VendorInv'
<1> DEFINE b == certs[approvals[payments[p].approval].cert].bill
           s == IF bills[b].status \in PastCertification THEN StatusOf(certs, held', approvals', payments', b)
                ELSE bills[b].status
<1>0. /\ a <= payments[p].amount - payments[p].back
      /\ payments' = Reversed(payments, p, a) /\ UNCHANGED <<certs, held, approvals, advanced, evidenceVars, recent>>
      /\ bills' = Rederived(BillOfPayment(p)) /\ BillOfPayment(p) = b
  BY DEF ReversePayment, Reversed, BillOf, BillOfPayment
<1>1. a \in Nat
  BY CommercialAssumption
<1>2. Book(certs, held, approvals, payments)
  BY InvIs DEF MoneyHolds
<1>3. payments[p].approval \in DOMAIN approvals /\ PaidSound(payments)
  BY <1>2 DEF Book, BookTyped, BookLinked, PaymentsLinked
<1>4. b \in Bills
  BY <1>2, <1>3, SpentMoves
<1>5. advanced \in Nat /\ Recs(held, LiveIn(certs)) <= advanced
  BY <1>4, LiveBill
<1>6. payments'[p].approval = payments[p].approval
  BY <1>0, <1>1, <1>3, PaysReverse
<1>7. bills' = Moved(b, s)
  <2>1. BillOfPayment(p)' = b
    BY <1>0, <1>6 DEF BillOfPayment, BillOf
  <2>2. Derived(BillOfPayment(p))' = StatusOf(certs, held', approvals', payments', b)
    BY <1>0, <2>1, DerivedForPayment
  <2>3. bills' = Moved(BillOfPayment(p), IF bills[BillOfPayment(p)].status \in PastCertification
                                         THEN Derived(BillOfPayment(p))' ELSE bills[BillOfPayment(p)].status)
    BY <1>0 DEF Rederived
  <2> HIDE DEF b
  <2> QED BY <1>0, <2>2, <2>3
<1>8. /\ bills[b].status \in PastCertification => s = StatusOf(certs, held', approvals', payments', b)
      /\ bills[b].status \notin PastCertification => s = bills[b].status
  OBVIOUS
<1>9. b = certs[approvals[payments[p].approval].cert].bill
  OBVIOUS
<1> HIDE DEF b, s
<1>10. Moves(certs, held, approvals, payments, certs, held, approvals, Reversed(payments, p, a), b)
  BY <1>0, <1>1, <1>2, <1>9, BookReverse
<1>11. Moves(certs, held, approvals, payments, certs, held', approvals', payments', b)
  BY <1>0, <1>10
<1> QED BY <1>0, <1>4, <1>5, <1>7, <1>8, <1>11, MoneyKeeps

LEMMA DeductKeeps ==
    ASSUME VendorInv, NEW b \in Bills, NEW kind \in {"advance-recovery", "retention"}, NEW a \in Amounts, Deduct(b, kind, a)
    PROVE  VendorInv'
<1>0. PICK k \in LiveCertOf(b) :
        /\ a <= certs[k].amount - Withheld(b)
        /\ kind = "advance-recovery" => Recovered + a <= advanced
        /\ Approved(b) > 0 => Approved(b) <= Payable(b) - a
        /\ held' = Append(held, [cert |-> k, kind |-> kind, amount |-> a, released |-> 0, from |-> 0])
        /\ UNCHANGED <<certs, approvals, payments, advanced, evidenceVars, recent>>
        /\ bills' = Rederived(b)
  BY DEF Deduct
<1> DEFINE w == [cert |-> k, kind |-> kind, amount |-> a, released |-> 0, from |-> 0]
           s == IF bills[b].status \in PastCertification THEN Derived(b)' ELSE bills[b].status
<1>1. a \in Nat
  BY CommercialAssumption
<1>2. k \in LiveOf(certs, b)
  BY <1>0, LiveBill
<1>3. Book(certs, held, approvals, payments) /\ advanced \in Nat /\ Recs(held, LiveIn(certs)) <= advanced
  BY LiveBill
<1>4. k \in Nat /\ certs \in Seq(Certificates) /\ OneStands(certs) /\ HeldSound(held)
  <2>1. k \in DOMAIN certs /\ certs \in Seq(Certificates)
    BY <1>2, <1>3 DEF LiveOf, CertsIn, Book, BookTyped
  <2>2. OneStands(certs) /\ HeldSound(held)
    BY <1>3 DEF Book, BookTyped, BookLinked
  <2> QED BY <2>1, <2>2
<1>5. w \in Withholdings /\ w.cert = k /\ w.released = 0 /\ w.amount = a /\ w.kind = kind
  BY <1>1, <1>4 DEF Withholdings
<1>6. held' = Append(held, w) /\ UNCHANGED <<evidenceVars, recent, certs>> /\ approvals' = approvals
      /\ payments' = payments /\ advanced' = advanced
  BY <1>0
<1>7. bills' = Moved(b, s)
  BY <1>0 DEF Rederived
<1>8. /\ bills[b].status \in PastCertification => s = StatusOf(certs, held', approvals', payments', b)
      /\ bills[b].status \notin PastCertification => s = bills[b].status
  BY <1>6, LiveBill
<1> HIDE DEF w, s
<1>9. Cleared(certs, approvals, b) <= Due(certs, held, b) - w.amount
  <2>1. Cleared(certs, approvals, b) > 0 => Cleared(certs, approvals, b) <= Due(certs, held, b) - a
    BY <1>0, LiveBill
  <2>2. certs[k].amount = Worth(certs, b) /\ k \in LiveIn(certs)
    BY <1>2, <1>4, LiveIsOne
  <2>3. 0 <= Due(certs, held, b) - a
    <3>1. a <= Worth(certs, b) - Outs(held, LiveOf(certs, b))
      BY <1>0, <2>2, WithheldIs
    <3>2. a <= Due(certs, held, b) /\ Due(certs, held, b) \in Int
      BY <3>1, LiveBill DEF Due
    <3> QED BY <1>1, <3>2
  <2>4. Cleared(certs, approvals, b) \in Nat
    BY LiveBill
  <2> QED BY <1>5, <2>1, <2>3, <2>4
<1>10. Moves(certs, held, approvals, payments, certs, held', approvals', payments', b)
  BY <1>2, <1>3, <1>5, <1>6, <1>9, BookDeduct
<1>11. Recs(held', LiveIn(certs)) <= advanced'
  <2>0. w.released <= w.amount /\ w.amount - w.released = a
    BY <1>1, <1>5
  <2>1. kind = "advance-recovery" => Recs(held, LiveIn(certs)) + a <= advanced
    BY <1>0, RecoveredIs
  <2>2. k \in LiveIn(certs)
    BY <1>2, <1>4, LiveIsOne
  <2>3. CASE kind = "advance-recovery"
    <3>1. Recs(held', LiveIn(certs)) = Recs(held, LiveIn(certs)) + a
      BY <1>4, <1>5, <1>6, <2>0, <2>2, <2>3, RecsAppend
    <3> QED BY <1>6, <2>1, <2>3, <3>1
  <2>4. CASE kind # "advance-recovery"
    <3>1. Recs(held', LiveIn(certs)) = Recs(held, LiveIn(certs))
      BY <1>4, <1>5, <1>6, <2>0, <2>4, RecsAppend
    <3> QED BY <1>3, <1>6, <3>1
  <2> QED BY <2>3, <2>4
<1> QED BY <1>3, <1>6, <1>7, <1>8, <1>10, <1>11, MoneyKeeps

LEMMA ReleaseKeeps ==
    ASSUME VendorInv, NEW h \in DOMAIN held, NEW a \in Amounts, ReleaseDeduction(h, a)
    PROVE  VendorInv'
<1> DEFINE b == certs[held[h].cert].bill
           s == IF bills[b].status \in PastCertification THEN StatusOf(certs, held', approvals', payments', b)
                ELSE bills[b].status
<1>0. /\ a <= held[h].amount - held[h].released
      /\ held' = Given(held, h, a) /\ UNCHANGED <<certs, approvals, payments, advanced, evidenceVars, recent>>
      /\ bills' = Rederived(BillOfHeld(h)) /\ BillOfHeld(h) = b
  BY DEF ReleaseDeduction, Given, Unreleased, BillOfHeld
<1>1. a \in Nat
  BY CommercialAssumption
<1>2. Book(certs, held, approvals, payments)
  BY InvIs DEF MoneyHolds
<1>3. held[h].cert \in DOMAIN certs /\ HeldSound(held) /\ certs \in Seq(Certificates)
  BY <1>2 DEF Book, BookTyped, BookLinked, HeldLinked
<1>4. b \in Bills
  <2>1. certs[held[h].cert] \in Certificates
    BY <1>3, SeqFinite
  <2> QED BY <2>1 DEF Certificates
<1>5. advanced \in Nat /\ Recs(held, LiveIn(certs)) <= advanced
  BY <1>4, LiveBill
<1>6. held'[h].cert = held[h].cert
  <2>1. CertOf(held') = CertOf(held)
    BY <1>0, <1>1, <1>3, GivenIs
  <2>2. h \in DOMAIN held'
    BY <2>1 DEF CertOf
  <2> QED BY <2>1, <2>2 DEF CertOf
<1>7. bills' = Moved(b, s)
  <2>1. BillOfHeld(h)' = b
    BY <1>0, <1>6 DEF BillOfHeld
  <2>2. Derived(BillOfHeld(h))' = StatusOf(certs, held', approvals', payments', b)
    BY <1>0, <2>1, DerivedForHeld
  <2>3. bills' = Moved(BillOfHeld(h), IF bills[BillOfHeld(h)].status \in PastCertification
                                      THEN Derived(BillOfHeld(h))' ELSE bills[BillOfHeld(h)].status)
    BY <1>0 DEF Rederived
  <2> HIDE DEF b
  <2> QED BY <1>0, <2>2, <2>3
<1>8. /\ bills[b].status \in PastCertification => s = StatusOf(certs, held', approvals', payments', b)
      /\ bills[b].status \notin PastCertification => s = bills[b].status
  OBVIOUS
<1>9. b = certs[held[h].cert].bill
  OBVIOUS
<1> HIDE DEF b, s
<1>10. Moves(certs, held, approvals, payments, certs, Given(held, h, a), approvals, payments, b)
  BY <1>0, <1>1, <1>2, <1>9, BookRelease
<1>11. Moves(certs, held, approvals, payments, certs, held', approvals', payments', b)
  BY <1>0, <1>10
<1>12. Recs(held', LiveIn(certs)) <= advanced'
  <2>1. Recs(held', LiveIn(certs)) <= Recs(held, LiveIn(certs)) /\ Recs(held', LiveIn(certs)) \in Nat
        /\ Recs(held, LiveIn(certs)) \in Nat
    BY <1>0, <1>1, <1>3, RecsGive
  <2> QED BY <1>0, <1>5, <2>1
<1> QED BY <1>0, <1>4, <1>5, <1>7, <1>8, <1>11, <1>12, MoneyKeeps

LEMMA PayAdvanceKeeps ==
    ASSUME VendorInv, NEW a \in Amounts, PayAdvance(a)
    PROVE  VendorInv'
<1>0. a \in Nat /\ advanced' = advanced + a /\ UNCHANGED <<rows, open, done, bills, recent, certs, held, approvals, payments>>
  BY CommercialAssumption DEF PayAdvance, evidenceVars
<1>1. MoneyHolds(bills, certs, held, approvals, payments, advanced)
  BY InvIs
<1>2. HeldSound(held)
  BY <1>1 DEF MoneyHolds, Book, BookTyped
<1>3. Recs(held, LiveIn(certs)) \in Nat
  BY <1>2, HeldLedger, PartIs DEF Recs
<1>4. advanced \in Nat /\ Recs(held, LiveIn(certs)) <= advanced
  BY <1>1 DEF MoneyHolds
<1>5. advanced' \in Nat /\ Recs(held, LiveIn(certs)) <= advanced'
  BY <1>0, <1>3, <1>4
<1>6. MoneyHolds(bills', certs', held', approvals', payments', advanced')
  BY <1>0, <1>1, <1>5 DEF MoneyHolds
<1> QED BY <1>0, <1>6, InvIs

------------------------------------------------------------------------------
(* The life of a claim keeps the invariant.                                 *)

LEMMA GrownTyped ==
    ASSUME NEW rs, RowsTyped(rs), NEW l
    PROVE  /\ IsFiniteSet(RowsOf(l)) /\ [r \in RowsOf(l) |-> rs[r].qty] \in [RowsOf(l) -> Nat]
           /\ Grown(rs, l) \in Nat
<1> DEFINE f == [r \in RowsOf(l) |-> rs[r].qty]
<1>1. IsFiniteSet(RowsOf(l)) /\ f \in [RowsOf(l) -> Nat]
  BY CommercialAssumption, FS_Subset DEF RowsOf, RowsTyped
<1>2. Grown(rs, l) = SumFunction(f)
  BY DEF Grown
<1> HIDE DEF f
<1>3. Grown(rs, l) \in Nat
  BY <1>1, <1>2, SumInNat
<1> QED BY <1>1, <1>3 DEF f

\* One bill is new among the claims: it is held against its bounds.
LEMMA ClaimsFit ==
    ASSUME BillsTyped(bills), RowsTyped(rows), ClaimsHold(bills, rows, open), NEW b \in Bills,
           NEW bs2, BillsTyped(bs2), \A c \in Bills \ {b} : bs2[c] = bills[c],
           bs2[b].status \in Live => BoundsHold(bs2, b)
    PROVE  ClaimsHold(bs2, rows, open)
<1> SUFFICES ASSUME NEW l \in Lines PROVE Claimed(bs2, l) <= Grown(rows, l) /\ (Claimed(bs2, l) > 0 => l \in open)
  BY DEF ClaimsHold
<1>1. Grown(rows, l) \in Nat /\ Claimed(bills, l) <= Grown(rows, l) /\ (Claimed(bills, l) > 0 => l \in open)
  BY GrownTyped DEF ClaimsHold
<1>2. CASE bs2[b].status \in Live /\ bs2[b].claim[l] > 0
  BY <1>2, EvidenceIs DEF BoundsHold
<1>3. CASE ~(bs2[b].status \in Live /\ bs2[b].claim[l] > 0)
  <2>1. bs2[b].claim[l] \in Nat
    BY DEF BillsTyped, BillRow
  <2>2. OldClaims(bills, bs2, l)
    BY <1>3, <2>1 DEF OldClaims
  <2>3. Claimed(bs2, l) <= Claimed(bills, l) /\ Claimed(bs2, l) \in Nat /\ Claimed(bills, l) \in Nat
    BY <2>2, ClaimedFits
  <2> QED BY <1>1, <2>3
<1> QED BY <1>2, <1>3

\* Money and certificates stand, and so do the bills they are about.
LEMMA ClaimMoveKeeps ==
    ASSUME VendorInv, UNCHANGED moneyVars, BillsTyped(bills'), InOrder(bills', recent'),
           GroundTyped(rows', open', done'), ClaimsHold(bills', rows', open'), RowsHold(certs, rows'),
           \A c \in Bills : \/ bills'[c].status = bills[c].status /\ bills'[c].claim = bills[c].claim
                            \/ bills'[c].status \notin PastCertification /\ bills[c].status \notin PastCertification
    PROVE  VendorInv'
<1>0. certs' = certs /\ held' = held /\ approvals' = approvals /\ payments' = payments /\ advanced' = advanced
  BY DEF moneyVars
<1>1. MoneyHolds(bills, certs, held, approvals, payments, advanced) /\ DrawsHold(certs, bills)
  BY InvIs
<1>2. ShowsBook(bills, certs, held, approvals, payments)
  BY <1>1 DEF MoneyHolds
<1>3. ShowsBook(bills', certs, held, approvals, payments)
  BY <1>2 DEF ShowsBook
<1>4. MoneyHolds(bills', certs', held', approvals', payments', advanced')
  BY <1>0, <1>1, <1>3 DEF MoneyHolds
<1>5. \A k \in LiveIn(certs) : certs[k].bill \in Bills /\ bills[certs[k].bill].status \in PastCertification
  <2> TAKE k \in LiveIn(certs)
  <2>1. certs[k].bill \in Bills
    <3>1. certs[k] \in Certificates
      BY <1>1, SeqFinite DEF MoneyHolds, Book, BookTyped, LiveIn
    <3> QED BY <3>1 DEF Certificates
  <2>2. k \in LiveOf(certs, certs[k].bill)
    BY DEF LiveOf, CertsIn, LiveIn
  <2> QED BY <1>2, <2>1, <2>2 DEF ShowsBook
<1>6. DrawsHold(certs', bills')
  BY <1>0, <1>1, <1>5 DEF DrawsHold
<1> QED BY <1>0, <1>4, <1>6, InvIs

\* The bill moves on, before certification, and its claim is as it was.
LEMMA TurnKeeps ==
    ASSUME VendorInv, NEW b \in Bills, UNCHANGED <<evidenceVars, recent, moneyVars>>, NEW s \in Statuses, bills' = Moved(b, s),
           bills[b].status \notin PastCertification, s \notin PastCertification, bills[b].status # "none", s # "none",
           s \in Live => bills[b].status \in Live \/ BoundsHold(bills', b)
    PROVE  VendorInv'
<1>0. UNCHANGED <<rows, open, done, recent>> /\ UNCHANGED moneyVars
  BY DEF evidenceVars
<1>1. /\ GroundTyped(rows, open, done) /\ BillsTyped(bills) /\ InOrder(bills, recent)
      /\ ClaimsHold(bills, rows, open) /\ RowsHold(certs, rows)
  BY InvIs
<1>2. /\ Turned(bills'[b], bills[b], s) /\ BillsTyped(bills') /\ \A c \in Bills \ {b} : bills'[c] = bills[c]
  BY <1>1, MovedIs
<1>3. bills'[b].status = s /\ bills'[b].claim = bills[b].claim
  BY <1>2 DEF Turned
<1>4. InOrder(bills', recent')
  BY <1>0, <1>1, <1>2, <1>3 DEF InOrder
<1>5. ClaimsHold(bills', rows, open)
  <2>1. CASE s \in Live /\ bills[b].status \notin Live
    BY <1>1, <1>2, <2>1, ClaimsFit DEF GroundTyped
  <2>2. CASE ~(s \in Live /\ bills[b].status \notin Live)
    <3>1. \A c \in Bills : bills'[c].status \in Live => bills[c].status \in Live /\ bills'[c].claim = bills[c].claim
      BY <1>2, <1>3, <2>2
    <3> QED BY <1>1, <1>2, <3>1, ClaimsStay DEF GroundTyped
  <2> QED BY <2>1, <2>2
<1> QED BY <1>0, <1>1, <1>2, <1>3, <1>4, <1>5, ClaimMoveKeeps

LEMMA SubmitKeeps == ASSUME VendorInv, NEW b \in Bills, Submit(b) PROVE VendorInv'
<1> DEFINE s == IF BoundsHold(Moved(b, "submitted"), b) THEN "submitted" ELSE "disputed"
<1>1. bills[b].status = "draft" /\ bills' = Moved(b, s) /\ UNCHANGED <<evidenceVars, recent, moneyVars>>
  BY DEF Submit
<1>2. s \in Live => BoundsHold(bills', b)
  BY <1>1, PastIsLive
<1>3. s \in Statuses /\ s \notin PastCertification /\ s # "none" /\ "draft" \notin PastCertification
  BY DEF Statuses, Live, PastCertification
<1> QED BY <1>1, <1>2, <1>3, TurnKeeps

LEMMA BeginVerificationKeeps == ASSUME VendorInv, NEW b \in Bills, BeginVerification(b) PROVE VendorInv'
<1>1. bills[b].status = "submitted" /\ bills' = Moved(b, "under-verification") /\ UNCHANGED <<evidenceVars, recent, moneyVars>>
  BY DEF BeginVerification
<1>2. "under-verification" \in Statuses \ PastCertification /\ "submitted" \in Live \ PastCertification
  BY DEF Statuses, Live, PastCertification
<1> QED BY <1>1, <1>2, TurnKeeps

LEMMA VerifyKeeps == ASSUME VendorInv, NEW b \in Bills, Verify(b) PROVE VendorInv'
<1> DEFINE s == IF Matched(b) THEN "verified" ELSE "disputed"
<1>1. bills[b].status = "under-verification" /\ bills' = Moved(b, s) /\ UNCHANGED <<evidenceVars, recent, moneyVars>>
  BY DEF Verify
<1>2. s \in Statuses \ PastCertification /\ s # "none" /\ "under-verification" \in Live \ PastCertification
  BY DEF Statuses, Live, PastCertification
<1> QED BY <1>1, <1>2, TurnKeeps

LEMMA RejectKeeps == ASSUME VendorInv, NEW b \in Bills, Reject(b) PROVE VendorInv'
<1>1. /\ bills[b].status \in {"draft", "submitted", "under-verification", "disputed", "verified"}
      /\ bills' = Moved(b, "rejected") /\ UNCHANGED <<evidenceVars, recent, moneyVars>>
  BY DEF Reject
<1>2. "rejected" \in Statuses \ PastCertification /\ "rejected" \notin Live
      /\ bills[b].status \notin PastCertification /\ bills[b].status # "none"
  BY <1>1 DEF Statuses, Live, PastCertification
<1> QED BY <1>1, <1>2, TurnKeeps

\* A bill that enters the order, and one that leaves its place in it.
LEMMA OrderAppend ==
    ASSUME NEW X, NEW s, s \in Seq(X), IsInjective(s), NEW x \in X, x \notin ToSet(s)
    PROVE  Append(s, x) \in Seq(X) /\ IsInjective(Append(s, x)) /\ ToSet(Append(s, x)) = ToSet(s) \cup {x}
<1> DEFINE n == Len(s) + 1
           t == Append(s, x)
<1>1. /\ DOMAIN t = DOMAIN s \cup {n} /\ n \notin DOMAIN s /\ t[n] = x /\ t \in Seq(X)
      /\ \A i \in DOMAIN s : t[i] = s[i]
  BY Appended
<1> HIDE DEF n, t
<1>2. \A i \in DOMAIN s : s[i] # x
  BY DEF ToSet
<1>3. IsInjective(t)
  BY <1>1, <1>2 DEF IsInjective
<1>4. ToSet(t) = ToSet(s) \cup {x}
  BY <1>1 DEF ToSet
<1> QED BY <1>1, <1>3, <1>4 DEF t

LEMMA OrderRemove ==
    ASSUME NEW X, NEW s, s \in Seq(X), IsInjective(s), NEW i \in DOMAIN s
    PROVE  RemoveAt(s, i) \in Seq(X) /\ IsInjective(RemoveAt(s, i)) /\ ToSet(RemoveAt(s, i)) = ToSet(s) \ {s[i]}
<1> DEFINE n == Len(s)
           t == RemoveAt(s, i)
<1>1. n \in Nat /\ DOMAIN s = 1 .. n /\ i \in 1 .. n
  BY SeqFinite
<1>2. t \in Seq(X) /\ DOMAIN t = 1 .. (n - 1) /\ \A j \in 1 .. (n - 1) : t[j] = s[IF j < i THEN j ELSE j + 1]
  <2> DEFINE p == SubSeq(s, 1, i - 1)
             q == SubSeq(s, i + 1, n)
  <2>0. \A j \in 1 .. n : s[j] \in X
    BY <1>1
  <2>1. p \in Seq(X) /\ Len(p) = i - 1 /\ \A j \in 1 .. (i - 1) : p[j] = s[j]
    BY <1>1, <2>0, SubSeqProperties
  <2>2. q \in Seq(X) /\ Len(q) = n - i /\ \A j \in 1 .. (n - i) : q[j] = s[i + j]
    <3>1. \A j \in (i + 1) .. n : s[j] \in X
      BY <1>1, <2>0
    <3>2. /\ q \in Seq(X) /\ Len(q) = IF i + 1 <= n THEN n - (i + 1) + 1 ELSE 0
          /\ \A j \in 1 .. n - (i + 1) + 1 : q[j] = s[(i + 1) + j - 1]
      BY <1>1, <3>1, SubSeqProperties
    <3>3. n - (i + 1) + 1 = n - i /\ \A j \in 1 .. (n - i) : (i + 1) + j - 1 = i + j
      BY <1>1
    <3> HIDE DEF q
    <3> QED BY <1>1, <3>2, <3>3
  <2>3. t = p \o q
    BY DEF RemoveAt
  <2> HIDE DEF t, n, p, q
  <2>4. /\ t \in Seq(X) /\ Len(t) = n - 1
        /\ \A j \in 1 .. (n - 1) : t[j] = IF j <= i - 1 THEN p[j] ELSE q[j - (i - 1)]
    <3>1. /\ p \o q \in Seq(X) /\ Len(p \o q) = Len(p) + Len(q)
          /\ \A j \in 1 .. Len(p) + Len(q) : (p \o q)[j] = IF j <= Len(p) THEN p[j] ELSE q[j - Len(p)]
      BY <2>1, <2>2, ConcatProperties
    <3>2. Len(p) + Len(q) = n - 1
      BY <1>1, <2>1, <2>2
    <3> QED BY <2>1, <2>3, <3>1, <3>2
  <2>5. DOMAIN t = 1 .. (n - 1)
    BY <2>4
  <2>6. \A j \in 1 .. (n - 1) : t[j] = s[IF j < i THEN j ELSE j + 1]
    <3> TAKE j \in 1 .. (n - 1)
    <3>1. CASE j < i
      <4>1. j <= i - 1 /\ j \in 1 .. (i - 1)
        BY <1>1, <3>1
      <4> QED BY <2>1, <2>4, <3>1, <4>1
    <3>2. CASE ~(j < i)
      <4>1. ~(j <= i - 1) /\ j - (i - 1) \in 1 .. (n - i) /\ i + (j - (i - 1)) = j + 1
        BY <1>1, <3>2
      <4>2. t[j] = q[j - (i - 1)] /\ q[j - (i - 1)] = s[i + (j - (i - 1))]
        BY <2>2, <2>4, <4>1
      <4> QED BY <3>2, <4>1, <4>2
    <3> QED BY <3>1, <3>2
  <2> QED BY <2>4, <2>5, <2>6
<1> HIDE DEF t, n
<1> DEFINE was(j) == IF j < i THEN j ELSE j + 1
<1>w. /\ \A j \in 1 .. (n - 1) : was(j) \in 1 .. n /\ was(j) # i
      /\ \A j, k \in 1 .. (n - 1) : was(j) = was(k) => j = k
  BY <1>1
<1>t. \A j \in 1 .. (n - 1) : t[j] = s[was(j)]
  BY <1>2
<1> HIDE DEF was
<1>3. IsInjective(t)
  BY <1>1, <1>2, <1>w, <1>t DEF IsInjective
<1>4. \A y \in ToSet(t) : y \in ToSet(s) /\ y # s[i]
  BY <1>1, <1>2, <1>w, <1>t DEF IsInjective, ToSet
<1>5. \A y \in ToSet(s) : y # s[i] => y \in ToSet(t)
  <2> SUFFICES ASSUME NEW j \in 1 .. n, s[j] # s[i] PROVE s[j] \in ToSet(t)
    BY <1>1 DEF ToSet
  <2>1. CASE j < i
    <3>1. j \in 1 .. (n - 1) /\ t[j] = s[j]
      BY <1>1, <1>2, <2>1
    <3> QED BY <1>2, <3>1 DEF ToSet
  <2>2. CASE j > i
    <3>1. j - 1 \in 1 .. (n - 1) /\ ~(j - 1 < i) /\ (j - 1) + 1 = j
      BY <1>1, <2>2
    <3>2. t[j - 1] = s[j]
      BY <1>2, <3>1
    <3> QED BY <1>2, <3>1, <3>2 DEF ToSet
  <2> QED BY <1>1, <2>1, <2>2
<1>6. ToSet(t) = ToSet(s) \ {s[i]}
  BY <1>4, <1>5
<1> QED BY <1>2, <1>3, <1>6 DEF t

LEMMA PlaceIs ==
    ASSUME InOrder(bills, recent), NEW b \in ToSet(recent)
    PROVE  Place(b) \in DOMAIN recent /\ recent[Place(b)] = b
  BY DEF Place, ToSet

LEMMA ClaimTyped == ASSUME NEW claim \in Claims PROVE claim \in [Lines -> Nat]
<1>1. claim \in [Lines -> Amounts \cup {0}]
  BY DEF Claims
<1>2. Amounts \cup {0} \subseteq Nat
  BY CommercialAssumption
<1> QED BY <1>1, <1>2

LEMMA RecordKeeps == ASSUME VendorInv, NEW b \in Bills, NEW claim \in Claims, Record(b, claim) PROVE VendorInv'
<1>0. /\ bills[b].status = "none" /\ bills' = Versioned(b, claim, "draft") /\ recent' = Append(recent, b)
      /\ UNCHANGED <<rows, open, done>> /\ UNCHANGED moneyVars
  BY DEF Record, evidenceVars
<1>1. /\ GroundTyped(rows, open, done) /\ BillsTyped(bills) /\ InOrder(bills, recent)
      /\ ClaimsHold(bills, rows, open) /\ RowsHold(certs, rows)
  BY InvIs
<1>2. claim \in [Lines -> Nat]
  BY ClaimTyped
<1>3. "draft" \in Statuses /\ "draft" \notin PastCertification /\ "draft" \notin Live /\ "none" \notin PastCertification
  BY DEF Statuses, Live, PastCertification
<1>4. /\ Written(bills'[b], claim, "draft") /\ BillsTyped(bills') /\ \A c \in Bills \ {b} : bills'[c] = bills[c]
  BY <1>0, <1>1, <1>2, <1>3, VersionedIs
<1>5. bills'[b].status = "draft"
  BY <1>4 DEF Written
<1>6. recent \in Seq(Bills) /\ IsInjective(recent) /\ b \notin ToSet(recent)
  BY <1>0, <1>1 DEF InOrder
<1>7. recent' \in Seq(Bills) /\ IsInjective(recent') /\ ToSet(recent') = ToSet(recent) \cup {b}
  BY <1>0, <1>6, OrderAppend
<1>8. InOrder(bills', recent')
  BY <1>1, <1>4, <1>5, <1>7 DEF InOrder
<1>9. ClaimsHold(bills', rows, open)
  BY <1>1, <1>3, <1>4, <1>5, ClaimsFit DEF GroundTyped
<1> QED BY <1>0, <1>1, <1>3, <1>4, <1>5, <1>8, <1>9, ClaimMoveKeeps

LEMMA AmendedIs ==
    ASSUME BillsTyped(bills), NEW b \in Bills, NEW claim \in [Lines -> Nat],
           bills[b].status = "disputed" => BoundsHold(Versioned(b, claim, "submitted"), b)
    PROVE  \E s \in {"submitted", "disputed", "resolved"} :
              Amended(b, claim) = Versioned(b, claim, s) /\ (s \in Live => BoundsHold(Versioned(b, claim, s), b))
<1>1. CASE bills[b].status = "disputed"
  BY <1>1, PastIsLive DEF Amended
<1>2. CASE bills[b].status # "disputed" /\ BoundsHold(Versioned(b, claim, "submitted"), b)
  BY <1>2 DEF Amended
<1>3. CASE bills[b].status # "disputed" /\ ~BoundsHold(Versioned(b, claim, "submitted"), b)
  BY <1>3, PastIsLive DEF Amended
<1> QED BY <1>1, <1>2, <1>3

LEMMA AmendKeeps == ASSUME VendorInv, NEW b \in Bills, NEW claim \in Claims, Amend(b, claim) PROVE VendorInv'
<1>0. /\ bills[b].status \in {"submitted", "verified", "disputed"} /\ bills' = Amended(b, claim)
      /\ bills[b].status = "disputed" => BoundsHold(Versioned(b, claim, "submitted"), b)
      /\ recent' = Append(RemoveAt(recent, Place(b)), b) /\ UNCHANGED <<rows, open, done>> /\ UNCHANGED moneyVars
  BY DEF Amend, evidenceVars, Reversioned
<1>1. /\ GroundTyped(rows, open, done) /\ BillsTyped(bills) /\ InOrder(bills, recent)
      /\ ClaimsHold(bills, rows, open) /\ RowsHold(certs, rows)
  BY InvIs
<1>2. claim \in [Lines -> Nat]
  BY ClaimTyped
<1>3. PICK s \in {"submitted", "disputed", "resolved"} :
         Amended(b, claim) = Versioned(b, claim, s) /\ (s \in Live => BoundsHold(Versioned(b, claim, s), b))
  BY <1>0, <1>1, <1>2, AmendedIs
<1>4. s \in Statuses /\ s \notin PastCertification /\ s # "none"
      /\ bills[b].status \notin PastCertification /\ bills[b].status # "none"
  BY <1>0 DEF Statuses, Live, PastCertification
<1>5. /\ Written(bills'[b], claim, s) /\ BillsTyped(bills') /\ \A c \in Bills \ {b} : bills'[c] = bills[c]
  BY <1>0, <1>1, <1>2, <1>3, <1>4, VersionedIs
<1>6. bills'[b].status = s
  BY <1>5 DEF Written
<1>7. recent \in Seq(Bills) /\ IsInjective(recent) /\ b \in ToSet(recent)
  BY <1>1, <1>4 DEF InOrder
<1>8. Place(b) \in DOMAIN recent /\ recent[Place(b)] = b
  BY <1>1, <1>7, PlaceIs
<1> DEFINE rest == RemoveAt(recent, Place(b))
<1>9. rest \in Seq(Bills) /\ IsInjective(rest) /\ ToSet(rest) = ToSet(recent) \ {b}
  BY <1>7, <1>8, OrderRemove
<1>10. recent' = Append(rest, b)
  BY <1>0
<1> HIDE DEF rest
<1>11. recent' \in Seq(Bills) /\ IsInjective(recent') /\ ToSet(recent') = ToSet(rest) \cup {b}
  BY <1>9, <1>10, OrderAppend
<1>12. InOrder(bills', recent')
  BY <1>1, <1>4, <1>5, <1>6, <1>7, <1>9, <1>11 DEF InOrder
<1>13. ClaimsHold(bills', rows, open)
  BY <1>0, <1>1, <1>3, <1>5, <1>6, ClaimsFit DEF GroundTyped
<1> QED BY <1>0, <1>1, <1>4, <1>5, <1>6, <1>12, <1>13, ClaimMoveKeeps

LEMMA GrantedRow ==
    ASSUME NEW w \in BillRow, NEW g \in SUBSET Grants
    PROVE  /\ [w EXCEPT !.grants = g] \in BillRow
           /\ [w EXCEPT !.grants = g].status = w.status /\ [w EXCEPT !.grants = g].claim = w.claim
  BY DEF BillRow

LEMMA GrantExceptionKeeps ==
    ASSUME VendorInv, NEW b \in Bills, NEW rule \in {"certify", "approve"}, NEW p \in People, NEW x \in People,
           GrantException(b, rule, p, x)
    PROVE  VendorInv'
<1> DEFINE w == bills[b]
           g == w.grants \cup {[rule |-> rule, actor |-> p, approver |-> x]}
<1>0. /\ bills' = [bills EXCEPT ![b] = [w EXCEPT !.grants = g]]
      /\ UNCHANGED <<rows, open, done, recent>> /\ UNCHANGED moneyVars
  BY DEF GrantException, evidenceVars
<1>1. /\ GroundTyped(rows, open, done) /\ BillsTyped(bills) /\ InOrder(bills, recent)
      /\ ClaimsHold(bills, rows, open) /\ RowsHold(certs, rows)
  BY InvIs
<1>2. w \in BillRow /\ w.grants \in SUBSET Grants
  BY <1>1 DEF BillsTyped, BillRow
<1>3. g \in SUBSET Grants
  BY <1>2 DEF Grants
<1> HIDE DEF w, g
<1> DEFINE v == [w EXCEPT !.grants = g]
<1>4. v \in BillRow /\ v.status = w.status /\ v.claim = w.claim
  BY <1>2, <1>3, GrantedRow
<1>5. bills' = [bills EXCEPT ![b] = v]
  BY <1>0
<1> HIDE DEF v
<1>6. BillsTyped(bills') /\ \A c \in Bills : bills'[c].status = bills[c].status /\ bills'[c].claim = bills[c].claim
  BY <1>1, <1>4, <1>5 DEF BillsTyped, w
<1>7. InOrder(bills', recent')
  BY <1>0, <1>1, <1>6 DEF InOrder
<1>8. ClaimsHold(bills', rows, open)
  BY <1>1, <1>6, ClaimsStay DEF GroundTyped
<1> QED BY <1>0, <1>1, <1>6, <1>7, <1>8, ClaimMoveKeeps

------------------------------------------------------------------------------
(* What a certificate freezes.                                              *)

LEMMA FrozenTyped ==
    ASSUME NEW cs, cs \in Seq(Certificates), NEW r \in Rows
    PROVE  /\ IsFiniteSet(LiveIn(cs)) /\ LiveIn(cs) \subseteq DOMAIN cs
           /\ [k \in LiveIn(cs) |-> cs[k].draws[r]] \in [LiveIn(cs) -> Nat] /\ FrozenIn(cs, r) \in Nat
<1> DEFINE S == LiveIn(cs)
           f == [k \in S |-> cs[k].draws[r]]
<1>1. IsFiniteSet(DOMAIN cs) /\ \A k \in DOMAIN cs : cs[k] \in Certificates
  BY SeqFinite
<1>2. S \subseteq DOMAIN cs
  BY DEF LiveIn
<1>3. IsFiniteSet(S)
  BY <1>1, <1>2, FS_Subset
<1>4. \A k \in DOMAIN cs : cs[k].draws \in [Rows -> Nat]
  BY <1>1 DEF Certificates
<1>5. f \in [S -> Nat]
  BY <1>2, <1>4
<1>6. FrozenIn(cs, r) = SumFunction(f)
  BY DEF FrozenIn
<1> HIDE DEF f, S
<1>7. FrozenIn(cs, r) \in Nat
  BY <1>3, <1>5, <1>6, SumInNat
<1> QED BY <1>2, <1>3, <1>5, <1>7 DEF f, S

LEMMA FrozenAppend ==
    ASSUME NEW cs, cs \in Seq(Certificates), NEW z \in Certificates, z.live, NEW r \in Rows
    PROVE  FrozenIn(Append(cs, z), r) = FrozenIn(cs, r) + z.draws[r]
<1> DEFINE n == Len(cs) + 1
           cs2 == Append(cs, z)
           S == LiveIn(cs)
           T == LiveIn(cs2)
           f == [k \in S |-> cs[k].draws[r]]
           g == [k \in T |-> cs2[k].draws[r]]
<1>1. /\ DOMAIN cs2 = DOMAIN cs \cup {n} /\ n \notin DOMAIN cs /\ cs2[n] = z /\ cs2 \in Seq(Certificates)
      /\ \A i \in DOMAIN cs : cs2[i] = cs[i]
  BY Appended
<1> HIDE DEF cs2, n
<1>2. T = S \cup {n} /\ n \notin S /\ S \subseteq DOMAIN cs
  BY <1>1 DEF LiveIn
<1>3. /\ IsFiniteSet(S) /\ f \in [S -> Nat] /\ FrozenIn(cs, r) = SumFunction(f)
      /\ IsFiniteSet(T) /\ g \in [T -> Nat] /\ FrozenIn(cs2, r) = SumFunction(g)
  BY <1>1, FrozenTyped DEF FrozenIn
<1>4. (\A k \in S : f[k] = g[k]) /\ g[n] = z.draws[r]
  BY <1>1, <1>2
<1> HIDE DEF f, g, S, T
<1>5. /\ SumFunction(f) \in Nat /\ SumFunction(g) \in Nat
      /\ SumFunction(g) + At(f, S, n) = SumFunction(f) + At(g, T, n)
  BY <1>2, <1>3, <1>4, OneChanges
<1>6. At(f, S, n) = 0 /\ At(g, T, n) = g[n] /\ g[n] \in Nat
  BY <1>2, <1>3 DEF At
<1>7. SumFunction(g) = SumFunction(f) + g[n]
  BY <1>5, <1>6
<1> QED BY <1>3, <1>4, <1>7 DEF cs2

LEMMA FrozenDead ==
    ASSUME NEW cs, cs \in Seq(Certificates), NEW k \in DOMAIN cs, NEW r \in Rows
    PROVE  FrozenIn(Dead(cs, k), r) <= FrozenIn(cs, r) /\ FrozenIn(Dead(cs, k), r) \in Nat /\ FrozenIn(cs, r) \in Nat
<1> DEFINE cs2 == Dead(cs, k)
           S == LiveIn(cs2)
           T == LiveIn(cs)
           f == [j \in S |-> cs2[j].draws[r]]
           g == [j \in T |-> cs[j].draws[r]]
<1>1. /\ cs2 \in Seq(Certificates) /\ DOMAIN cs2 = DOMAIN cs /\ S = T \ {k}
      /\ \A i \in DOMAIN cs : cs2[i].draws = cs[i].draws
  BY DeadIs
<1> HIDE DEF cs2
<1>2. /\ IsFiniteSet(S) /\ f \in [S -> Nat] /\ FrozenIn(cs2, r) = SumFunction(f) /\ FrozenIn(cs2, r) \in Nat
      /\ IsFiniteSet(T) /\ g \in [T -> Nat] /\ FrozenIn(cs, r) = SumFunction(g) /\ FrozenIn(cs, r) \in Nat
      /\ T \subseteq DOMAIN cs
  BY <1>1, FrozenTyped DEF FrozenIn
<1>3. \A j \in S : f[j] = g[j]
  BY <1>1, <1>2
<1>4. S \subseteq T
  BY <1>1
<1> HIDE DEF f, g, S, T
<1>5. \A j \in S : f[j] <= g[j]
  <2> TAKE j \in S
  <2>1. f[j] \in Nat /\ f[j] = g[j]
    BY <1>2, <1>3
  <2> QED BY <2>1
<1>6. SumFunction(f) <= SumFunction(g)
  BY <1>2, <1>4, <1>5, SumGrows
<1> QED BY <1>2, <1>6 DEF cs2

\* A certificate draws no more of a row than other certificates left of it.
LEMMA DrawsFit ==
    ASSUME RowsTyped(rows), BillsTyped(bills), certs \in Seq(Certificates), RowsHold(certs, rows), NEW b \in Bills
    PROVE  /\ Draws(b) \in [Rows -> Nat]
           /\ \A r \in Rows : FrozenIn(certs, r) + Draws(b)[r] <= rows[r].qty
<1>1. \A r \in Rows : /\ Available(r) \in Nat /\ Available(r) = rows[r].qty - FrozenIn(certs, r)
                      /\ FrozenIn(certs, r) \in Nat /\ rows[r].qty \in Nat
  <2> TAKE r \in Rows
  <2>1. FrozenIn(certs, r) \in Nat /\ rows[r].qty \in Nat /\ FrozenIn(certs, r) <= rows[r].qty
    BY FrozenTyped DEF RowsTyped, RowsHold
  <2> DEFINE x == rows[r].qty - FrozenIn(certs, r)
  <2>2. x \in Int /\ x >= 0
    BY <2>1
  <2>3. Available(r) = Max({0, x})
    BY EvidenceIs DEF Available
  <2> HIDE DEF x
  <2>4. Available(r) \in Nat /\ Available(r) = x
    BY <2>2, <2>3, AtLeastZero
  <2> QED BY <2>1, <2>4 DEF x
<1>2. \A r \in Rows : Wanted(b, r) \in Nat
  <2> TAKE r \in Rows
  <2> DEFINE f == [s \in Before(r) |-> Available(s)]
             x == bills[b].claim[LineOf[r]] - SumFunction(f)
  <2>1. Before(r) \subseteq Rows
    BY DEF Before, RowsOf
  <2>2. IsFiniteSet(Before(r)) /\ f \in [Before(r) -> Nat]
    BY <1>1, <2>1, CommercialAssumption, FS_Subset
  <2>3. Wanted(b, r) = Max({0, x})
    BY DEF Wanted
  <2>4. bills[b].claim[LineOf[r]] \in Nat
    BY CommercialAssumption DEF BillsTyped, BillRow
  <2> HIDE DEF f
  <2>5. SumFunction(f) \in Nat
    BY <2>2, SumInNat
  <2>6. x \in Int
    BY <2>4, <2>5
  <2> HIDE DEF x
  <2> QED BY <2>3, <2>6, AtLeastZero
<1>3. \A r \in Rows : Draws(b)[r] \in Nat /\ Draws(b)[r] <= Available(r)
  <2> TAKE r \in Rows
  <2>1. Draws(b)[r] = Min({Available(r), Wanted(b, r)})
    BY DEF Draws
  <2> QED BY <1>1, <1>2, <2>1, LesserOf
<1>4. Draws(b) \in [Rows -> Nat]
  BY <1>3 DEF Draws
<1>5. \A r \in Rows : FrozenIn(certs, r) + Draws(b)[r] <= rows[r].qty
  <2> TAKE r \in Rows
  <2> DEFINE d == Draws(b)[r]
             x == FrozenIn(certs, r)
             q == rows[r].qty
  <2>1. d \in Nat /\ x \in Nat /\ q \in Nat /\ d <= q - x
    BY <1>1, <1>3
  <2> HIDE DEF d, x, q
  <2>2. x + d <= q
    BY <2>1
  <2> QED BY <2>2 DEF d, x, q
<1> QED BY <1>4, <1>5

\* The withholdings that a new certificate takes over.
LEMMA LastHeld ==
    ASSUME NEW b, NEW n
    PROVE  /\ Restated(b, n) = RowsOn(held, {LastCert(b)}, n)
           /\ Outstanding(HeldOn({LastCert(b)})) = Outs(held, {LastCert(b)})
<1>1. HeldOn({LastCert(b)}) = RowsWith(CertOf(held), {LastCert(b)})
  BY DEF HeldOn, RowsWith, CertOf
<1>2. Restated(b, n) = RowsOn(held, {LastCert(b)}, n)
  BY <1>1 DEF Restated, RowsOn
<1>3. Outstanding(HeldOn({LastCert(b)})) = Outs(held, {LastCert(b)})
  BY OutsOf DEF Outstanding, HeldOn, Unreleased
<1> QED BY <1>2, <1>3

LEMMA CertifyKeeps ==
    ASSUME VendorInv, NEW b \in Bills, NEW p \in People, NEW x \in Signers, Certify(b, p, x)
    PROVE  VendorInv'
<1> DEFINE amount == SumFunction([l \in Lines |-> bills[b].claim[l]])
           z == [bill |-> b, amount |-> amount, live |-> TRUE, by |-> p, excusedBy |-> x, draws |-> Draws(b)]
           n == Len(certs) + 1
           K == {LastCert(b)}
           s == Derived(b)'
<1>0. /\ bills[b].status = "verified" /\ Drawable(b) /\ Outstanding(HeldOn(K)) <= amount
      /\ certs' = Append(certs, z) /\ held' = held \o Restated(b, n)
      /\ UNCHANGED <<rows, open, done, recent>> /\ approvals' = approvals /\ payments' = payments /\ advanced' = advanced
      /\ Recovered' <= advanced /\ bills' = Moved(b, s)
  BY DEF Certify, evidenceVars, RecoveryFits
<1>1. /\ GroundTyped(rows, open, done) /\ BillsTyped(bills) /\ InOrder(bills, recent)
      /\ MoneyHolds(bills, certs, held, approvals, payments, advanced)
      /\ ClaimsHold(bills, rows, open) /\ RowsHold(certs, rows) /\ DrawsHold(certs, bills)
  BY InvIs
<1>2. /\ Book(certs, held, approvals, payments) /\ ShowsBook(bills, certs, held, approvals, payments)
      /\ certs \in Seq(Certificates) /\ HeldSound(held) /\ HeldLinked(certs, held)
  BY <1>1 DEF MoneyHolds, Book, BookTyped, BookLinked
<1>3. "verified" \in Live /\ "verified" \notin PastCertification
  BY DEF Live, PastCertification
<1>4. LiveOf(certs, b) = {}
  BY <1>0, <1>3, LiveBill
<1>5. Draws(b) \in [Rows -> Nat] /\ \A r \in Rows : FrozenIn(certs, r) + Draws(b)[r] <= rows[r].qty
  BY <1>1, <1>2, DrawsFit DEF GroundTyped
<1>6. amount \in Nat
  <2> DEFINE f == [l \in Lines |-> bills[b].claim[l]]
  <2>1. f \in [Lines -> Nat] /\ IsFiniteSet(Lines)
    BY <1>1, CommercialAssumption DEF BillsTyped, BillRow
  <2> HIDE DEF f
  <2>2. SumFunction(f) \in Nat
    BY <2>1, SumInNat
  <2> QED BY <2>2 DEF f
<1>7. z.bill = b /\ z.amount = amount /\ z.live /\ z.draws = Draws(b)
  OBVIOUS
<1>8. z \in Certificates
  BY <1>5, <1>6 DEF Certificates
<1> HIDE DEF z, amount, s
<1>9. n \in Nat /\ n \notin DOMAIN certs /\ DOMAIN certs' = DOMAIN certs \cup {n} /\ certs'[n] = z
      /\ \A i \in DOMAIN certs : certs'[i] = certs[i]
  BY <1>0, <1>2, <1>8, Appended
<1> HIDE DEF n
<1>10. held' = held \o RowsOn(held, K, n) /\ Outs(held, K) <= amount
  BY <1>0, LastHeld
<1> HIDE DEF K
<1>11. Extended(held, held', n) /\ Outs(held', {n}) <= z.amount
  <2>1. Extended(held, held \o RowsOn(held, K, n), n) /\ Outs(held \o RowsOn(held, K, n), {n}) = Outs(held, K)
    BY <1>2, <1>9, CarriedOver
  <2> QED BY <1>7, <1>10, <2>1
<1>12. Moves(certs, held, approvals, payments, certs', held', approvals', payments', b) /\ LiveOf(certs', b) = {n}
  <2>1. certs' = Append(certs, z)
    BY <1>0
  <2>2. Moves(certs, held, approvals, payments, Append(certs, z), held', approvals, payments, b) /\ LiveOf(Append(certs, z), b) = {n}
    BY <1>2, <1>4, <1>7, <1>8, <1>11, BookCertify DEF n
  <2> QED BY <1>0, <2>1, <2>2
<1>13. s = StatusOf(certs', held', approvals', payments', b)
  BY LiveBill DEF s
<1>14. s \in PastCertification /\ s \in Live /\ s \in Statuses /\ s # "none"
  BY <1>13, StatusIsPast, PastIsLive DEF StatusOf
<1>15. /\ Turned(bills'[b], bills[b], s) /\ BillsTyped(bills') /\ \A c \in Bills \ {b} : bills'[c] = bills[c]
  BY <1>0, <1>1, <1>14, MovedIs
<1>16. bills'[b].status = s /\ bills'[b].claim = bills[b].claim
  BY <1>15 DEF Turned
<1>17. InOrder(bills', recent')
  BY <1>0, <1>1, <1>14, <1>15, <1>16 DEF InOrder
<1>18. ClaimsHold(bills', rows', open')
  <2>1. \A c \in Bills : bills'[c].status \in Live => bills[c].status \in Live /\ bills'[c].claim = bills[c].claim
    BY <1>0, <1>3, <1>15, <1>16
  <2> QED BY <1>0, <1>1, <1>15, <2>1, ClaimsStay DEF GroundTyped
<1>19. RowsHold(certs', rows')
  BY <1>0, <1>2, <1>5, <1>7, <1>8, FrozenAppend DEF RowsHold
<1>20. DrawsHold(certs', bills')
  <2> SUFFICES ASSUME NEW k \in LiveIn(certs'), NEW l \in Lines PROVE Drawn(certs'[k].draws, l) = bills'[certs'[k].bill].claim[l]
    BY DEF DrawsHold
  <2>1. CASE k = n
    BY <1>0, <1>7, <1>9, <1>16, <2>1 DEF Drawable
  <2>2. CASE k # n
    <3>1. k \in LiveIn(certs) /\ certs'[k] = certs[k]
      BY <1>9, <2>2 DEF LiveIn
    <3>2. certs[k].bill \in Bills
      <4>1. certs[k] \in Certificates
        BY <1>2, <3>1, SeqFinite DEF LiveIn
      <4> QED BY <4>1 DEF Certificates
    <3>3. bills'[certs[k].bill].claim = bills[certs[k].bill].claim
      BY <1>15, <1>16, <3>2
    <3> QED BY <1>1, <3>1, <3>3 DEF DrawsHold
  <2> QED BY <2>1, <2>2
<1>21. ShowsBook(bills', certs', held', approvals', payments')
  <2>1. OthersStand(certs, held, approvals, payments, certs', held', approvals', payments', b)
    BY <1>12 DEF Moves
  <2>2. \A c \in Bills \ {b} : bills'[c].status = bills[c].status
    BY <1>15
  <2>3. bills'[b].status \in PastCertification <=> LiveOf(certs', b) # {}
    BY <1>12, <1>14, <1>16
  <2>4. bills'[b].status \in PastCertification => bills'[b].status = StatusOf(certs', held', approvals', payments', b)
    BY <1>13, <1>16
  <2> QED BY <1>2, <2>1, <2>2, <2>3, <2>4, ShowsStays
<1>22. MoneyHolds(bills', certs', held', approvals', payments', advanced')
  BY <1>0, <1>1, <1>12, <1>21, RecoveredIs DEF MoneyHolds, Moves
<1> QED BY <1>0, <1>1, <1>15, <1>17, <1>18, <1>19, <1>20, <1>22, InvIs

LEMMA SupersedeKeeps == ASSUME VendorInv, NEW b \in Bills, Supersede(b) PROVE VendorInv'
<1>0. PICK k \in LiveCertOf(b) :
        /\ Paid(b) = 0 /\ bills[b].status \in PastCertification
        /\ certs' = [certs EXCEPT ![k].live = FALSE] /\ bills' = Moved(b, "verified")
        /\ UNCHANGED <<rows, open, done, recent>> /\ held' = held /\ approvals' = approvals
        /\ payments' = payments /\ advanced' = advanced
  BY DEF Supersede, evidenceVars
<1>1. /\ GroundTyped(rows, open, done) /\ BillsTyped(bills) /\ InOrder(bills, recent)
      /\ MoneyHolds(bills, certs, held, approvals, payments, advanced)
      /\ ClaimsHold(bills, rows, open) /\ RowsHold(certs, rows) /\ DrawsHold(certs, bills)
  BY InvIs
<1>2. /\ Book(certs, held, approvals, payments) /\ ShowsBook(bills, certs, held, approvals, payments)
      /\ certs \in Seq(Certificates)
  BY <1>1 DEF MoneyHolds, Book, BookTyped
<1>3. "verified" \in Live /\ "verified" \in Statuses /\ "verified" \notin PastCertification /\ bills[b].status \in Live
  BY <1>0 DEF Live, PastCertification, Statuses
<1>4. k \in LiveOf(certs, b) /\ Spent(certs, approvals, payments, b) = 0 /\ certs' = Dead(certs, k)
  BY <1>0, LiveBill DEF Dead
<1>5. k \in DOMAIN certs
  BY <1>4 DEF LiveOf, LiveIn
<1>6. /\ Moves(certs, held, approvals, payments, certs', held', approvals', payments', b) /\ LiveOf(certs', b) = {}
      /\ Recs(held', LiveIn(certs')) \in Nat /\ Recs(held, LiveIn(certs)) \in Nat
      /\ Recs(held', LiveIn(certs')) <= Recs(held, LiveIn(certs))
  <2> DEFINE cs == Dead(certs, k)
  <2>1. /\ Moves(certs, held, approvals, payments, cs, held, approvals, payments, b) /\ LiveOf(cs, b) = {}
        /\ Recs(held, LiveIn(cs)) \in Nat /\ Recs(held, LiveIn(certs)) \in Nat
        /\ Recs(held, LiveIn(cs)) <= Recs(held, LiveIn(certs))
    BY <1>2, <1>4, BookSupersede
  <2>2. certs' = cs
    BY <1>4
  <2> HIDE DEF cs
  <2> QED BY <1>0, <2>1, <2>2
<1>7. /\ Turned(bills'[b], bills[b], "verified") /\ BillsTyped(bills') /\ \A c \in Bills \ {b} : bills'[c] = bills[c]
  BY <1>0, <1>1, <1>3, MovedIs
<1>8. bills'[b].status = "verified" /\ bills'[b].claim = bills[b].claim
  BY <1>7 DEF Turned
<1>9. InOrder(bills', recent')
  BY <1>0, <1>1, <1>3, <1>7, <1>8, PastIsLive DEF InOrder
<1>10. ClaimsHold(bills', rows', open')
  <2>1. \A c \in Bills : bills'[c].status \in Live => bills[c].status \in Live /\ bills'[c].claim = bills[c].claim
    BY <1>3, <1>7, <1>8
  <2> QED BY <1>0, <1>1, <1>7, <2>1, ClaimsStay DEF GroundTyped
<1>11. RowsHold(certs', rows')
  <2> SUFFICES ASSUME NEW r \in Rows PROVE FrozenIn(certs', r) <= rows[r].qty
    BY <1>0 DEF RowsHold
  <2>1. FrozenIn(certs', r) <= FrozenIn(certs, r) /\ FrozenIn(certs', r) \in Nat /\ FrozenIn(certs, r) \in Nat
    BY <1>2, <1>4, <1>5, FrozenDead
  <2>2. FrozenIn(certs, r) <= rows[r].qty /\ rows[r].qty \in Nat
    BY <1>1 DEF RowsHold, GroundTyped, RowsTyped
  <2> QED BY <2>1, <2>2
<1>12. DrawsHold(certs', bills')
  <2> SUFFICES ASSUME NEW j \in LiveIn(certs'), NEW l \in Lines PROVE Drawn(certs'[j].draws, l) = bills'[certs'[j].bill].claim[l]
    BY DEF DrawsHold
  <2>1. j \in LiveIn(certs) /\ certs'[j].draws = certs[j].draws /\ certs'[j].bill = certs[j].bill
    BY <1>2, <1>4, <1>5, DeadIs DEF LiveIn
  <2>2. certs[j].bill \in Bills
    <3>1. certs[j] \in Certificates
      BY <1>2, <2>1, SeqFinite DEF LiveIn
    <3> QED BY <3>1 DEF Certificates
  <2>3. bills'[certs[j].bill].claim = bills[certs[j].bill].claim
    BY <1>7, <1>8, <2>2
  <2> QED BY <1>1, <2>1, <2>3 DEF DrawsHold
<1>13. ShowsBook(bills', certs', held', approvals', payments')
  <2>1. OthersStand(certs, held, approvals, payments, certs', held', approvals', payments', b)
    BY <1>6 DEF Moves
  <2>2. \A c \in Bills \ {b} : bills'[c].status = bills[c].status
    BY <1>7
  <2> QED BY <1>2, <1>3, <1>6, <1>8, <2>1, <2>2, ShowsStays
<1>14. Recs(held', LiveIn(certs')) <= advanced' /\ advanced' \in Nat
  <2>1. Recs(held, LiveIn(certs)) <= advanced /\ advanced \in Nat
    BY <1>1 DEF MoneyHolds
  <2> QED BY <1>0, <1>6, <2>1
<1>15. MoneyHolds(bills', certs', held', approvals', payments', advanced')
  BY <1>6, <1>13, <1>14 DEF MoneyHolds, Moves
<1> QED BY <1>0, <1>1, <1>7, <1>9, <1>10, <1>11, <1>12, <1>15, InvIs

------------------------------------------------------------------------------
(* Evidence that comes, and evidence that goes.                             *)

\* The evidence of a line moves with the row that was written.
LEMMA GrownMoves ==
    ASSUME NEW rs, RowsTyped(rs), NEW rs2, RowsTyped(rs2), NEW r \in Rows, \A s \in Rows \ {r} : rs2[s] = rs[s]
    PROVE  /\ Grown(rs2, LineOf[r]) + rs[r].qty = Grown(rs, LineOf[r]) + rs2[r].qty
           /\ \A l : l # LineOf[r] => Grown(rs2, l) = Grown(rs, l)
<1>1. ASSUME NEW l
      PROVE  /\ l = LineOf[r] => Grown(rs2, l) + rs[r].qty = Grown(rs, l) + rs2[r].qty
             /\ l # LineOf[r] => Grown(rs2, l) = Grown(rs, l)
  <2> DEFINE S == RowsOf(l)
             f == [s \in S |-> rs[s].qty]
             g == [s \in S |-> rs2[s].qty]
  <2>1. /\ IsFiniteSet(S) /\ f \in [S -> Nat] /\ Grown(rs, l) = SumFunction(f) /\ Grown(rs, l) \in Nat
        /\ g \in [S -> Nat] /\ Grown(rs2, l) = SumFunction(g) /\ Grown(rs2, l) \in Nat
    BY GrownTyped DEF Grown
  <2>2. \A s \in S \ {r} : f[s] = g[s]
    BY DEF RowsOf
  <2>3. (r \in S <=> l = LineOf[r]) /\ (r \in S => f[r] = rs[r].qty /\ g[r] = rs2[r].qty)
    BY DEF RowsOf
  <2> HIDE DEF S, f, g
  <2>4. SumFunction(g) + At(f, S, r) = SumFunction(f) + At(g, S, r)
    BY <2>1, <2>2, OneChanges
  <2>5. CASE l = LineOf[r]
    BY <2>1, <2>3, <2>4, <2>5 DEF At
  <2>6. CASE l # LineOf[r]
    <3>1. At(f, S, r) = 0 /\ At(g, S, r) = 0
      BY <2>3, <2>6 DEF At
    <3> QED BY <2>1, <2>4, <2>6, <3>1
  <2> QED BY <2>5, <2>6
<1> QED BY <1>1

\* Evidence is added.
LEMMA GrowthKeeps ==
    ASSUME VendorInv, UNCHANGED <<open, done, bills, recent, moneyVars>>, RowsTyped(rows'),
           NEW r \in Rows, \A s \in Rows \ {r} : rows'[s] = rows[s], rows[r].qty <= rows'[r].qty
    PROVE  VendorInv'
<1>1. /\ GroundTyped(rows, open, done) /\ RowsTyped(rows) /\ BillsTyped(bills) /\ InOrder(bills, recent)
      /\ ClaimsHold(bills, rows, open) /\ RowsHold(certs, rows) /\ certs \in Seq(Certificates)
  BY InvIs DEF GroundTyped, MoneyHolds, Book, BookTyped
<1>2. \A l \in Lines : Grown(rows, l) <= Grown(rows', l) /\ Grown(rows, l) \in Nat /\ Grown(rows', l) \in Nat
  <2> TAKE l \in Lines
  <2>1. Grown(rows, l) \in Nat /\ Grown(rows', l) \in Nat
    BY <1>1, GrownTyped
  <2>2. rows[r].qty \in Nat /\ rows'[r].qty \in Nat
    BY <1>1 DEF RowsTyped
  <2>3. /\ l = LineOf[r] => Grown(rows', l) + rows[r].qty = Grown(rows, l) + rows'[r].qty
        /\ l # LineOf[r] => Grown(rows', l) = Grown(rows, l)
    <3>1. Grown(rows', LineOf[r]) + rows[r].qty = Grown(rows, LineOf[r]) + rows'[r].qty
      BY <1>1, GrownMoves
    <3>2. l # LineOf[r] => Grown(rows', l) = Grown(rows, l)
      BY <1>1, GrownMoves
    <3> QED BY <3>1, <3>2
  <2> QED BY <2>1, <2>2, <2>3
<1>3. ClaimsHold(bills, rows', open)
  <2> SUFFICES ASSUME NEW l \in Lines PROVE Claimed(bills, l) <= Grown(rows', l) /\ (Claimed(bills, l) > 0 => l \in open)
    BY DEF ClaimsHold
  <2>1. Claimed(bills, l) <= Grown(rows, l) /\ (Claimed(bills, l) > 0 => l \in open)
    BY <1>1 DEF ClaimsHold
  <2>2. Claimed(bills, l) \in Nat
    BY <1>1, ClaimedIs
  <2> QED BY <1>2, <2>1, <2>2
<1>4. RowsHold(certs, rows')
  <2> SUFFICES ASSUME NEW s \in Rows PROVE FrozenIn(certs, s) <= rows'[s].qty
    BY DEF RowsHold
  <2>1. FrozenIn(certs, s) <= rows[s].qty /\ FrozenIn(certs, s) \in Nat
    BY <1>1, FrozenTyped DEF RowsHold
  <2>2. rows[s].qty \in Nat /\ rows'[s].qty \in Nat
    BY <1>1 DEF RowsTyped
  <2>3. rows[s].qty <= rows'[s].qty
    <3>1. CASE s = r
      BY <3>1
    <3>2. CASE s # r
      BY <2>2, <3>2
    <3> QED BY <3>1, <3>2
  <2> QED BY <2>1, <2>2, <2>3
<1> QED BY <1>1, <1>3, <1>4, ClaimMoveKeeps DEF GroundTyped

LEMMA AddEvidenceKeeps ==
    ASSUME VendorInv, NEW r \in Rows, NEW p \in People, NEW q \in Amounts, AddEvidence(r, p, q)
    PROVE  VendorInv'
<1>1. /\ rows[r].qty = 0 /\ rows' = [rows EXCEPT ![r] = [qty |-> q, by |-> {p}]]
      /\ UNCHANGED <<open, done, bills, recent, moneyVars>> /\ q \in Nat
  BY CommercialAssumption DEF AddEvidence
<1>2. RowsTyped(rows)
  BY InvIs DEF GroundTyped
<1>3. RowsTyped(rows') /\ rows'[r].qty = q /\ \A s \in Rows \ {r} : rows'[s] = rows[s]
  BY <1>1, <1>2 DEF RowsTyped
<1> QED BY <1>1, <1>3, GrowthKeeps

LEMMA CorrectUpKeeps ==
    ASSUME VendorInv, NEW r \in Rows, NEW p \in People, NEW q \in Amounts, CorrectUp(r, p, q)
    PROVE  VendorInv'
<1>1. /\ rows' = [rows EXCEPT ![r] = [qty |-> rows[r].qty + q, by |-> rows[r].by \cup {p}]]
      /\ UNCHANGED <<open, done, bills, recent, moneyVars>> /\ q \in Nat
  BY CommercialAssumption DEF CorrectUp
<1>2. RowsTyped(rows)
  BY InvIs DEF GroundTyped
<1>3. rows[r].qty \in Nat /\ rows[r].by \in SUBSET People
  BY <1>2 DEF RowsTyped
<1>4. RowsTyped(rows') /\ rows'[r].qty = rows[r].qty + q /\ \A s \in Rows \ {r} : rows'[s] = rows[s]
  BY <1>1, <1>2, <1>3 DEF RowsTyped
<1>5. rows[r].qty <= rows'[r].qty
  BY <1>1, <1>3, <1>4
<1> QED BY <1>1, <1>4, <1>5, GrowthKeeps

\* The claims on the line once those that no longer fit are disputed.
Sifted(l, left) ==
    [b \in Bills |-> IF b \in DisputedBy(l, left) THEN [bills[b] EXCEPT !.status = "disputed", !.grants = {}] ELSE bills[b]]

LEMMA SiftedIs ==
    ASSUME BillsTyped(bills), NEW l, NEW left
    PROVE  /\ BillsTyped(Sifted(l, left))
           /\ \A b \in Bills : /\ b \in DisputedBy(l, left) => Turned(Sifted(l, left)[b], bills[b], "disputed")
                               /\ b \notin DisputedBy(l, left) => Sifted(l, left)[b] = bills[b]
<1>1. \A b \in Bills : bills[b] \in BillRow
  BY DEF BillsTyped
<1>2. "disputed" \in Statuses
  BY DEF Statuses
<1>3. ASSUME NEW b \in Bills
      PROVE  /\ b \in DisputedBy(l, left) => Turned(Sifted(l, left)[b], bills[b], "disputed")
             /\ b \notin DisputedBy(l, left) => Sifted(l, left)[b] = bills[b]
             /\ Sifted(l, left)[b] \in BillRow
  <2> DEFINE w == bills[b]
             v == [w EXCEPT !.status = "disputed", !.grants = {}]
  <2>1. Sifted(l, left)[b] = IF b \in DisputedBy(l, left) THEN v ELSE bills[b]
    BY DEF Sifted
  <2>2. w \in BillRow
    BY <1>1
  <2> HIDE DEF w
  <2>3. Turned(v, w, "disputed")
    BY <2>2, TurnedRow
  <2> HIDE DEF v
  <2>4. v \in BillRow
    BY <1>2, <2>3 DEF Turned
  <2> QED BY <2>1, <2>2, <2>3, <2>4 DEF w
<1>4. Sifted(l, left) = [b \in Bills |-> Sifted(l, left)[b]]
  BY DEF Sifted
<1>5. BillsTyped(Sifted(l, left))
  BY <1>3, <1>4 DEF BillsTyped
<1> QED BY <1>3, <1>5

\* Of some bills in the order, the one whose version is the newest.
LEMMA Newest ==
    ASSUME InOrder(bills, recent), NEW R, R \subseteq ToSet(recent), R # {}
    PROVE  \E m \in R : R \subseteq NotNewer(m)
<1> DEFINE n == Len(recent)
           late(b) == n - Place(b)
<1>1. n \in Nat /\ DOMAIN recent = 1 .. n
  BY SeqFinite DEF InOrder
<1>2. \A b \in R : Place(b) \in 1 .. n /\ recent[Place(b)] = b
  BY <1>1, PlaceIs
<1> HIDE DEF n
<1>3. \A b \in R : late(b) \in Nat
  BY <1>1, <1>2
<1> DEFINE T == {late(b) : b \in R}
<1>4. T \subseteq Nat /\ T # {}
  BY <1>3
<1>5. \E t \in T : \A u \in T : t <= u
  <2> HIDE DEF T
  <2> QED BY <1>4, Least
<1>6. PICK m \in R : \A b \in R : late(m) <= late(b)
  BY <1>5
<1>7. \A b \in R : Place(b) <= Place(m)
  <2> TAKE b \in R
  <2>1. n - Place(m) <= n - Place(b)
    BY <1>6
  <2> QED BY <1>1, <1>2, <2>1
<1>8. \A b \in R : Place(b) \in 1 .. Place(m)
  BY <1>1, <1>2, <1>7
<1>9. \A b \in R : b \in NotNewer(m)
  BY <1>2, <1>8 DEF NotNewer
<1> QED BY <1>9

LEMMA SiftedFits ==
    ASSUME BillsTyped(bills), InOrder(bills, recent), NEW l \in Lines, NEW left \in Nat
    PROVE  Claimed(Sifted(l, left), l) <= left
<1> DEFINE bs == Sifted(l, left)
           S == InStatus(bs, Live)
           f == Claiming(bs, l)
           R == {b \in S : f[b] # 0}
<1>1. /\ BillsTyped(bs)
      /\ \A b \in Bills : /\ b \in DisputedBy(l, left) => Turned(bs[b], bills[b], "disputed")
                          /\ b \notin DisputedBy(l, left) => bs[b] = bills[b]
  BY SiftedIs
<1> HIDE DEF bs
<1>2. IsFiniteSet(S) /\ f \in [S -> Nat] /\ Claimed(bs, l) = SumFunction(f) /\ Claimed(bs, l) \in Nat
  BY <1>1, ClaimedIs
<1>3. \A b \in S : b \in Bills /\ b \notin DisputedBy(l, left) /\ bills[b].status \in Live /\ f[b] = bills[b].claim[l]
  BY <1>1, PastIsLive DEF InStatus, Turned, Claiming
<1> HIDE DEF f
<1>4. CASE R = {}
  <2>1. SumFunction(f) = 0
    <3>1. \A b \in S : f[b] = 0
      BY <1>4
    <3> HIDE DEF S, R
    <3> QED BY <1>2, <3>1, SumZeros
  <2> QED BY <1>2, <2>1 DEF bs
<1>5. CASE R # {}
  <2>1. R \subseteq ToSet(recent)
    BY <1>3, PastIsLive DEF InOrder
  <2>2. PICK m \in R : R \subseteq NotNewer(m)
    <3> HIDE DEF R
    <3> QED BY <1>5, <2>1, Newest
  <2> DEFINE T == NotNewer(m) \cap InStatus(bills, Live)
             g == [c \in T |-> bills[c].claim[l]]
             self == [c \in Bills |-> c]
  <2>3. bills[m].claim[l] > 0 /\ m \in S /\ f[m] = bills[m].claim[l]
    BY <1>2, <1>3
  <2>4. ~(SumFunction(g) > left)
    BY <1>3, <2>1, <2>3 DEF DisputedBy
  <2>5. T \subseteq Bills /\ IsFiniteSet(T) /\ g \in [T -> Nat]
    <3>1. T \subseteq Bills
      BY DEF InStatus
    <3>2. \A c \in Bills : bills[c].claim[l] \in Nat
      BY DEF BillsTyped, BillRow
    <3>3. IsFiniteSet(T)
      BY <3>1, CommercialAssumption, FS_Subset
    <3> QED BY <3>1, <3>2, <3>3
  <2>6. \A b \in S : f[b] # 0 => b \in T /\ f[b] = g[b] /\ self[b] = b
    BY <1>3, <2>2 DEF InStatus
  <2> HIDE DEF T, g, self, S, R
  <2>7. Matches(f, g, self, S, T)
    <3> SUFFICES ASSUME NEW b \in S, f[b] # 0
                 PROVE  self[b] \in T /\ f[b] <= g[self[b]] /\ \A c \in S : f[c] # 0 /\ self[c] = self[b] => c = b
      BY DEF Matches
    <3>1. f[b] \in Nat
      BY <1>2
    <3>2. self[b] \in T /\ f[b] <= g[self[b]]
      BY <2>6, <3>1
    <3>3. \A c \in S : f[c] # 0 /\ self[c] = self[b] => c = b
      BY <2>6
    <3> QED BY <3>2, <3>3
  <2>8. SumFunction(f) <= SumFunction(g) /\ SumFunction(g) \in Nat
    BY <1>2, <2>5, <2>7, SumFits, SumInNat
  <2>9. Claimed(bs, l) <= left
    BY <1>2, <2>4, <2>8
  <2> QED BY <2>9 DEF bs
<1> QED BY <1>4, <1>5

\* A withdrawal: the claims that no longer fit are disputed, no certificate
\* is touched, and what it froze is left.
LEMMA WithdrawalKeeps ==
    ASSUME VendorInv, NEW l \in Lines, NEW left \in Nat, Disputing(l, left), GroundTyped(rows', open', done'),
           left <= Grown(rows', l), left > 0 /\ l \in open => l \in open',
           \A m \in Lines \ {l} : Grown(rows', m) = Grown(rows, m) /\ (m \in open => m \in open'),
           RowsHold(certs, rows')
    PROVE  VendorInv'
<1>0. /\ bills' = Sifted(l, left) /\ UNCHANGED recent /\ UNCHANGED moneyVars
      /\ \A b \in DisputedBy(l, left) : bills[b].status \notin PastCertification
  BY DEF Disputing, Sifted
<1>1. /\ RowsTyped(rows) /\ BillsTyped(bills) /\ InOrder(bills, recent) /\ ClaimsHold(bills, rows, open)
      /\ RowsTyped(rows')
  BY InvIs DEF GroundTyped
<1>2. /\ BillsTyped(bills')
      /\ \A b \in Bills : /\ b \in DisputedBy(l, left) => Turned(bills'[b], bills[b], "disputed")
                          /\ b \notin DisputedBy(l, left) => bills'[b] = bills[b]
  BY <1>0, <1>1, SiftedIs
<1>3. \A b \in DisputedBy(l, left) : bills[b].status \in Live
  BY DEF DisputedBy
<1>4. \A b \in Bills : \/ bills'[b].status = bills[b].status /\ bills'[b].claim = bills[b].claim
                       \/ bills'[b].status = "disputed" /\ bills[b].status \in Live \ PastCertification
  BY <1>0, <1>2, <1>3 DEF Turned
<1>5. InOrder(bills', recent')
  <2>1. \A b \in Bills : bills'[b].status = "none" <=> bills[b].status = "none"
    BY <1>4, PastIsLive
  <2> QED BY <1>0, <1>1, <2>1 DEF InOrder
<1>6. ClaimsHold(bills', rows', open')
  <2> SUFFICES ASSUME NEW m \in Lines PROVE Claimed(bills', m) <= Grown(rows', m) /\ (Claimed(bills', m) > 0 => m \in open')
    BY DEF ClaimsHold
  <2>1. OldClaims(bills, bills', m)
    BY <1>4, PastIsLive DEF OldClaims
  <2>2. Claimed(bills', m) <= Claimed(bills, m) /\ Claimed(bills', m) \in Nat /\ Claimed(bills, m) \in Nat
    BY <1>1, <1>2, <2>1, ClaimedFits
  <2>3. Claimed(bills, m) <= Grown(rows, m) /\ (Claimed(bills, m) > 0 => m \in open)
    BY <1>1 DEF ClaimsHold
  <2>4. Grown(rows, m) \in Nat /\ Grown(rows', m) \in Nat
    BY <1>1, GrownTyped
  <2>5. CASE m = l
    <3>1. Claimed(bills', l) <= left
      BY <1>0, <1>1, SiftedFits
    <3> QED BY <2>2, <2>3, <2>4, <2>5, <3>1
  <2>6. CASE m # l
    BY <2>2, <2>3, <2>4, <2>6
  <2> QED BY <2>5, <2>6
<1>7. \A b \in Bills : \/ bills'[b].status = bills[b].status /\ bills'[b].claim = bills[b].claim
                       \/ bills'[b].status \notin PastCertification /\ bills[b].status \notin PastCertification
  BY <1>4, PastIsLive
<1> QED BY <1>0, <1>2, <1>5, <1>6, <1>7, ClaimMoveKeeps

\* One row is written down, to no less than what certificates froze of it.
RowWritten(rs2, r, q) == RowsTyped(rs2) /\ rs2[r].qty = q /\ \A s \in Rows \ {r} : rs2[s] = rows[s]

LEMMA WrittenRowIs ==
    ASSUME RowsTyped(rows), NEW r \in Rows, NEW q \in Nat
    PROVE  RowWritten([rows EXCEPT ![r].qty = q], r, q)
  BY DEF RowWritten, RowsTyped

LEMMA WrittenDown ==
    ASSUME VendorInv, NEW r \in Rows, NEW q \in Nat, RowWritten(rows', r, q), FreezeStands(r, q)
    PROVE  /\ RowsTyped(rows') /\ rows'[r].qty = q /\ RowsHold(certs, rows')
           /\ Grown(rows', LineOf[r]) + rows[r].qty = Grown(rows, LineOf[r]) + q
           /\ \A m \in Lines \ {LineOf[r]} : Grown(rows', m) = Grown(rows, m)
<1>1. RowsTyped(rows) /\ RowsHold(certs, rows)
  BY InvIs DEF GroundTyped
<1>2. RowsTyped(rows') /\ rows'[r].qty = q /\ \A s \in Rows \ {r} : rows'[s] = rows[s]
  BY DEF RowWritten
<1>3. FrozenIn(certs, r) <= q
  BY EvidenceIs DEF FreezeStands
<1>4. RowsHold(certs, rows')
  BY <1>1, <1>2, <1>3 DEF RowsHold
<1>5. Grown(rows', LineOf[r]) + rows[r].qty = Grown(rows, LineOf[r]) + rows'[r].qty
  BY <1>1, <1>2, GrownMoves
<1>6. \A m \in Lines \ {LineOf[r]} : Grown(rows', m) = Grown(rows, m)
  BY <1>1, <1>2, GrownMoves
<1> QED BY <1>2, <1>4, <1>5, <1>6

LEMMA ReverseAcceptanceKeeps == ASSUME VendorInv, NEW r \in Rows, ReverseAcceptance(r) PROVE VendorInv'
<1> DEFINE l == LineOf[r]
           left == Evidence(l) - rows[r].qty
<1>1. /\ FreezeStands(r, 0) /\ rows' = [rows EXCEPT ![r].qty = 0] /\ Disputing(l, left) /\ UNCHANGED <<open, done>>
  BY DEF ReverseAcceptance
<1>2. GroundTyped(rows, open, done) /\ RowsTyped(rows)
  BY InvIs DEF GroundTyped
<1>3. /\ RowsTyped(rows') /\ RowsHold(certs, rows') /\ Grown(rows', l) + rows[r].qty = Grown(rows, l) + 0
      /\ \A m \in Lines \ {l} : Grown(rows', m) = Grown(rows, m)
  BY <1>1, <1>2, WrittenRowIs, WrittenDown
<1>4. l \in Lines /\ rows[r].qty \in Nat /\ Grown(rows, l) \in Nat /\ Grown(rows', l) \in Nat
  BY <1>2, <1>3, CommercialAssumption, GrownTyped DEF RowsTyped
<1>5. Evidence(l) = Grown(rows, l)
  BY EvidenceIs
<1> HIDE DEF l
<1>6. left \in Nat /\ left <= Grown(rows', l)
  BY <1>3, <1>4, <1>5
<1>7. GroundTyped(rows', open', done')
  BY <1>1, <1>2, <1>3 DEF GroundTyped
<1> HIDE DEF left
<1> QED BY <1>1, <1>3, <1>4, <1>6, <1>7, WithdrawalKeeps

LEMMA CorrectDownKeeps ==
    ASSUME VendorInv, NEW r \in Rows, NEW q \in Amounts, CorrectDown(r, q)
    PROVE  VendorInv'
<1> DEFINE l == LineOf[r]
           left == Evidence(l) - q
           now == rows[r].qty - q
<1>1. /\ q <= rows[r].qty /\ FreezeStands(r, now) /\ rows' = [rows EXCEPT ![r].qty = now]
      /\ Disputing(l, left) /\ UNCHANGED <<open, done>>
  BY DEF CorrectDown
<1>2. GroundTyped(rows, open, done) /\ RowsTyped(rows) /\ q \in Nat
  BY InvIs, CommercialAssumption DEF GroundTyped
<1>3. rows[r].qty \in Nat /\ now \in Nat /\ now + q = rows[r].qty
  BY <1>1, <1>2 DEF RowsTyped
<1> HIDE DEF now
<1>4. /\ RowsTyped(rows') /\ RowsHold(certs, rows') /\ Grown(rows', l) + rows[r].qty = Grown(rows, l) + now
      /\ \A m \in Lines \ {l} : Grown(rows', m) = Grown(rows, m)
  BY <1>1, <1>2, <1>3, WrittenRowIs, WrittenDown
<1>5. l \in Lines /\ Grown(rows, l) \in Nat /\ Grown(rows', l) \in Nat
  BY <1>2, <1>4, CommercialAssumption, GrownTyped
<1>6. Evidence(l) = Grown(rows, l)
  BY EvidenceIs
<1> HIDE DEF l
<1>7. left \in Nat /\ left <= Grown(rows', l)
  BY <1>2, <1>3, <1>4, <1>5, <1>6
<1>8. GroundTyped(rows', open', done')
  BY <1>1, <1>2, <1>4 DEF GroundTyped
<1> HIDE DEF left
<1> QED BY <1>1, <1>4, <1>5, <1>7, <1>8, WithdrawalKeeps

LEMMA WithdrawOrderKeeps == ASSUME VendorInv, NEW l \in Lines, WithdrawOrder(l) PROVE VendorInv'
<1>1. open' = open \ {l} /\ Disputing(l, 0) /\ UNCHANGED <<rows, done>>
  BY DEF WithdrawOrder
<1>2. GroundTyped(rows, open, done) /\ RowsTyped(rows) /\ RowsHold(certs, rows)
  BY InvIs DEF GroundTyped
<1>3. Grown(rows', l) \in Nat /\ 0 <= Grown(rows', l)
  <2>1. Grown(rows', l) \in Nat
    BY <1>1, <1>2, GrownTyped
  <2> QED BY <2>1
<1>4. GroundTyped(rows', open', done') /\ RowsHold(certs, rows')
  BY <1>1, <1>2 DEF GroundTyped
<1>5. \A m \in Lines \ {l} : Grown(rows', m) = Grown(rows, m) /\ (m \in open => m \in open')
  BY <1>1
<1>6. 0 \in Nat /\ (0 > 0 /\ l \in open => l \in open')
  OBVIOUS
<1> QED BY <1>1, <1>3, <1>4, <1>5, <1>6, WithdrawalKeeps

LEMMA SignOffKeeps == ASSUME VendorInv, NEW l \in Lines, SignOff(l) \/ RevertSignOff(l) PROVE VendorInv'
<1>1. UNCHANGED <<rows, open, bills, recent, certs, held, approvals, payments, advanced>>
  BY DEF SignOff, RevertSignOff, moneyVars
<1>2. done' \subseteq done \cup (Labour \cap {l})
  BY DEF SignOff, RevertSignOff
<1>3. GroundTyped(rows', open', done')
  BY <1>1, <1>2, InvIs DEF GroundTyped
<1> QED BY <1>1, <1>3, InvIs

------------------------------------------------------------------------------
(* The invariant holds.                                                     *)

LEMMA InitHolds == Init => VendorInv
<1> SUFFICES ASSUME Init PROVE VendorInv
  OBVIOUS
<1>0. /\ rows = [r \in Rows |-> [qty |-> 0, by |-> {}]] /\ open = Lines /\ done = {}
      /\ bills = [b \in Bills |-> [status |-> "none", claim |-> [l \in Lines |-> 0], grants |-> {}]]
      /\ recent = <<>> /\ certs = <<>> /\ held = <<>> /\ approvals = <<>> /\ payments = <<>> /\ advanced = 0
  BY DEF Init
<1>1. "none" \in Statuses /\ "none" \notin Live /\ "none" \notin PastCertification
  BY DEF Statuses, Live, PastCertification
<1>2. GroundTyped(rows, open, done)
  BY <1>0 DEF GroundTyped, RowsTyped
<1>3. BillsTyped(bills)
  BY <1>0, <1>1 DEF BillsTyped, BillRow
<1>4. InOrder(bills, recent)
  BY <1>0 DEF InOrder, IsInjective, ToSet
<1>5. LiveIn(certs) = {} /\ \A b : LiveOf(certs, b) = {}
  BY <1>0 DEF LiveIn, LiveOf
<1>6. Book(certs, held, approvals, payments)
  <2>1. BookTyped(certs, held, approvals, payments)
    BY <1>0 DEF BookTyped, HeldSound, PaidSound
  <2>2. BookLinked(certs, held, approvals, payments)
    BY <1>0 DEF BookLinked, HeldLinked, ApprovalsLinked, PaymentsLinked, OneStands
  <2>3. CashOnLive(certs, approvals, payments)
    BY <1>0 DEF CashOnLive
  <2>4. BillsCovered(certs, held, approvals, payments)
    BY <1>5 DEF BillsCovered, BillCovered
  <2> QED BY <2>1, <2>2, <2>3, <2>4 DEF Book
<1>7. Recs(held, LiveIn(certs)) = 0
  <2>1. RowsWith(KindOf(held), LiveIn(certs) \X {"advance-recovery"}) = {}
    BY <1>0 DEF RowsWith, KindOf
  <2> QED BY <2>1, PartNone DEF Recs
<1>8. ShowsBook(bills, certs, held, approvals, payments)
  BY <1>0, <1>1, <1>5 DEF ShowsBook
<1>9. MoneyHolds(bills, certs, held, approvals, payments, advanced)
  BY <1>0, <1>6, <1>7, <1>8 DEF MoneyHolds
<1>10. ClaimsHold(bills, rows, open)
  <2> SUFFICES ASSUME NEW l \in Lines PROVE Claimed(bills, l) <= Grown(rows, l) /\ (Claimed(bills, l) > 0 => l \in open)
    BY DEF ClaimsHold
  <2>1. Grown(rows, l) \in Nat
    BY <1>2, GrownTyped DEF GroundTyped
  <2>2. DOMAIN Claiming(bills, l) = {}
    BY <1>0, <1>1 DEF Claiming, InStatus
  <2>3. Claimed(bills, l) = 0
    BY <1>3, <2>2, ClaimedIs, SumNone
  <2> QED BY <2>1, <2>3
<1>11. RowsHold(certs, rows)
  <2> SUFFICES ASSUME NEW r \in Rows PROVE FrozenIn(certs, r) <= rows[r].qty
    BY DEF RowsHold
  <2>1. DOMAIN [k \in LiveIn(certs) |-> certs[k].draws[r]] = {}
    BY <1>5
  <2>2. FrozenIn(certs, r) = 0
    BY <2>1, SumNone DEF FrozenIn
  <2> QED BY <1>0, <2>2
<1>12. DrawsHold(certs, bills)
  BY <1>5 DEF DrawsHold
<1> QED BY <1>2, <1>3, <1>4, <1>9, <1>10, <1>11, <1>12, InvIs

LEMMA NextHolds == VendorInv /\ [Next]_vars => VendorInv'
<1> SUFFICES ASSUME VendorInv, [Next]_vars PROVE VendorInv'
  OBVIOUS
<1>1. CASE ClaimNext
  <2> PICK b \in Bills :
        \/ \E claim \in Claims : Record(b, claim) \/ Amend(b, claim)
        \/ Submit(b) \/ BeginVerification(b) \/ Verify(b) \/ Reject(b) \/ Supersede(b)
        \/ \E p \in People, x \in Signers : Certify(b, p, x)
        \/ \E rule \in {"certify", "approve"}, p \in People, x \in People : GrantException(b, rule, p, x)
    BY <1>1 DEF ClaimNext
  <2>1. CASE \E claim \in Claims : Record(b, claim) \/ Amend(b, claim)
    BY <2>1, RecordKeeps, AmendKeeps
  <2>2. CASE Submit(b) \/ BeginVerification(b) \/ Verify(b) \/ Reject(b) \/ Supersede(b)
    BY <2>2, SubmitKeeps, BeginVerificationKeeps, VerifyKeeps, RejectKeeps, SupersedeKeeps
  <2>3. CASE \E p \in People, x \in Signers : Certify(b, p, x)
    BY <2>3, CertifyKeeps
  <2>4. CASE \E rule \in {"certify", "approve"}, p \in People, x \in People : GrantException(b, rule, p, x)
    BY <2>4, GrantExceptionKeeps
  <2> QED BY <2>1, <2>2, <2>3, <2>4
<1>2. CASE MoneyNext
  <2> PICK a \in Amounts :
        \/ \E b \in Bills, p \in People, x \in Signers : Approve(b, p, a, x)
        \/ \E ap \in DOMAIN approvals : Pay(ap, a)
        \/ \E p \in DOMAIN payments : ReversePayment(p, a)
        \/ \E b \in Bills, kind \in {"advance-recovery", "retention"} : Deduct(b, kind, a)
        \/ \E h \in DOMAIN held : ReleaseDeduction(h, a)
        \/ PayAdvance(a)
    BY <1>2 DEF MoneyNext
  <2>1. CASE \E b \in Bills, p \in People, x \in Signers : Approve(b, p, a, x)
    BY <2>1, ApproveKeeps
  <2>2. CASE \E ap \in DOMAIN approvals : Pay(ap, a)
    BY <2>2, PayKeeps
  <2>3. CASE \E p \in DOMAIN payments : ReversePayment(p, a)
    BY <2>3, ReversePaymentKeeps
  <2>4. CASE \E b \in Bills, kind \in {"advance-recovery", "retention"} : Deduct(b, kind, a)
    BY <2>4, DeductKeeps
  <2>5. CASE \E h \in DOMAIN held : ReleaseDeduction(h, a)
    BY <2>5, ReleaseKeeps
  <2>6. CASE PayAdvance(a)
    BY <2>6, PayAdvanceKeeps
  <2> QED BY <2>1, <2>2, <2>3, <2>4, <2>5, <2>6
<1>3. CASE EvidenceNext
  <2>1. CASE \E r \in Rows, p \in People, q \in Amounts : AddEvidence(r, p, q) \/ CorrectUp(r, p, q)
    BY <2>1, AddEvidenceKeeps, CorrectUpKeeps
  <2>2. CASE \E r \in Rows : ReverseAcceptance(r) \/ \E q \in Amounts : CorrectDown(r, q)
    BY <2>2, ReverseAcceptanceKeeps, CorrectDownKeeps
  <2>3. CASE \E l \in Lines : WithdrawOrder(l) \/ SignOff(l) \/ RevertSignOff(l)
    BY <2>3, WithdrawOrderKeeps, SignOffKeeps
  <2> QED BY <1>3, <2>1, <2>2, <2>3 DEF EvidenceNext
<1>4. CASE UNCHANGED vars
  <2>1. UNCHANGED <<rows, open, done, bills, recent, certs, held, approvals, payments, advanced>>
    BY <1>4 DEF vars, evidenceVars, moneyVars
  <2> QED BY <2>1, InvIs
<1> QED BY <1>1, <1>2, <1>3, <1>4 DEF Next

\* The inductive invariant.  The types, the links between the ledgers and the
\* order of the versions carry the covers of the money and of the evidence.
THEOREM VendorInvariant == Spec => []VendorInv
  BY InitHolds, NextHolds, PTL DEF Spec

\* Money that is out rests on an approval of a certificate that stands; paid,
\* approved and withheld stay within it; the recoveries stay within what was
\* advanced; and each bill shows the status its ledgers derive.
THEOREM MoneyStaysCovered == Spec => []MoneyIsCovered
<1>1. VendorInv => MoneyIsCovered
  BY DEF VendorInv, MoneyIsCovered
<1> QED BY <1>1, VendorInvariant, PTL

\* The live claims on a line never exceed what is accepted or measured under
\* it, and rest on a live order, whatever is withdrawn afterwards.
THEOREM ClaimsStayWithin == Spec => []ClaimsWithinEvidence
<1>1. VendorInv => ClaimsWithinEvidence
  BY DEF VendorInv
<1> QED BY <1>1, VendorInvariant, PTL

\* What live certificates froze of an evidence row is still in that row, and a
\* certificate's rows carry exactly the claim it certified.
THEOREM FrozenStays == Spec => []FrozenEvidenceStands
<1>1. VendorInv => FrozenEvidenceStands
  BY DEF VendorInv
<1> QED BY <1>1, VendorInvariant, PTL

------------------------------------------------------------------------------
(* What was withheld stands from certificate to certificate.                *)

LastIn(cs, b) == Max(CertsIn(cs, b) \cup {0})
GivenOn(hs, hs2, K) == SumFunction([h \in RowsWith(CertOf(hs), K) |-> hs2[h].released - hs[h].released])
Stands(cs, hs, cs2, hs2, b) ==
    Outs(hs, {LastIn(cs, b)}) - GivenOn(hs, hs2, {LastIn(cs, b)}) <= Outs(hs2, {LastIn(cs2, b)})

WithholdingStep ==
    \A b \in Bills :
        LET before == HeldOn({LastCert(b)})
            given == SumFunction([h \in before |-> held'[h].released - held[h].released])
        IN Outstanding(before) - given <= Outstanding(HeldOn({LastCert(b)}))'

LEMMA StandsIs == (\A b \in Bills : Stands(certs, held, certs', held', b)) => WithholdingStep
<1> SUFFICES ASSUME \A b \in Bills : Stands(certs, held, certs', held', b), NEW b \in Bills
             PROVE  Outstanding(HeldOn({LastCert(b)}))
                      - SumFunction([h \in HeldOn({LastCert(b)}) |-> held'[h].released - held[h].released])
                    <= Outstanding(HeldOn({LastCert(b)}))'
  BY DEF WithholdingStep
<1>1. LastCert(b) = LastIn(certs, b) /\ LastCert(b)' = LastIn(certs', b)
  BY LiveAre DEF LastCert, LastIn
<1>2. Outstanding(HeldOn({LastCert(b)})) = Outs(held, {LastIn(certs, b)})
  BY <1>1, LastHeld
<1>3. Outstanding(HeldOn({LastCert(b)}))' = Outs(held', {LastIn(certs', b)})
  BY <1>1, OutsOf DEF Outstanding, HeldOn, Unreleased
<1>4. HeldOn({LastCert(b)}) = RowsWith(CertOf(held), {LastIn(certs, b)})
  BY <1>1 DEF HeldOn, RowsWith, CertOf
<1>5. SumFunction([h \in HeldOn({LastCert(b)}) |-> held'[h].released - held[h].released])
        = GivenOn(held, held', {LastIn(certs, b)})
  BY <1>4 DEF GivenOn
<1> QED BY <1>2, <1>3, <1>5 DEF Stands

\* Rows that stay as they were, and one of which some was given back.
LEMMA GivenNone ==
    ASSUME NEW hs, HeldSound(hs), NEW hs2, \A h \in DOMAIN hs : hs2[h] = hs[h], NEW K
    PROVE  GivenOn(hs, hs2, K) = 0
<1> DEFINE S == RowsWith(CertOf(hs), K)
           f == [h \in S |-> hs2[h].released - hs[h].released]
<1>1. S \subseteq DOMAIN hs /\ IsFiniteSet(S)
  <2>1. IsFiniteSet(S)
    BY HeldLedger, PartIs
  <2> QED BY <2>1 DEF RowsWith, CertOf
<1>2. \A h \in S : f[h] = 0
  <2>1. \A h \in DOMAIN hs : hs[h] \in Withholdings
    BY SeqFinite DEF HeldSound
  <2>2. \A h \in DOMAIN hs : hs[h].released \in Nat
    BY <2>1 DEF Withholdings
  <2>3. \A h \in DOMAIN hs : hs2[h].released - hs[h].released = 0
    BY <2>2
  <2> QED BY <1>1, <2>3
<1>3. f \in [S -> Nat] /\ GivenOn(hs, hs2, K) = SumFunction(f)
  BY <1>2 DEF GivenOn
<1> HIDE DEF S, f
<1> QED BY <1>1, <1>2, <1>3, SumZeros

LEMMA GivenSome ==
    ASSUME NEW hs, HeldSound(hs), NEW h \in DOMAIN hs, NEW a \in Nat, a <= hs[h].amount - hs[h].released, NEW K
    PROVE  /\ GivenOn(hs, Given(hs, h, a), K) \in Nat
           /\ hs[h].cert \in K => a <= GivenOn(hs, Given(hs, h, a), K)
<1> DEFINE S == RowsWith(CertOf(hs), K)
           hs2 == Given(hs, h, a)
           f == [i \in S |-> hs2[i].released - hs[i].released]
<1>1. S \subseteq DOMAIN hs /\ IsFiniteSet(S) /\ (hs[h].cert \in K => h \in S)
  <2>1. IsFiniteSet(S)
    BY HeldLedger, PartIs
  <2> QED BY <2>1 DEF RowsWith, CertOf
<1>2. /\ \A i \in DOMAIN hs \ {h} : hs2[i] = hs[i]
      /\ hs2[h].released = hs[h].released + a
  BY GivenIs
<1> HIDE DEF hs2
<1>3. \A i \in DOMAIN hs : hs[i].released \in Nat
  <2>1. \A i \in DOMAIN hs : hs[i] \in Withholdings
    BY SeqFinite DEF HeldSound
  <2> QED BY <2>1 DEF Withholdings
<1>4. \A i \in DOMAIN hs : hs2[i].released - hs[i].released = IF i = h THEN a ELSE 0
  BY <1>2, <1>3
<1>5. f \in [S -> Nat] /\ GivenOn(hs, hs2, K) = SumFunction(f) /\ (h \in S => f[h] = a)
  BY <1>1, <1>4 DEF GivenOn
<1> HIDE DEF f, S
<1>6. SumFunction(f) \in Nat
  BY <1>1, <1>5, SumInNat
<1>7. h \in S => f[h] <= SumFunction(f)
  BY <1>1, <1>5, SumOfOne
<1> QED BY <1>1, <1>5, <1>6, <1>7 DEF hs2

\* The last certificate of a bill, and that of one that is just certified.
LEMMA LastIs ==
    ASSUME NEW cs, cs \in Seq(Certificates), NEW z \in Certificates, NEW n, n = Len(cs) + 1
    PROVE  /\ LastIn(Append(cs, z), z.bill) = n
           /\ \A c : c # z.bill => LastIn(Append(cs, z), c) = LastIn(cs, c)
           /\ \A c : LastIn(cs, c) # n
<1> DEFINE cs2 == Append(cs, z)
<1>1. /\ DOMAIN cs2 = DOMAIN cs \cup {n} /\ n \notin DOMAIN cs /\ cs2[n] = z /\ DOMAIN cs = 1 .. Len(cs) /\ Len(cs) \in Nat
      /\ \A i \in DOMAIN cs : cs2[i] = cs[i]
  BY Appended
<1> HIDE DEF cs2
<1>2. CertsIn(cs2, z.bill) = CertsIn(cs, z.bill) \cup {n} /\ \A c : c # z.bill => CertsIn(cs2, c) = CertsIn(cs, c)
  BY <1>1 DEF CertsIn
<1>3. \A c : CertsIn(cs, c) \subseteq 1 .. Len(cs)
  BY <1>1 DEF CertsIn
<1>4. LastIn(cs2, z.bill) = n
  <2> DEFINE S == CertsIn(cs2, z.bill) \cup {0}
  <2>1. n \in S /\ S \subseteq Int /\ \A i \in S : n >= i
    BY <1>1, <1>2, <1>3
  <2> HIDE DEF S
  <2>2. Max(S) = n
    BY <2>1, MaxIsGreatest
  <2> QED BY <2>2 DEF S, LastIn
<1>5. \A c : c # z.bill => LastIn(cs2, c) = LastIn(cs, c)
  BY <1>2 DEF LastIn
<1>6. ASSUME NEW c PROVE LastIn(cs, c) # n
  <2> DEFINE S == CertsIn(cs, c) \cup {0}
             Bad == {i \in Nat : \E m \in S : m + i = Len(cs)}
  <2>1. S \subseteq 0 .. Len(cs) /\ 0 \in S
    BY <1>1, <1>3
  <2>2. \E m \in S : \A k \in S : m >= k
    <3>1. Bad \subseteq Nat /\ Len(cs) \in Bad
      <4>1. 0 + Len(cs) = Len(cs) /\ Len(cs) \in Nat
        BY <1>1
      <4> HIDE DEF S
      <4>2. \E m \in S : m + Len(cs) = Len(cs)
        BY <2>1, <4>1
      <4> QED BY <4>1, <4>2
    <3>2. PICK i \in Bad : \A j \in Bad : i <= j
      <4> HIDE DEF Bad
      <4> QED BY <3>1, Least
    <3>3. PICK m \in S : m + i = Len(cs)
      BY <3>2
    <3>4. \A k \in S : m >= k
      <4> TAKE k \in S
      <4>1. k \in 0 .. Len(cs) /\ m \in 0 .. Len(cs) /\ i \in Nat
        BY <2>1, <3>2, <3>3
      <4>2. Len(cs) - k \in Nat /\ k + (Len(cs) - k) = Len(cs)
        BY <1>1, <4>1
      <4>3. Len(cs) - k \in Bad
        BY <4>2
      <4>4. i <= Len(cs) - k
        BY <3>2, <4>3
      <4> DEFINE y == Len(cs)
      <4>5. y \in Nat
        BY <1>1
      <4>6. m + i = y
        BY <3>3
      <4>7. i <= y - k
        BY <4>4
      <4>8. k \in 0 .. y /\ m \in 0 .. y /\ i \in Nat
        BY <4>1
      <4> HIDE DEF S, y
      <4> QED BY <4>5, <4>6, <4>7, <4>8
    <3> QED BY <3>4
  <2>3. Max(S) \in S
    <3> HIDE DEF S
    <3> QED BY <2>2 DEF Max
  <2>4. Max(S) # n
    BY <1>1, <2>1, <2>3
  <2> QED BY <2>4 DEF LastIn
<1> QED BY <1>4, <1>5, <1>6 DEF cs2

\* Rows that are added on other certificates leave the sum.
LEMMA OutsExtended ==
    ASSUME NEW hs, HeldSound(hs), NEW hs2, NEW n, Extended(hs, hs2, n), NEW K, n \notin K
    PROVE  Outs(hs2, K) = Outs(hs, K)
<1>1. RowsWith(CertOf(hs), K) = RowsWith(CertOf(hs2), K)
  BY DEF RowsWith, CertOf, Extended
<1>2. \A h \in RowsWith(CertOf(hs), K) : Left(hs)[h] = Left(hs2)[h]
  BY DEF RowsWith, CertOf, Left, Extended
<1> QED BY <1>1, <1>2, PartSame DEF Outs

\* The certificate that follows takes over the balance of the one before it.
LEMMA CertifyStands ==
    ASSUME VendorInv, NEW b \in Bills, NEW p \in People, NEW x \in Signers, Certify(b, p, x), VendorInv', NEW c \in Bills
    PROVE  Stands(certs, held, certs', held', c)
<1> DEFINE z == certs'[Len(certs) + 1]
           n == Len(certs) + 1
           K == {LastIn(certs, c)}
<1>0. /\ held' = held \o Restated(b, n)
      /\ \E y : certs' = Append(certs, y) /\ y.bill = b
  <2> DEFINE y == [bill |-> b, amount |-> SumFunction([l \in Lines |-> bills[b].claim[l]]), live |-> TRUE, by |-> p,
                   excusedBy |-> x, draws |-> Draws(b)]
  <2>1. held' = held \o Restated(b, n) /\ certs' = Append(certs, y)
    BY DEF Certify
  <2>2. y.bill = b
    OBVIOUS
  <2> HIDE DEF y
  <2> QED BY <2>1, <2>2
<1>1. /\ certs \in Seq(Certificates) /\ HeldSound(held) /\ HeldLinked(certs, held) /\ certs' \in Seq(Certificates)
  BY InvIs DEF MoneyHolds, Book, BookTyped, BookLinked
<1>2. certs' = Append(certs, z) /\ z.bill = b /\ z \in Certificates /\ n \notin DOMAIN certs /\ n \in Nat
  BY <1>0, <1>1
<1> HIDE DEF z
<1>3. /\ LastIn(certs', b) = n /\ (c # b => LastIn(certs', c) = LastIn(certs, c)) /\ LastIn(certs, c) # n
  BY <1>1, <1>2, LastIs
<1>4. Restated(b, n) = RowsOn(held, {LastIn(certs, b)}, n)
  BY LastHeld, LiveAre DEF LastCert, LastIn
<1> HIDE DEF n
<1>5. Extended(held, held', n) /\ Outs(held', {n}) = Outs(held, {LastIn(certs, b)})
  BY <1>0, <1>1, <1>2, <1>4, CarriedOver
<1>6. GivenOn(held, held', K) = 0
  BY <1>1, <1>5, GivenNone DEF Extended
<1>7. Outs(held', {LastIn(certs', c)}) = Outs(held, K)
  <2>1. CASE c = b
    BY <1>3, <1>5, <2>1
  <2>2. CASE c # b
    BY <1>1, <1>3, <1>5, <2>2, OutsExtended
  <2> QED BY <2>1, <2>2
<1>8. Outs(held, K) \in Nat
  BY <1>1, HeldLedger, PartIs DEF Outs
<1> QED BY <1>6, <1>7, <1>8 DEF Stands

\* A deduction adds to what is withheld, and a release takes what it gives.
LEMMA HeldMoveStands ==
    ASSUME VendorInv, NEW c \in Bills, NEW a \in Amounts, certs' = certs,
           \/ \E h \in DOMAIN held : a <= held[h].amount - held[h].released /\ held' = Given(held, h, a)
           \/ \E w \in Withholdings : w.released <= w.amount /\ held' = Append(held, w)
    PROVE  Stands(certs, held, certs', held', c)
<1> DEFINE K == {LastIn(certs, c)}
<1>1. HeldSound(held) /\ LastIn(certs', c) = LastIn(certs, c) /\ a \in Nat
  BY InvIs, CommercialAssumption DEF MoneyHolds, Book, BookTyped
<1>2. Stands(certs, held, certs', held', c) <=> Outs(held, K) - GivenOn(held, held', K) <= Outs(held', K)
  BY <1>1 DEF Stands
<1> HIDE DEF K
<1>3. ASSUME NEW h \in DOMAIN held, a <= held[h].amount - held[h].released, held' = Given(held, h, a)
      PROVE  Outs(held, K) - GivenOn(held, held', K) <= Outs(held', K)
  <2>1. /\ Outs(held, K) \in Nat /\ Outs(held', K) \in Nat
        /\ held[h].cert \in K => Outs(held', K) + a = Outs(held, K)
        /\ held[h].cert \notin K => Outs(held', K) = Outs(held, K)
    BY <1>1, <1>3, OutsGive
  <2>2. /\ GivenOn(held, held', K) \in Nat
        /\ held[h].cert \in K => a <= GivenOn(held, held', K)
    BY <1>1, <1>3, GivenSome
  <2>3. CASE held[h].cert \in K
    BY <1>1, <2>1, <2>2, <2>3
  <2>4. CASE held[h].cert \notin K
    BY <2>1, <2>2, <2>4
  <2> QED BY <2>3, <2>4
<1>4. ASSUME NEW w \in Withholdings, w.released <= w.amount, held' = Append(held, w)
      PROVE  Outs(held, K) - GivenOn(held, held', K) <= Outs(held', K)
  <2>1. w.amount - w.released \in Nat
    BY <1>4 DEF Withholdings
  <2>2. /\ Outs(held, K) \in Nat
        /\ Outs(held', K) = Outs(held, K) + (w.amount - w.released) \/ Outs(held', K) = Outs(held, K)
    BY <1>1, <1>4, OutsAppend
  <2>3. \A i \in DOMAIN held : held'[i] = held[i]
    BY <1>1, <1>4, Appended DEF HeldSound
  <2>4. GivenOn(held, held', K) = 0
    BY <1>1, <2>3, GivenNone
  <2> QED BY <2>1, <2>2, <2>4
<1> QED BY <1>2, <1>3, <1>4

\* Any other command leaves the withholdings and the certificates of the bill.
LEMMA HeldStands ==
    ASSUME VendorInv, NEW c \in Bills, held' = held,
           certs' = certs \/ \E k \in DOMAIN certs : certs' = Dead(certs, k)
    PROVE  Stands(certs, held, certs', held', c)
<1> DEFINE K == {LastIn(certs, c)}
<1>1. HeldSound(held) /\ certs \in Seq(Certificates)
  BY InvIs DEF MoneyHolds, Book, BookTyped
<1>2. LastIn(certs', c) = LastIn(certs, c)
  <2>1. CertsIn(certs', c) = CertsIn(certs, c)
    BY <1>1, DeadIs
  <2> QED BY <2>1 DEF LastIn
<1>3. GivenOn(held, held', K) = 0
  BY <1>1, GivenNone
<1>4. Outs(held, K) \in Nat
  BY <1>1, HeldLedger, PartIs DEF Outs
<1> QED BY <1>2, <1>3, <1>4 DEF Stands


HeldMoves ==
    \E a \in Amounts :
        \/ \E h \in DOMAIN held : a <= held[h].amount - held[h].released /\ held' = Given(held, h, a)
        \/ \E w \in Withholdings : w.released <= w.amount /\ held' = Append(held, w)
HeldKept == held' = held /\ (certs' = certs \/ \E k \in DOMAIN certs : certs' = Dead(certs, k))

LEMMA ClaimMoves ==
    ASSUME VendorInv, ClaimNext
    PROVE  (\E b \in Bills, p \in People, x \in Signers : Certify(b, p, x)) \/ HeldKept
<1> PICK b \in Bills :
        \/ \E claim \in Claims : Record(b, claim) \/ Amend(b, claim)
        \/ Submit(b) \/ BeginVerification(b) \/ Verify(b) \/ Reject(b) \/ Supersede(b)
        \/ \E p \in People, x \in Signers : Certify(b, p, x)
        \/ \E rule \in {"certify", "approve"}, p \in People, x \in People : GrantException(b, rule, p, x)
  BY DEF ClaimNext
<1>1. CASE \E claim \in Claims : Record(b, claim) \/ Amend(b, claim)
  BY <1>1 DEF Record, Amend, moneyVars, HeldKept
<1>2. CASE Submit(b) \/ BeginVerification(b) \/ Verify(b) \/ Reject(b)
  BY <1>2 DEF Submit, BeginVerification, Verify, Reject, moneyVars, HeldKept
<1>3. CASE Supersede(b)
  <2>1. PICK k \in LiveCertOf(b) : certs' = [certs EXCEPT ![k].live = FALSE] /\ held' = held
    BY <1>3 DEF Supersede
  <2>2. certs' = Dead(certs, k)
    BY <2>1 DEF Dead
  <2>3. k \in DOMAIN certs
    BY DEF LiveCertOf, LiveCerts
  <2> QED BY <2>1, <2>2, <2>3 DEF HeldKept
<1>4. CASE \E rule \in {"certify", "approve"}, p \in People, x \in People : GrantException(b, rule, p, x)
  BY <1>4 DEF GrantException, moneyVars, HeldKept
<1> QED BY <1>1, <1>2, <1>3, <1>4

LEMMA MoneyMoves == ASSUME VendorInv, MoneyNext PROVE HeldKept \/ (certs' = certs /\ HeldMoves)
<1> PICK a \in Amounts :
        \/ \E b \in Bills, p \in People, x \in Signers : Approve(b, p, a, x)
        \/ \E ap \in DOMAIN approvals : Pay(ap, a)
        \/ \E p \in DOMAIN payments : ReversePayment(p, a)
        \/ \E b \in Bills, kind \in {"advance-recovery", "retention"} : Deduct(b, kind, a)
        \/ \E h \in DOMAIN held : ReleaseDeduction(h, a)
        \/ PayAdvance(a)
  BY DEF MoneyNext
<1>1. CASE \E b \in Bills, p \in People, x \in Signers : Approve(b, p, a, x)
  BY <1>1 DEF Approve, HeldKept
<1>2. CASE (\E ap \in DOMAIN approvals : Pay(ap, a)) \/ (\E p \in DOMAIN payments : ReversePayment(p, a)) \/ PayAdvance(a)
  BY <1>2 DEF Pay, ReversePayment, PayAdvance, HeldKept
<1>3. CASE \E b \in Bills, kind \in {"advance-recovery", "retention"} : Deduct(b, kind, a)
  <2> PICK b \in Bills, kind \in {"advance-recovery", "retention"} : Deduct(b, kind, a)
    BY <1>3
  <2>1. PICK k \in LiveCertOf(b) :
            /\ held' = Append(held, [cert |-> k, kind |-> kind, amount |-> a, released |-> 0, from |-> 0])
            /\ certs' = certs
    BY DEF Deduct
  <2> DEFINE w == [cert |-> k, kind |-> kind, amount |-> a, released |-> 0, from |-> 0]
  <2>2. a \in Nat /\ k \in Nat
    <3>1. certs \in Seq(Certificates)
      BY InvIs DEF MoneyHolds, Book, BookTyped
    <3>2. k \in DOMAIN certs
      BY DEF LiveCertOf, LiveCerts
    <3> QED BY <3>1, <3>2, CommercialAssumption
  <2>3. w \in Withholdings /\ w.released <= w.amount
    BY <2>2 DEF Withholdings
  <2>4. held' = Append(held, w)
    BY <2>1
  <2> HIDE DEF w
  <2> QED BY <2>1, <2>3, <2>4 DEF HeldMoves
<1>4. CASE \E h \in DOMAIN held : ReleaseDeduction(h, a)
  <2> PICK h \in DOMAIN held : ReleaseDeduction(h, a)
    BY <1>4
  <2>1. a <= held[h].amount - held[h].released /\ held' = Given(held, h, a) /\ certs' = certs
    BY DEF ReleaseDeduction, Given, Unreleased
  <2> QED BY <2>1 DEF HeldMoves
<1> QED BY <1>1, <1>2, <1>3, <1>4

LEMMA EvidenceMoves == ASSUME EvidenceNext PROVE HeldKept
<1>1. CASE \E r \in Rows, p \in People, q \in Amounts : AddEvidence(r, p, q) \/ CorrectUp(r, p, q)
  BY <1>1 DEF AddEvidence, CorrectUp, moneyVars, HeldKept
<1>2. CASE \E r \in Rows : ReverseAcceptance(r) \/ \E q \in Amounts : CorrectDown(r, q)
  BY <1>2 DEF ReverseAcceptance, CorrectDown, Disputing, moneyVars, HeldKept
<1>3. CASE \E l \in Lines : WithdrawOrder(l) \/ SignOff(l) \/ RevertSignOff(l)
  BY <1>3 DEF WithdrawOrder, SignOff, RevertSignOff, Disputing, moneyVars, HeldKept
<1> QED BY <1>1, <1>2, <1>3 DEF EvidenceNext

LEMMA WithholdingHolds == ASSUME VendorInv, [Next]_vars PROVE WithholdingStep
<1> SUFFICES ASSUME NEW c \in Bills PROVE Stands(certs, held, certs', held', c)
  BY StandsIs
<1>1. VendorInv'
  BY NextHolds
<1>2. CASE \E b \in Bills, p \in People, x \in Signers : Certify(b, p, x)
  BY <1>1, <1>2, CertifyStands
<1>3. CASE HeldKept
  BY <1>3, HeldStands DEF HeldKept
<1>4. CASE certs' = certs /\ HeldMoves
  BY <1>4, HeldMoveStands DEF HeldMoves
<1>5. CASE UNCHANGED vars
  BY <1>3, <1>5 DEF vars, moneyVars, HeldKept
<1> QED BY <1>2, <1>3, <1>4, <1>5, ClaimMoves, MoneyMoves, EvidenceMoves DEF Next

\* Money withheld from a bill comes back only by a release: no other command,
\* superseding and certifying again among them, lowers what is withheld on the
\* bill's last certificate, and a release lowers it by no more than it gives.
THEOREM WithheldStands == Spec => WithholdingStands
<1>1. VendorInv /\ [Next]_vars => [WithholdingStep]_vars
  BY WithholdingHolds
<1> QED BY <1>1, VendorInvariant, PTL DEF Spec, WithholdingStands, WithholdingStep

=============================================================================

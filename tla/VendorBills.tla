---------------------------- MODULE VendorBills ----------------------------
(* The commercial chain of one vendor: what a bill claims, the evidence it *)
(* rests on, the certificate that freezes that evidence, and the money     *)
(* that leaves against the certificate.  Every command is one transaction  *)
(* under the project's readiness lock and the bill's row lock, so it is    *)
(* one action; a deferred trigger that refuses a command is a conjunct of  *)
(* its guard.                                                              *)
(*                                                                         *)
(* A unit of quantity is billed at one unit of money: rates, tax, freight  *)
(* and cost heads are left out.  A line has one activity, and a vendor one *)
(* project.  A grant is void after any change of its bill's lifecycle      *)
(* version, so a bill keeps only the grants of its current version.        *)
EXTENDS Naturals, Integers, Sequences, FiniteSets, FiniteSetsExt, SequencesExt

CONSTANTS
    Bills, Lines, People,
    Labour,          \* the lines whose evidence is measured work
    Rows, LineOf,    \* evidence rows in the order of their ids, and the line of each
    Ordered,         \* what a line's live order authorises
    Ceiling,         \* a person's approval ceiling
    Amounts,         \* the quantities and sums a command may name
    MaxCerts, MaxApprovals, MaxPayments, MaxHeld, MaxAdvanced,
    Nobody

ASSUME CommercialAssumption ==
    /\ Labour \subseteq Lines /\ LineOf \in [Rows -> Lines] /\ Rows \subseteq Nat
    /\ Ordered \in [Lines -> Nat] /\ Ceiling \in [People -> Nat]
    /\ Amounts \subseteq Nat \ {0} /\ Nobody \notin People
    /\ IsFiniteSet(Bills) /\ IsFiniteSet(Lines) /\ IsFiniteSet(Rows)

VARIABLES
    rows,        \* evidence row -> its net quantity and who recorded it
    open,        \* the lines whose order is live
    done,        \* the labour lines whose activity is signed off
    bills,       \* bill -> status, current claim, and the grants that still hold
    recent,      \* the bills by the age of their current version, newest last
    certs, held, approvals, payments,   \* the append-only ledgers
    advanced     \* what the vendor was paid in advance

evidenceVars == <<rows, open, done>>
moneyVars == <<certs, held, approvals, payments, advanced>>
vars == <<evidenceVars, bills, recent, moneyVars>>

PastCertification == {"certified", "approved-for-payment", "part-paid", "paid"}
Live == PastCertification \cup {"submitted", "under-verification", "verified"}
Statuses == Live \cup {"none", "draft", "disputed", "resolved", "rejected"}
Claims == [Lines -> Amounts \cup {0}] \ {[l \in Lines |-> 0]}
Grants == [rule: {"certify", "approve"}, actor: People, approver: People]
Signers == People \cup {Nobody}

Certificates == [bill: Bills, amount: Nat, live: BOOLEAN, by: People, excusedBy: Signers, draws: [Rows -> Nat]]
Withholdings == [cert: Nat, kind: {"advance-recovery", "retention"}, amount: Nat, released: Nat, from: Nat]

TypeOK ==
    /\ rows \in [Rows -> [qty: Nat, by: SUBSET People]]
    /\ open \subseteq Lines /\ done \subseteq Labour /\ advanced \in Nat
    /\ bills \in [Bills -> [status: Statuses, claim: [Lines -> Nat], grants: SUBSET Grants]]
    /\ recent \in Seq(Bills) /\ IsInjective(recent)
    /\ certs \in Seq(Certificates) /\ held \in Seq(Withholdings)
    /\ approvals \in Seq([cert: Nat, amount: Nat, by: People, excusedBy: Signers])
    /\ payments \in Seq([approval: Nat, amount: Nat, back: Nat])

Init ==
    /\ rows = [r \in Rows |-> [qty |-> 0, by |-> {}]]
    /\ open = Lines /\ done = {}
    /\ bills = [b \in Bills |-> [status |-> "none", claim |-> [l \in Lines |-> 0], grants |-> {}]]
    /\ recent = <<>> /\ certs = <<>> /\ held = <<>> /\ approvals = <<>> /\ payments = <<>>
    /\ advanced = 0

------------------------------------------------------------------------------
(* Folds over evidence and claims.                                          *)

RowsOf(l) == {r \in Rows : LineOf[r] = l}
Evidence(l) == SumFunction([r \in RowsOf(l) |-> rows[r].qty])

InStatus(bs, S) == {b \in Bills : bs[b].status \in S}
Claimed(bs, l) == SumFunction([b \in InStatus(bs, Live) |-> bs[b].claim[l]])
CertifiedClaims(l) == SumFunction([b \in InStatus(bills, PastCertification) |-> bills[b].claim[l]])

LiveCerts == {k \in DOMAIN certs : certs[k].live}
Frozen(r) == SumFunction([k \in LiveCerts |-> certs[k].draws[r]])

BoundsHold(bs, b) ==
    \A l \in Lines : bs[b].claim[l] > 0 =>
        l \in open /\ Claimed(bs, l) <= Ordered[l] /\ Claimed(bs, l) <= Evidence(l)

\* Another bill of the vendor that claims the same on the line.
Twin(b, l) == \E c \in Bills \ {b} : /\ bills[c].status \notin {"none", "draft", "disputed", "resolved"}
                                     /\ bills[c].claim[l] = bills[b].claim[l]

Matched(b) == BoundsHold(bills, b) /\ \A l \in Lines : bills[b].claim[l] > 0 => ~Twin(b, l)

\* What a certificate of the bill takes of each row: greedily, in row order.
Available(r) == Max({0, rows[r].qty - Frozen(r)})
Before(r) == {s \in RowsOf(LineOf[r]) : s < r}
Wanted(b, r) == Max({0, bills[b].claim[LineOf[r]] - SumFunction([s \in Before(r) |-> Available(s)])})
Draws(b) == [r \in Rows |-> Min({Available(r), Wanted(b, r)})]
Drawn(draws, l) == SumFunction([r \in RowsOf(l) |-> draws[r]])
Drawable(b) == \A l \in Lines : Drawn(Draws(b), l) = bills[b].claim[l]

(* Folds over the ledgers.                                                  *)

CertsOf(b) == {k \in DOMAIN certs : certs[k].bill = b}
LiveCertOf(b) == CertsOf(b) \cap LiveCerts
LastCert(b) == Max(CertsOf(b) \cup {0})

Unreleased(h) == held[h].amount - held[h].released
HeldOn(K) == {h \in DOMAIN held : held[h].cert \in K}
Outstanding(H) == SumFunction([h \in H |-> Unreleased(h)])
Withheld(b) == Outstanding(HeldOn(LiveCertOf(b)))
Payable(b) == SumFunction([k \in LiveCertOf(b) |-> certs[k].amount]) - Withheld(b)

ApprovalsOn(K) == {a \in DOMAIN approvals : approvals[a].cert \in K}
Approved(b) == SumFunction([a \in ApprovalsOn(LiveCertOf(b)) |-> approvals[a].amount])
PaymentsOn(As) == {p \in DOMAIN payments : payments[p].approval \in As}
PaidOn(As) == SumFunction([p \in PaymentsOn(As) |-> payments[p].amount - payments[p].back])
Paid(b) == PaidOn(ApprovalsOn(CertsOf(b)))

Recovered == Outstanding({h \in HeldOn(LiveCerts) : held[h].kind = "advance-recovery"})

Derived(b) ==
    CASE Payable(b) = Paid(b) -> "paid"
      [] Payable(b) # Paid(b) /\ (Approved(b) = 0 \/ (Paid(b) = Approved(b) /\ Approved(b) < Payable(b))) -> "certified"
      [] Payable(b) # Paid(b) /\ Approved(b) # 0 /\ Paid(b) = 0 -> "approved-for-payment"
      [] OTHER -> "part-paid"

------------------------------------------------------------------------------
(* The life of a claim.                                                     *)

Moved(b, status) == [bills EXCEPT ![b].status = status, ![b].grants = {}]
Versioned(b, claim, status) == [Moved(b, status) EXCEPT ![b].claim = claim]

Record(b, claim) ==
    /\ bills[b].status = "none"
    /\ bills' = Versioned(b, claim, "draft")
    /\ recent' = Append(recent, b)
    /\ UNCHANGED <<evidenceVars, moneyVars>>

Submit(b) ==
    /\ bills[b].status = "draft"
    /\ bills' = Moved(b, IF BoundsHold(Moved(b, "submitted"), b) THEN "submitted" ELSE "disputed")
    /\ UNCHANGED <<evidenceVars, recent, moneyVars>>

BeginVerification(b) ==
    /\ bills[b].status = "submitted"
    /\ bills' = Moved(b, "under-verification")
    /\ UNCHANGED <<evidenceVars, recent, moneyVars>>

Verify(b) ==
    /\ bills[b].status = "under-verification"
    /\ bills' = Moved(b, IF Matched(b) THEN "verified" ELSE "disputed")
    /\ UNCHANGED <<evidenceVars, recent, moneyVars>>

Reject(b) ==
    /\ bills[b].status \in {"draft", "submitted", "under-verification", "disputed", "verified"}
    /\ bills' = Moved(b, "rejected")
    /\ UNCHANGED <<evidenceVars, recent, moneyVars>>

\* A correction that does not settle the dispute is refused; any other that
\* the evidence does not carry is disputed.
Amended(b, claim) ==
    LET entered == Versioned(b, claim, "submitted")
    IN IF bills[b].status = "disputed" THEN Versioned(b, claim, "resolved")
       ELSE IF BoundsHold(entered, b) THEN entered ELSE Versioned(b, claim, "disputed")

Place(b) == CHOOSE i \in DOMAIN recent : recent[i] = b
Reversioned(b) == Append(RemoveAt(recent, Place(b)), b)

Amend(b, claim) ==
    /\ bills[b].status \in {"submitted", "verified", "disputed"}
    /\ bills[b].status = "disputed" => BoundsHold(Versioned(b, claim, "submitted"), b)
    /\ bills' = Amended(b, claim)
    /\ recent' = Reversioned(b)
    /\ UNCHANGED <<evidenceVars, moneyVars>>

------------------------------------------------------------------------------
(* Certificates.                                                            *)

\* A row's recorder certifies only with a grant; nobody else carries one.
Excuses(b, rule, p, conflict) ==
    IF conflict THEN {g.approver : g \in {x \in bills[b].grants : x.rule = rule /\ x.actor = p}} ELSE {Nobody}

RecordedEvidence(b, p) == \E r \in Rows : Draws(b)[r] > 0 /\ p \in rows[r].by

\* Variant: a deduction that was partly given back is not carried over.
RestatedUntouched(b, n) ==
    LET old == SetToSeq({h \in HeldOn({LastCert(b)}) : held[h].released = 0})
    IN [i \in DOMAIN old |-> [held[old[i]] EXCEPT !.cert = n, !.from = old[i]]]

\* The withholdings of the certificate that is replaced, with what was given
\* back of them, as rows of certificate n.
Restated(b, n) ==
    LET old == SetToSeq(HeldOn({LastCert(b)}))
    IN [i \in DOMAIN old |-> [held[old[i]] EXCEPT !.cert = n, !.from = old[i]]]

RecoveryFits(b) == Recovered' <= advanced

Certify(b, p, excuse) ==
    LET amount == SumFunction([l \in Lines |-> bills[b].claim[l]])
    IN /\ bills[b].status = "verified" /\ Len(certs) < MaxCerts
       /\ \A l \in Labour : bills[b].claim[l] > 0 => l \in done
       /\ Matched(b) /\ Drawable(b)
       /\ excuse \in Excuses(b, "certify", p, RecordedEvidence(b, p))
       /\ Outstanding(HeldOn({LastCert(b)})) <= amount
       /\ certs' = Append(certs, [bill |-> b, amount |-> amount, live |-> TRUE, by |-> p,
                                  excusedBy |-> excuse, draws |-> Draws(b)])
       /\ held' = held \o Restated(b, Len(certs) + 1)
       /\ UNCHANGED <<evidenceVars, recent, approvals, payments, advanced>>
       /\ RecoveryFits(b)
       /\ bills' = Moved(b, Derived(b)')

\* The claim returns to `verified`; its ledgers stay, on a dead certificate.
\* No cash may rest on it: the approvals it takes with it covered that cash.
Supersede(b) ==
    /\ bills[b].status \in PastCertification
    /\ Paid(b) = 0
    /\ \E k \in LiveCertOf(b) : certs' = [certs EXCEPT ![k].live = FALSE]
    /\ bills' = Moved(b, "verified")
    /\ UNCHANGED <<evidenceVars, recent, held, approvals, payments, advanced>>

\* An exception from segregation, for the bill as it stands.  One for the
\* approval is given only to the certifier, while something is left to approve.
Spendable(b, p) ==
    \E k \in LiveCertOf(b) : /\ certs[k].by = p /\ Approved(b) < Min({Payable(b), Ceiling[p]})
                             /\ ~\E g \in bills[b].grants : g.rule = "approve"

GrantException(b, rule, p, approver) ==
    /\ bills[b].status # "none" /\ p # approver
    /\ rule = "approve" => Spendable(b, p)
    /\ ~\E g \in bills[b].grants : g.rule = rule /\ g.actor = p
    /\ bills' = [bills EXCEPT ![b].grants = @ \cup {[rule |-> rule, actor |-> p, approver |-> approver]}]
    /\ UNCHANGED <<evidenceVars, recent, moneyVars>>

------------------------------------------------------------------------------
(* Money.  Each command ends by deriving the bill's status from the folds.  *)

Rederived(b) == Moved(b, IF bills[b].status \in PastCertification THEN Derived(b)' ELSE bills[b].status)

Approve(b, p, a, excuse) ==
    \E k \in LiveCertOf(b) :
        /\ Len(approvals) < MaxApprovals
        /\ excuse \in Excuses(b, "approve", p, certs[k].by = p)
        /\ a <= Payable(b) - Approved(b)
        /\ Approved(b) + a <= Ceiling[p]
        /\ approvals' = Append(approvals, [cert |-> k, amount |-> a, by |-> p, excusedBy |-> excuse])
        /\ UNCHANGED <<certs, held, payments, advanced>>
        /\ bills' = Rederived(b)
        /\ UNCHANGED <<evidenceVars, recent>>

BillOf(ap) == certs[approvals[ap].cert].bill

\* Variant: an approval found before the bill was locked is not looked at again.
PayFitsStale(ap, a) == /\ a <= Approved(BillOf(ap)) - Paid(BillOf(ap))
                       /\ a <= approvals[ap].amount - PaidOn({ap})

PayFits(ap, a) == /\ approvals[ap].cert \in LiveCerts
                  /\ a <= Approved(BillOf(ap)) - Paid(BillOf(ap))
                  /\ a <= approvals[ap].amount - PaidOn({ap})

Pay(ap, a) ==
    /\ Len(payments) < MaxPayments /\ PayFits(ap, a)
    /\ payments' = Append(payments, [approval |-> ap, amount |-> a, back |-> 0])
    /\ UNCHANGED <<certs, held, approvals, advanced>>
    /\ bills' = Rederived(BillOf(ap))
    /\ UNCHANGED <<evidenceVars, recent>>

ReversePayment(p, a) ==
    /\ a <= payments[p].amount - payments[p].back
    /\ payments' = [payments EXCEPT ![p].back = @ + a]
    /\ UNCHANGED <<certs, held, approvals, advanced>>
    /\ bills' = Rederived(BillOf(payments[p].approval))
    /\ UNCHANGED <<evidenceVars, recent>>

\* The last guard is the approved bound: what was approved stays payable.
Deduct(b, kind, a) ==
    \E k \in LiveCertOf(b) :
        /\ Len(held) < MaxHeld /\ a <= certs[k].amount - Withheld(b)
        /\ kind = "advance-recovery" => Recovered + a <= advanced
        /\ Approved(b) > 0 => Approved(b) <= Payable(b) - a
        /\ held' = Append(held, [cert |-> k, kind |-> kind, amount |-> a, released |-> 0, from |-> 0])
        /\ UNCHANGED <<certs, approvals, payments, advanced>>
        /\ bills' = Rederived(b)
        /\ UNCHANGED <<evidenceVars, recent>>

ReleaseDeduction(h, a) ==
    /\ a <= Unreleased(h)
    /\ held' = [held EXCEPT ![h].released = @ + a]
    /\ UNCHANGED <<certs, approvals, payments, advanced>>
    /\ bills' = Rederived(certs[held[h].cert].bill)
    /\ UNCHANGED <<evidenceVars, recent>>

PayAdvance(a) ==
    /\ advanced + a <= MaxAdvanced
    /\ advanced' = advanced + a
    /\ UNCHANGED <<evidenceVars, bills, recent, certs, held, approvals, payments>>

------------------------------------------------------------------------------
(* The evidence beneath the claims: acceptances of stock, measurements of   *)
(* work, the orders both rest on, and the sign-off a measurement needs.     *)

NotNewer(b) == {recent[i] : i \in 1 .. Place(b)}

\* Variant: each claim is held against the evidence by itself.
DisputedOneByOne(l, left) == {b \in ToSet(recent) : bills[b].status \in Live /\ bills[b].claim[l] > left}

\* The live claims on a line disputed, newest first, until the rest fits.
DisputedBy(l, left) ==
    {b \in ToSet(recent) : /\ bills[b].status \in Live /\ bills[b].claim[l] > 0
                           /\ SumFunction([c \in NotNewer(b) \cap InStatus(bills, Live) |-> bills[c].claim[l]]) > left}

\* A certified bill cannot be disputed: the withdrawal that asks for it fails.
Disputing(l, left) ==
    /\ \A b \in DisputedBy(l, left) : bills[b].status \notin PastCertification
    /\ bills' = [b \in Bills |-> IF b \in DisputedBy(l, left)
                                 THEN [bills[b] EXCEPT !.status = "disputed", !.grants = {}] ELSE bills[b]]
    /\ UNCHANGED <<recent, moneyVars>>

CanAdd(r, q) == /\ LineOf[r] \in open /\ (LineOf[r] \in Labour => LineOf[r] \in done)
                /\ Evidence(LineOf[r]) + q <= Ordered[LineOf[r]]

AddEvidence(r, p, q) ==
    /\ rows[r].qty = 0 /\ \A s \in RowsOf(LineOf[r]) : s < r => rows[s].by # {}
    /\ CanAdd(r, q)
    /\ rows' = [rows EXCEPT ![r] = [qty |-> q, by |-> {p}]]
    /\ UNCHANGED <<open, done, bills, recent, moneyVars>>

\* A positive correction of a measurement, whoever makes it.
CorrectUp(r, p, q) ==
    /\ LineOf[r] \in Labour /\ rows[r].by # {} /\ CanAdd(r, q)
    /\ rows' = [rows EXCEPT ![r] = [qty |-> @.qty + q, by |-> @.by \cup {p}]]
    /\ UNCHANGED <<open, done, bills, recent, moneyVars>>

\* Variant: the freeze is asked of the line.
FreezeOfTheLine(r, left) == SumFunction([s \in RowsOf(LineOf[r]) |-> Frozen(s)]) <= Evidence(LineOf[r]) - rows[r].qty + left

\* What the certificates froze of the row has to be left in it.
FreezeStands(r, left) == Frozen(r) <= left

ReverseAcceptance(r) ==
    LET l == LineOf[r]
    IN /\ l \notin Labour /\ rows[r].qty > 0 /\ FreezeStands(r, 0)
       /\ rows' = [rows EXCEPT ![r].qty = 0]
       /\ Disputing(l, Evidence(l) - rows[r].qty)
       /\ UNCHANGED <<open, done>>

CorrectDown(r, q) ==
    LET l == LineOf[r]
    IN /\ l \in Labour /\ l \in done /\ q <= rows[r].qty
       /\ Evidence(l) - q >= CertifiedClaims(l)
       /\ FreezeStands(r, rows[r].qty - q)
       /\ rows' = [rows EXCEPT ![r].qty = @ - q]
       /\ Disputing(l, Evidence(l) - q)
       /\ UNCHANGED <<open, done>>

\* An order cancelled, or a line amended away: it orders nothing any more.
WithdrawOrder(l) ==
    /\ l \in open /\ (l \notin Labour => Evidence(l) = 0)
    /\ open' = open \ {l}
    /\ Disputing(l, 0)
    /\ UNCHANGED <<rows, done>>

SignOff(l) ==
    /\ l \in Labour \ done
    /\ done' = done \cup {l}
    /\ UNCHANGED <<rows, open, bills, recent, moneyVars>>

RevertSignOff(l) ==
    /\ l \in done /\ Evidence(l) = 0 /\ \A r \in RowsOf(l) : Frozen(r) = 0
    /\ done' = done \ {l}
    /\ UNCHANGED <<rows, open, bills, recent, moneyVars>>

------------------------------------------------------------------------------
ClaimNext ==
    \E b \in Bills :
        \/ \E claim \in Claims : Record(b, claim) \/ Amend(b, claim)
        \/ Submit(b) \/ BeginVerification(b) \/ Verify(b) \/ Reject(b) \/ Supersede(b)
        \/ \E p \in People, x \in Signers : Certify(b, p, x)
        \/ \E rule \in {"certify", "approve"}, p \in People, x \in People : GrantException(b, rule, p, x)

MoneyNext ==
    \E a \in Amounts :
        \/ \E b \in Bills, p \in People, x \in Signers : Approve(b, p, a, x)
        \/ \E ap \in DOMAIN approvals : Pay(ap, a)
        \/ \E p \in DOMAIN payments : ReversePayment(p, a)
        \/ \E b \in Bills, kind \in {"advance-recovery", "retention"} : Deduct(b, kind, a)
        \/ \E h \in DOMAIN held : ReleaseDeduction(h, a)
        \/ PayAdvance(a)

EvidenceNext ==
    \/ \E r \in Rows, p \in People, q \in Amounts : AddEvidence(r, p, q) \/ CorrectUp(r, p, q)
    \/ \E r \in Rows : ReverseAcceptance(r) \/ \E q \in Amounts : CorrectDown(r, q)
    \/ \E l \in Lines : WithdrawOrder(l) \/ SignOff(l) \/ RevertSignOff(l)

Next == ClaimNext \/ MoneyNext \/ EvidenceNext

Spec == Init /\ [][Next]_vars

------------------------------------------------------------------------------
(* The live claims on a line never exceed what is accepted or measured     *)
(* under it, whatever is reversed, corrected or cancelled afterwards: a    *)
(* withdrawal of evidence disputes the claims that no longer fit.          *)
ClaimsWithinEvidence ==
    \A l \in Lines : /\ Claimed(bills, l) <= Evidence(l)
                     /\ Claimed(bills, l) > 0 => l \in open

(* What live certificates froze of an evidence row is still in that very   *)
(* row, not merely somewhere on the line, and a certificate's rows carry   *)
(* exactly the claim it certified: evidence is neither swapped nor used    *)
(* by two certificates.                                                    *)
FrozenEvidenceStands ==
    /\ \A r \in Rows : Frozen(r) <= rows[r].qty
    /\ \A k \in LiveCerts, l \in Lines :
           Drawn(certs[k].draws, l) = bills[certs[k].bill].claim[l]

(* Money that is out rests on an approval of a certificate that stands,    *)
(* and paid, approved and withheld together stay within it, through        *)
(* supersession, re-certification, deductions and reversals.               *)
CashIsCovered ==
    /\ \A p \in DOMAIN payments :
           payments[p].back < payments[p].amount => approvals[payments[p].approval].cert \in LiveCerts
    /\ \A b \in Bills, k \in LiveCerts :
           certs[k].bill = b => Paid(b) <= Approved(b) /\ Approved(b) <= Payable(b)

(* A bill past certification shows the status its ledgers derive, whichever *)
(* of the commands moved them last, and exactly those bills have a live    *)
(* certificate.                                                            *)
StatusIsDerived ==
    \A b \in Bills : /\ (bills[b].status \in PastCertification) <=> (LiveCertOf(b) # {})
                     /\ bills[b].status \in PastCertification => bills[b].status = Derived(b)

(* The vendor is never made to return more than it was advanced, though a  *)
(* superseded certificate frees a recovery that another bill then takes    *)
(* and its own re-certification would take again.                          *)
RecoveryWithinAdvance == Recovered <= advanced

(* Money out is covered: by certificates that stand, the recoveries by the *)
(* advances they recover, and every bill shows it.                         *)
MoneyIsCovered == TypeOK /\ CashIsCovered /\ RecoveryWithinAdvance /\ StatusIsDerived

(* Money withheld from a bill comes back only by an attributable release:  *)
(* superseding and re-certifying carries the balance over.                 *)
WithholdingStands ==
    [][\A b \in Bills :
          LET before == HeldOn({LastCert(b)})
              given == SumFunction([h \in before |-> held'[h].released - held[h].released])
          IN Outstanding(before) - given <= Outstanding(HeldOn({LastCert(b)}))']_vars

(* A deduction that was re-stated on a new certificate is history: the     *)
(* deductions migration says that release() refuses it.                    *)
RestatedIsClosed ==
    [][\A h \in DOMAIN held : (\E c \in DOMAIN held : held[c].from = h) => held'[h] = held[h]]_vars

(* Whoever recorded evidence that a live certificate rests on is not its   *)
(* certifier, unless another person excused it.                            *)
EvidenceApart ==
    \A k \in LiveCerts : (\E r \in Rows : certs[k].draws[r] > 0 /\ certs[k].by \in rows[r].by)
                            => certs[k].excusedBy # Nobody
==============================================================================

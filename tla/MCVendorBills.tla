--------------------------- MODULE MCVendorBills ---------------------------
(* Small instances of the commercial chain.  The focus is chosen at the    *)
(* start: `stock` and `work` have every claim and every movement of the    *)
(* evidence of one kind, without money, one person recording and one       *)
(* certifying; `advance` and `cash` start with verified bills and their    *)
(* evidence at rest, and move two bills without approvals, or one bill with *)
(* payments; in `people` anybody acts.                                     *)
EXTENDS VendorBills, TLC

CONSTANTS
    Focuses, Clerk, Manager,
    FewCerts,    \* certificates where evidence moves
    MaxLedger    \* certificates, deductions, approvals and payments together

VARIABLE focus

mcVars == <<vars, focus>>

FirstRow == Min(Rows)
FirstLine == LineOf[FirstRow]

\* At rest, bill b claims b units of the first line.
Verified ==
    /\ rows = [r \in Rows |-> IF r = FirstRow THEN [qty |-> Ordered[FirstLine], by |-> {Clerk}] ELSE [qty |-> 0, by |-> {}]]
    /\ open = Lines /\ done = {}
    /\ bills = [b \in Bills |-> [status |-> "verified", grants |-> {},
                                 claim |-> [l \in Lines |-> IF l = FirstLine THEN b ELSE 0]]]
    /\ recent = SetToSeq(Bills) /\ advanced = 0
    /\ certs = <<>> /\ held = <<>> /\ approvals = <<>> /\ payments = <<>>

MCInit == focus \in Focuses /\ (IF focus \in {"advance", "cash"} THEN Verified ELSE Init)

Usual == /\ \A k \in DOMAIN certs' : certs'[k].by = Manager
         /\ \A r \in Rows : rows'[r].by \subseteq {Clerk}
         /\ \A b \in Bills : \A g \in bills'[b].grants : g.rule = "approve"

Touched == {l \in Lines : \E b \in Bills : bills'[b].claim[l] > 0}
           \cup {LineOf[r] : r \in {s \in Rows : rows'[s].by # {}}} \cup (Lines \ open') \cup done'

\* Evidence moves on one kind of line, two units at most, with few certificates.
Moving(untouched) == /\ Touched \cap untouched = {} /\ Len(certs') <= FewCerts
                     /\ \A l \in Lines : Evidence(l)' <= 2

AtRest == /\ \A b \in Bills : bills'[b].claim = bills[b].claim /\ bills'[b].status # "rejected"
          /\ Len(certs') + Len(held') + Len(approvals') + Len(payments') <= MaxLedger

NothingApproved == approvals' = <<>> /\ \A b \in Bills : bills'[b].grants = {}

OneBill == advanced' = 0 /\ \A b \in Bills \ {Max(Bills)} : bills'[b].status = "verified"

MCNext ==
    /\ UNCHANGED focus
    /\ \/ focus = "stock" /\ (ClaimNext \/ EvidenceNext) /\ Usual /\ Moving(Labour)
       \/ focus = "work" /\ (ClaimNext \/ EvidenceNext) /\ Usual /\ Moving(Lines \ Labour)
       \/ focus = "advance" /\ (ClaimNext \/ MoneyNext) /\ Usual /\ AtRest /\ NothingApproved
       \/ focus = "cash" /\ (ClaimNext \/ MoneyNext) /\ Usual /\ AtRest /\ OneBill
       \/ focus = "people" /\ (ClaimNext \/ EvidenceNext)

MCSpec == MCInit /\ [][MCNext]_mcVars

LastRowLabour == [r \in Rows |-> IF r = Max(Rows) THEN "work" ELSE "stock"]
MoreStock == [l \in Lines |-> IF l = "stock" THEN 3 ELSE 2]
NoCeiling == [p \in People |-> 9]
==============================================================================

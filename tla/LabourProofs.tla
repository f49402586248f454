---------------------------- MODULE LabourProofs ----------------------------
(* Labour, for any number of requirements, orders, dates, workers and         *)
(* revisions.  Who is held: every active allocation stands on a basis, for a *)
(* demand that lives, one slot a day; releasing those who worked does not    *)
(* un-ready a requirement.  What is bought: promises stay within the lines,  *)
(* flags are the derived ones.  What is taken: draws stay within promises    *)
(* and work within shifts.                                                   *)
EXTENDS LabourCapacity, SumTheorems

------------------------------------------------------------------------------
(* Who is held.                                                             *)

(* The rows and heads as the proof needs them: their fields, without bounds. *)
Rows == [status: {"active", "released"}, req: Requirements, act: Activities, fp: Fingerprints,
         date: Dates, draw: Draws, worked: Nat]

ShapeOK == /\ demand \in [Requirements -> Demands]
           /\ held \in [Workers -> Seq(Rows)]

(* The inductive invariant.  Its parts need only each other's shape: the    *)
(* commands that could disturb one of them measure it under the lock.       *)
HeldInv == ShapeOK /\ BasisStands /\ DeadDemandHoldsNobody /\ OneSlotADay

LEMMA RowIn ==
    ASSUME ShapeOK, NEW w \in Workers, NEW i \in DOMAIN held[w]
    PROVE  /\ held[w] \in Seq(Rows) /\ i \in 1 .. Len(held[w]) /\ held[w][i] \in Rows
           /\ held[w][i].req \in Requirements /\ held[w][i].worked \in Nat
<1>1. held[w] \in Seq(Rows)
  BY DEF ShapeOK
<1>2. i \in 1 .. Len(held[w]) /\ held[w][i] \in Rows
  BY <1>1
<1>q. QED
  BY <1>1, <1>2 DEF Rows

(* What was active before the step is all that is active after it, and with *)
(* the same identity: releases and records of work.                         *)
OnlyFewer ==
    /\ held' \in [Workers -> Seq(Rows)]
    /\ \A w \in Workers : \A i \in Active(w)' :
           /\ i \in Active(w)
           /\ held'[w][i].req = held[w][i].req /\ held'[w][i].fp = held[w][i].fp
           /\ held'[w][i].date = held[w][i].date /\ held'[w][i].draw = held[w][i].draw

LEMMA FewerKeeps ==
    ASSUME HeldInv, OnlyFewer, UNCHANGED <<demand, subs>>
    PROVE  HeldInv'
<1>1. ShapeOK'
  BY DEF HeldInv, ShapeOK, OnlyFewer
<1>2. BasisStands'
  <2> SUFFICES ASSUME NEW w \in Workers, NEW i \in Active(w)'
               PROVE  Qualified(w, held[w][i].req, held[w][i].fp)'
    BY DEF BasisStands
  <2>1. Qualified(w, held[w][i].req, held[w][i].fp)
    BY DEF HeldInv, OnlyFewer, BasisStands
  <2>q. QED
    BY <2>1 DEF OnlyFewer, Qualified
<1>3. DeadDemandHoldsNobody'
  BY DEF HeldInv, OnlyFewer, DeadDemandHoldsNobody
<1>4. OneSlotADay'
  BY DEF HeldInv, OnlyFewer, OneSlotADay
<1>q. QED
  BY <1>1, <1>2, <1>3, <1>4 DEF HeldInv

LEMMA SameKeeps ==
    ASSUME HeldInv, UNCHANGED <<held, demand, subs>>
    PROVE  HeldInv'
BY DEF HeldInv, ShapeOK, BasisStands, DeadDemandHoldsNobody, OneSlotADay, Active, Qualified

LEMMA InitHeld == Init => HeldInv
<1> SUFFICES ASSUME Init PROVE HeldInv
  OBVIOUS
<1>1. AnyOf(Activities) \in Activities /\ AnyOf(Fingerprints) \in Fingerprints
  BY SupplyBounds DEF AnyOf
<1>2. ShapeOK
  BY <1>1, SupplyBounds DEF Init, SupplyInit, ShapeOK, Demands, Quantities
<1>3. \A w \in Workers : Active(w) = {}
  BY DEF Init, Active
<1>q. QED
  BY <1>2, <1>3 DEF HeldInv, BasisStands, DeadDemandHoldsNobody, OneSlotADay

------------------------------------------------------------------------------

LEMMA DemandHeld ==
    ASSUME HeldInv, DemandNext
    PROVE  HeldInv'
<1> USE DEF HeldInv
<1>0. UNCHANGED <<held, subs>>
  BY DEF DemandNext, CreateRequirement, Revise, CancelRequirement, capacityVars
<1>1. BasisStands' /\ OneSlotADay'
  BY <1>0 DEF BasisStands, OneSlotADay, Active, Qualified
<1>2. ASSUME NEW r \in Requirements, NEW act \in Activities, NEW fp \in Fingerprints, NEW slices \in Slices,
             CreateRequirement(r, act, fp, slices) \/ Revise(r, act, fp, slices)
      PROVE  ShapeOK' /\ DeadDemandHoldsNobody'
  <2>1. demand'[r].status = "open" /\ \A x \in Requirements \ {r} : demand'[x] = demand[x]
    BY <1>2 DEF CreateRequirement, Revise, ShapeOK
  <2>2. demand' \in [Requirements -> Demands]
    <3>1. slices \in [Dates -> Quantities]
      BY DEF Slices
    <3>2. CASE CreateRequirement(r, act, fp, slices)
      BY <3>1, <3>2 DEF CreateRequirement, ShapeOK, Demands
    <3>3. CASE Revise(r, act, fp, slices)
      <4>1. demand[r].rev \in Nat
        BY DEF ShapeOK, Demands
      <4>q. QED
        BY <3>1, <3>3, <4>1 DEF Revise, ShapeOK, Demands
    <3>q. QED
      BY <1>2, <3>2, <3>3
  <2>3. \A w \in Workers : \A i \in Active(w) : held[w][i].req \in Requirements
    BY RowIn DEF Active
  <2>q. QED
    BY <1>0, <2>1, <2>2, <2>3 DEF ShapeOK, DeadDemandHoldsNobody, Active
<1>3. ASSUME NEW r \in Requirements, CancelRequirement(r)
      PROVE  ShapeOK' /\ DeadDemandHoldsNobody'
  <2>1. \A x \in Requirements \ {r} : demand'[x] = demand[x]
    BY <1>3 DEF CancelRequirement, ShapeOK
  <2>2. demand' \in [Requirements -> Demands]
    <3> DEFINE once == [demand EXCEPT ![r].status = "cancelled"]
    <3>1. demand[r] \in Demands
      BY DEF ShapeOK
    <3>2. [demand[r] EXCEPT !.status = "cancelled"] \in Demands
      BY <3>1 DEF Demands
    <3>3. once \in [Requirements -> Demands]
      BY <3>2 DEF ShapeOK
    <3>4. demand' = [once EXCEPT ![r].rev = @ + 1]
      BY <1>3 DEF CancelRequirement
    <3> HIDE DEF once
    <3>5. [once[r] EXCEPT !.rev = @ + 1] \in Demands
      BY <3>3 DEF Demands
    <3>q. QED
      BY <3>3, <3>4, <3>5
  <2>3. \A w \in Workers : \A i \in Active(w) : held[w][i].req \in Requirements \ {r}
    <3>1. \A w \in Workers : \A i \in Active(w) : held[w][i].req # r
      BY <1>3 DEF CancelRequirement, Disposable
    <3>2. \A w \in Workers : \A i \in Active(w) : held[w][i].req \in Requirements
      BY RowIn DEF Active
    <3>q. QED
      BY <3>1, <3>2
  <2>q. QED
    BY <1>0, <2>1, <2>2, <2>3 DEF ShapeOK, DeadDemandHoldsNobody, Active
<1>q. QED
  BY <1>1, <1>2, <1>3 DEF DemandNext

LEMMA AllocateHeld ==
    ASSUME HeldInv, NEW crew \in SUBSET Workers, NEW r \in Requirements, NEW d \in Dates, NEW draw \in Draws,
           Allocate(crew, r, d, draw)
    PROVE  HeldInv'
<1> USE DEF HeldInv
<1> DEFINE row == [status |-> "active", req |-> r, act |-> demand[r].act, fp |-> demand[r].fp,
                   date |-> d, draw |-> draw, worked |-> 0]
<1>1. UNCHANGED <<demand, subs>> /\ demand[r].status = "open"
  BY DEF Allocate, supplyVars
<1>2. row \in Rows
  BY DEF ShapeOK, Demands, Rows
<1>3. \A w \in Workers : held'[w] = IF w \in crew THEN Append(held[w], row) ELSE held[w]
  BY DEF Allocate
<1>4. ShapeOK'
  <2>1. \A w \in Workers : held'[w] \in Seq(Rows)
    <3> SUFFICES ASSUME NEW w \in Workers PROVE held'[w] \in Seq(Rows)
      OBVIOUS
    <3> HIDE DEF row
    <3>1. held[w] \in Seq(Rows) /\ Append(held[w], row) \in Seq(Rows)
      BY <1>2 DEF ShapeOK
    <3>q. QED
      BY <1>3, <3>1
  <2>q. QED
    BY <1>1, <2>1 DEF ShapeOK, Allocate
<1>5. \A w \in Workers : \A i \in Active(w)' :
          \/ i \in Active(w) /\ held'[w][i] = held[w][i]
          \/ w \in crew /\ i = Len(held[w]) + 1 /\ held'[w][i] = row
  <2> SUFFICES ASSUME NEW w \in Workers, NEW i \in Active(w)'
               PROVE  \/ i \in Active(w) /\ held'[w][i] = held[w][i]
                      \/ w \in crew /\ i = Len(held[w]) + 1 /\ held'[w][i] = row
    OBVIOUS
  <2>1. held[w] \in Seq(Rows)
    BY DEF ShapeOK
  <2>2. CASE w \notin crew
    BY <1>3, <2>2 DEF Active
  <2>3. CASE w \in crew
    <3>1. held'[w] = Append(held[w], row)
      BY <1>3, <2>3
    <3> HIDE DEF row
    <3>2. i \in 1 .. Len(held[w]) + 1 /\ held'[w][i].status = "active"
      BY <2>1, <3>1 DEF Active
    <3>3. \A k \in 1 .. Len(held[w]) : held'[w][k] = held[w][k]
      BY <2>1, <3>1
    <3>4. held'[w][Len(held[w]) + 1] = row
      BY <2>1, <3>1
    <3>q. QED
      BY <2>1, <2>3, <3>2, <3>3, <3>4 DEF Active
  <2>q. QED
    BY <2>2, <2>3
<1>6. BasisStands'
  <2> SUFFICES ASSUME NEW w \in Workers, NEW i \in Active(w)'
               PROVE  Qualified(w, held'[w][i].req, held'[w][i].fp)
    BY <1>1 DEF BasisStands, Qualified
  <2>1. CASE i \in Active(w) /\ held'[w][i] = held[w][i]
    BY <2>1 DEF BasisStands
  <2>2. CASE w \in crew /\ held'[w][i] = row
    <3>1. Qualified(w, r, demand[r].fp)
      BY <2>2 DEF Allocate
    <3>q. QED
      BY <2>2, <3>1
  <2>q. QED
    BY <1>5, <2>1, <2>2
<1>7. DeadDemandHoldsNobody'
  BY <1>1, <1>5 DEF DeadDemandHoldsNobody
<1>8. OneSlotADay'
  <2>1. \A w \in crew : \A i \in Active(w) : held[w][i].date # d
    BY DEF Allocate
  <2>2. \A w \in Workers : Active(w) \subseteq 1 .. Len(held[w]) /\ Len(held[w]) \in Nat
    BY DEF Active, ShapeOK
  <2>q. QED
    BY <1>5, <2>1, <2>2 DEF OneSlotADay
<1>q. QED
  BY <1>4, <1>6, <1>7, <1>8

\* One row is replaced, by one on the same demand: released, or with more minutes.
Alike(row, old) ==
    /\ row.req = old.req /\ row.act = old.act /\ row.fp = old.fp
    /\ row.date = old.date /\ row.draw = old.draw

RowMoved(w, i, row) == held' = [held EXCEPT ![w][i] = row] /\ Alike(row, held[w][i])

LEMMA ReleaseMoves ==
    ASSUME ShapeOK, NEW w \in Workers, NEW i \in Active(w), Release(w, i)
    PROVE  \E row \in Rows : RowMoved(w, i, row) /\ row.worked = held[w][i].worked
<1> DEFINE row == [held[w][i] EXCEPT !.status = "released"]
<1>1. held[w][i] \in Rows
  BY RowIn DEF Active
<1>2. row \in Rows /\ Alike(row, held[w][i]) /\ row.worked = held[w][i].worked
  BY <1>1 DEF Rows, Alike
<1>3. held' = [held EXCEPT ![w][i] = row]
  BY DEF Release
<1> HIDE DEF row
<1>q. QED
  BY <1>2, <1>3 DEF RowMoved

LEMMA RecordMoves ==
    ASSUME ShapeOK, NEW w \in Workers, NEW i \in Active(w), NEW m \in Portions, RecordWork(w, i, m)
    PROVE  \E row \in Rows : RowMoved(w, i, row) /\ row.worked = held[w][i].worked + m
<1> DEFINE row == [held[w][i] EXCEPT !.worked = @ + m]
<1>1. held[w][i] \in Rows /\ held[w][i].worked + m \in Nat
  BY RowIn, CapacityBounds DEF Active
<1>2. row \in Rows /\ row.worked = held[w][i].worked + m
  BY <1>1 DEF Rows
<1>3. Alike(row, held[w][i])
  BY <1>1 DEF Rows, Alike
<1>4. held' = [held EXCEPT ![w][i] = row]
  BY DEF RecordWork
<1> HIDE DEF row
<1>q. QED
  BY <1>2, <1>3, <1>4 DEF RowMoved

LEMMA RowPlaced ==
    ASSUME ShapeOK, NEW w \in Workers, NEW i \in Active(w), NEW row \in Rows, RowMoved(w, i, row)
    PROVE  /\ held' \in [Workers -> Seq(Rows)]
           /\ \A x \in Workers : DOMAIN held'[x] = DOMAIN held[x]
           /\ \A x \in Workers : \A j \in DOMAIN held[x] :
                  held'[x][j] = IF x = w /\ j = i THEN row ELSE held[x][j]
<1>1. held[w] \in Seq(Rows) /\ i \in 1 .. Len(held[w])
  BY RowIn DEF Active
<1>2. held'[w] = [held[w] EXCEPT ![i] = row] /\ \A x \in Workers \ {w} : held'[x] = held[x]
  BY DEF RowMoved, ShapeOK
<1>3. held'[w] \in Seq(Rows) /\ DOMAIN held'[w] = DOMAIN held[w]
  BY <1>1, <1>2
<1>4. held' \in [Workers -> Seq(Rows)]
  BY <1>2, <1>3 DEF RowMoved, ShapeOK
<1>5. \A j \in DOMAIN held[w] : held'[w][j] = IF j = i THEN row ELSE held[w][j]
  BY <1>1, <1>2
<1>q. QED
  BY <1>2, <1>3, <1>4, <1>5

LEMMA RowFewer ==
    ASSUME ShapeOK, NEW w \in Workers, NEW i \in Active(w),
           Release(w, i) \/ \E m \in Portions : RecordWork(w, i, m)
    PROVE  OnlyFewer
<1>1. PICK row \in Rows : RowMoved(w, i, row)
  BY ReleaseMoves, RecordMoves
<1>2. /\ held' \in [Workers -> Seq(Rows)]
      /\ \A x \in Workers : DOMAIN held'[x] = DOMAIN held[x]
      /\ \A x \in Workers : \A j \in DOMAIN held[x] :
             held'[x][j] = IF x = w /\ j = i THEN row ELSE held[x][j]
  BY <1>1, RowPlaced
<1>3. Alike(row, held[w][i])
  BY <1>1 DEF RowMoved
<1>q. QED
  BY <1>2, <1>3 DEF OnlyFewer, Active, Alike

LEMMA RowHeld ==
    ASSUME HeldInv, NEW w \in Workers, NEW i \in Active(w),
           Release(w, i) \/ \E m \in Portions : RecordWork(w, i, m)
    PROVE  HeldInv'
<1>1. UNCHANGED <<demand, subs>>
  BY DEF Release, RecordWork, supplyVars
<1>q. QED
  BY <1>1, RowFewer, FewerKeeps DEF HeldInv

LEMMA ApproveHeld ==
    ASSUME HeldInv, NEW r \in Requirements, NEW to \in Fingerprints, ApproveSubstitution(r, to)
    PROVE  HeldInv'
<1>1. UNCHANGED <<held, demand>> /\ subs \subseteq subs'
  BY DEF ApproveSubstitution, supplyVars
<1>q. QED
  BY <1>1 DEF HeldInv, ShapeOK, BasisStands, DeadDemandHoldsNobody, OneSlotADay, Active, Qualified

\* A revocation takes one target away and releases whoever had only that.
LEMMA RevokeRows ==
    ASSUME ShapeOK, NEW r \in Requirements, NEW from \in Fingerprints, NEW to \in Fingerprints,
           RevokeSubstitution(r, from, to)
    PROVE  /\ UNCHANGED demand /\ subs' = subs \ {<<r, from, to>>}
           /\ held' \in [Workers -> Seq(Rows)] /\ ShapeOK'
           /\ \A w \in Workers :
                  /\ DOMAIN held'[w] = DOMAIN held[w]
                  /\ \A i \in DOMAIN held[w] :
                         Alike(held'[w][i], held[w][i]) /\ held'[w][i].worked = held[w][i].worked
                  /\ \A i \in Active(w)' : /\ i \in Active(w) /\ held'[w][i] = held[w][i]
                                           /\ ~StoodOn(w, held[w][i], r, from, to, subs')
<1>1. UNCHANGED demand /\ subs' = subs \ {<<r, from, to>>}
  BY DEF RevokeSubstitution, supplyVars
<1>2. \A w \in Workers :
          /\ held[w] \in Seq(Rows) /\ DOMAIN held'[w] = DOMAIN held[w]
          /\ \A i \in DOMAIN held[w] :
                 held'[w][i] = IF StoodOn(w, held[w][i], r, from, to, subs')
                               THEN [held[w][i] EXCEPT !.status = "released"] ELSE held[w][i]
  BY DEF RevokeSubstitution, ShapeOK
<1>3. \A w \in Workers : \A i \in DOMAIN held[w] : held[w][i] \in Rows /\ held'[w][i] \in Rows
  <2> SUFFICES ASSUME NEW w \in Workers, NEW i \in DOMAIN held[w]
               PROVE  held[w][i] \in Rows /\ held'[w][i] \in Rows
    OBVIOUS
  <2>1. held[w][i] \in Rows
    BY RowIn
  <2>2. [held[w][i] EXCEPT !.status = "released"] \in Rows
    BY <2>1 DEF Rows
  <2>q. QED
    BY <1>2, <2>1, <2>2
<1>4. ShapeOK'
  <2>1. \A w \in Workers : held'[w] \in Seq(Rows)
    <3> SUFFICES ASSUME NEW w \in Workers PROVE held'[w] \in Seq(Rows)
      OBVIOUS
    <3>1. held'[w] = [i \in 1 .. Len(held[w]) |-> held'[w][i]]
      BY <1>2 DEF RevokeSubstitution
    <3>q. QED
      BY <1>2, <1>3, <3>1
  <2>q. QED
    BY <1>1, <2>1 DEF ShapeOK, RevokeSubstitution
<1>5. \A w \in Workers : \A i \in Active(w)' :
          i \in Active(w) /\ held'[w][i] = held[w][i] /\ ~StoodOn(w, held[w][i], r, from, to, subs')
  <2> SUFFICES ASSUME NEW w \in Workers, NEW i \in Active(w)'
               PROVE  i \in Active(w) /\ held'[w][i] = held[w][i]
                      /\ ~StoodOn(w, held[w][i], r, from, to, subs')
    OBVIOUS
  <2>1. i \in DOMAIN held[w] /\ held'[w][i].status = "active"
    BY <1>2 DEF Active
  <2>2. [held[w][i] EXCEPT !.status = "released"].status = "released"
    BY <1>3, <2>1 DEF Rows
  <2>q. QED
    BY <1>2, <2>1, <2>2 DEF Active
<1>6. \A w \in Workers : \A i \in DOMAIN held[w] :
          Alike(held'[w][i], held[w][i]) /\ held'[w][i].worked = held[w][i].worked
  <2> SUFFICES ASSUME NEW w \in Workers, NEW i \in DOMAIN held[w]
               PROVE  Alike(held'[w][i], held[w][i]) /\ held'[w][i].worked = held[w][i].worked
    OBVIOUS
  <2>1. Alike([held[w][i] EXCEPT !.status = "released"], held[w][i])
        /\ [held[w][i] EXCEPT !.status = "released"].worked = held[w][i].worked
    BY <1>3 DEF Rows, Alike
  <2>q. QED
    BY <1>2, <2>1 DEF Alike
<1>q. QED
  BY <1>1, <1>2, <1>4, <1>5, <1>6 DEF ShapeOK

LEMMA RevokeHeld ==
    ASSUME HeldInv, NEW r \in Requirements, NEW from \in Fingerprints, NEW to \in Fingerprints,
           RevokeSubstitution(r, from, to)
    PROVE  HeldInv'
<1> USE DEF HeldInv
<1>1. UNCHANGED demand /\ subs' = subs \ {<<r, from, to>>} /\ ShapeOK'
  BY RevokeRows
<1>2. \A w \in Workers : \A i \in Active(w)' :
          i \in Active(w) /\ held'[w][i] = held[w][i] /\ ~StoodOn(w, held[w][i], r, from, to, subs')
  BY RevokeRows
<1>3. BasisStands'
  <2> SUFFICES ASSUME NEW w \in Workers, NEW i \in Active(w)'
               PROVE  \E own \in Native[w] : \/ own = held'[w][i].fp
                                              \/ <<held'[w][i].req, held'[w][i].fp, own>> \in subs'
    BY DEF BasisStands, Qualified
  <2> DEFINE q == held[w][i].req
             f == held[w][i].fp
  <2>1. i \in Active(w) /\ held'[w][i] = held[w][i] /\ ~StoodOn(w, held[w][i], r, from, to, subs')
    BY <1>2
  <2>2. PICK t \in Native[w] : t = f \/ <<q, f, t>> \in subs
    BY <2>1 DEF BasisStands, Qualified
  <2>3. CASE t = f \/ <<q, f, t>> # <<r, from, to>>
    BY <1>1, <2>1, <2>2, <2>3
  <2>4. CASE t # f /\ q = r /\ f = from /\ t = to
    <3>1. held[w][i].status = "active"
      BY <2>1 DEF Active
    <3>2. from \in Native[w] \/ \E own \in Native[w] : <<r, from, own>> \in subs'
      BY <2>1, <2>2, <2>4, <3>1 DEF StoodOn
    <3>q. QED
      BY <2>1, <2>4, <3>2
  <2>5. t = f \/ <<q, f, t>> # <<r, from, to>> \/ (t # f /\ q = r /\ f = from /\ t = to)
    OBVIOUS
  <2>q. QED
    BY <2>3, <2>4, <2>5
<1>4. DeadDemandHoldsNobody' /\ OneSlotADay'
  BY <1>1, <1>2 DEF DeadDemandHoldsNobody, OneSlotADay
<1>q. QED
  BY <1>1, <1>3, <1>4

LEMMA StepHeld == HeldInv /\ [Next]_vars => HeldInv'
<1> SUFFICES ASSUME HeldInv, [Next]_vars PROVE HeldInv'
  OBVIOUS
<1>1. CASE DemandNext
  BY <1>1, DemandHeld
<1>2. CASE SupplyNext /\ UNCHANGED capacityVars
  <2>1. UNCHANGED demand
    <3>1. ASSUME NEW q \in Requisitions,
                 \/ (\E want \in Wants : CreateRequisition(q, want)) \/ Submit(q)
                 \/ Answer(q, "approved") \/ Answer(q, "rejected")
                 \/ (\E s \in Slots : CancelLine(q, s)) \/ CloseRequisition(q)
          PROVE  UNCHANGED demand
      BY <3>1 DEF CreateRequisition, Submit, Answer, CancelLine, CloseRequisition
    <3>2. ASSUME NEW o \in Orders,
                 \/ (\E q \in Requisitions, want \in Wants : CreateOrder(o, q, want))
                 \/ IssueOrder(o) \/ CancelOrder(o) \/ CloseShort(o)
                 \/ (\E o2 \in Orders, want \in Wants : Amend(o, o2, want))
          PROVE  UNCHANGED demand
      BY <3>2 DEF CreateOrder, IssueOrder, Amend, CancelOrder, CloseShort
    <3>3. ASSUME NEW o \in Orders, NEW s \in Slots,
                 CommitCapacity(o, s) \/ ReviseCapacity(o, s) \/ DefaultCapacity(o, s)
          PROVE  UNCHANGED demand
      BY <3>3 DEF CommitCapacity, ReviseCapacity, DefaultCapacity
    <3>q. QED
      BY <1>2, <3>1, <3>2, <3>3 DEF SupplyNext
  <2>q. QED
    BY <1>2, <2>1, SameKeeps DEF capacityVars
<1>3. CASE CapacityNext
  <2>1. ASSUME NEW r \in Requirements, NEW crew \in SUBSET Workers \ {{}}, NEW d \in Dates, NEW draw \in Draws,
               Allocate(crew, r, d, draw)
        PROVE  HeldInv'
    BY <2>1, AllocateHeld
  <2>2. ASSUME NEW r \in Requirements, NEW fp \in Fingerprints, ApproveSubstitution(r, fp)
        PROVE  HeldInv'
    BY <2>2, ApproveHeld
  <2>3. ASSUME NEW r \in Requirements, NEW from \in Fingerprints, NEW to \in Fingerprints,
               RevokeSubstitution(r, from, to)
        PROVE  HeldInv'
    BY <2>3, RevokeHeld
  <2>4. ASSUME NEW w \in Workers, NEW i \in Active(w), Release(w, i) \/ \E m \in Portions : RecordWork(w, i, m)
        PROVE  HeldInv'
    BY <2>4, RowHeld
  <2>5. ASSUME NEW w \in Workers,
               (\E d \in Dates : RecordAttendance(w, d) \/ RevokeAttendance(w, d)) \/ RevokeWorker(w)
        PROVE  HeldInv'
    BY <2>5, SameKeeps DEF RecordAttendance, RevokeAttendance, RevokeWorker, supplyVars
  <2>q. QED
    BY <1>3, <2>1, <2>2, <2>3, <2>4, <2>5 DEF CapacityNext
<1>4. CASE UNCHANGED vars
  BY <1>4, SameKeeps DEF vars, supplyVars, capacityVars
<1>q. QED
  BY <1>1, <1>2, <1>3, <1>4 DEF Next

LEMMA HeldIsInvariant == Spec => []HeldInv
BY InitHeld, StepHeld, PTL DEF Spec

------------------------------------------------------------------------------

\* Nobody is held on a basis that is gone, for a demand that is cancelled or on
\* two slots of a day: however revisions move the head, substitutions come and
\* go and crews are allocated and released.
THEOREM NobodyHeldInVain == Spec => []HeldSoundly
<1>1. HeldInv => HeldSoundly
  BY DEF HeldInv, HeldSoundly
<1>q. QED
  BY HeldIsInvariant, <1>1, PTL

------------------------------------------------------------------------------
(* Readiness.  While substitutions only come, every row keeps its place, its *)
(* identity and its minutes, and an active one can only be released.        *)
RowsKept ==
    \A w \in Workers : \A i \in DOMAIN held[w] :
        /\ i \in DOMAIN held'[w]
        /\ held'[w][i].req = held[w][i].req /\ held'[w][i].act = held[w][i].act
        /\ held'[w][i].fp = held[w][i].fp /\ held'[w][i].date = held[w][i].date
        /\ held'[w][i].worked >= held[w][i].worked

LEMMA SameRowsKept ==
    ASSUME HeldInv, UNCHANGED held
    PROVE  RowsKept
<1>1. \A w \in Workers : \A i \in DOMAIN held[w] : held[w][i].worked \in Nat
  BY RowIn DEF HeldInv
<1>q. QED
  BY <1>1 DEF RowsKept

LEMMA AllocateKeepsRows ==
    ASSUME HeldInv, NEW crew \in SUBSET Workers, NEW r \in Requirements, NEW d \in Dates, NEW draw \in Draws,
           Allocate(crew, r, d, draw)
    PROVE  RowsKept
<1> SUFFICES ASSUME NEW w \in Workers, NEW i \in DOMAIN held[w]
             PROVE  i \in DOMAIN held'[w] /\ held'[w][i] = held[w][i] /\ held[w][i].worked \in Nat
  BY DEF RowsKept
<1>1. held[w] \in Seq(Rows) /\ i \in 1 .. Len(held[w]) /\ held[w][i].worked \in Nat
  BY RowIn DEF HeldInv
<1>2. PICK row : held'[w] = IF w \in crew THEN Append(held[w], row) ELSE held[w]
  BY DEF Allocate
<1>q. QED
  BY <1>1, <1>2

LEMMA RowKeepsRows ==
    ASSUME HeldInv, NEW w \in Workers, NEW i \in Active(w),
           Release(w, i) \/ \E m \in Portions : RecordWork(w, i, m)
    PROVE  RowsKept
<1>0. ShapeOK /\ \A x \in Workers : \A j \in DOMAIN held[x] : held[x][j].worked \in Nat
  BY RowIn DEF HeldInv
<1>1. PICK row \in Rows : RowMoved(w, i, row) /\ row.worked >= held[w][i].worked
  <2>1. \A m \in Portions : m \in Nat
    BY CapacityBounds
  <2>2. held[w][i].worked \in Nat
    BY <1>0 DEF Active
  <2>3. CASE Release(w, i)
    <3>1. PICK row \in Rows : RowMoved(w, i, row) /\ row.worked = held[w][i].worked
      BY <1>0, <2>3, ReleaseMoves
    <3>q. QED
      BY <2>2, <3>1
  <2>4. ASSUME NEW m \in Portions, RecordWork(w, i, m)
        PROVE  \E row \in Rows : RowMoved(w, i, row) /\ row.worked >= held[w][i].worked
    <3>1. PICK row \in Rows : RowMoved(w, i, row) /\ row.worked = held[w][i].worked + m
      BY <1>0, <2>4, RecordMoves
    <3>2. row.worked >= held[w][i].worked
      BY <2>1, <2>2, <3>1
    <3>q. QED
      BY <3>1, <3>2
  <2>q. QED
    BY <2>3, <2>4
<1>2. /\ \A x \in Workers : DOMAIN held'[x] = DOMAIN held[x]
      /\ \A x \in Workers : \A j \in DOMAIN held[x] :
             held'[x][j] = IF x = w /\ j = i THEN row ELSE held[x][j]
  BY <1>0, <1>1, RowPlaced
<1>3. Alike(row, held[w][i])
  BY <1>1 DEF RowMoved
<1>q. QED
  BY <1>0, <1>1, <1>2, <1>3 DEF RowsKept, Alike

LEMMA StepKeepsRows ==
    ASSUME HeldInv, [Next]_vars, subs \subseteq subs'
    PROVE  RowsKept
<1>1. CASE DemandNext
  <2>1. UNCHANGED held
    BY <1>1 DEF DemandNext, CreateRequirement, Revise, CancelRequirement, capacityVars
  <2>q. QED
    BY <2>1, SameRowsKept
<1>2. CASE SupplyNext /\ UNCHANGED capacityVars
  BY <1>2, SameRowsKept DEF capacityVars
<1>3. CASE CapacityNext
  <2>1. ASSUME NEW r \in Requirements, NEW crew \in SUBSET Workers \ {{}}, NEW d \in Dates, NEW draw \in Draws,
               Allocate(crew, r, d, draw)
        PROVE  RowsKept
    BY <2>1, AllocateKeepsRows
  <2>2. ASSUME NEW r \in Requirements, NEW fp \in Fingerprints, ApproveSubstitution(r, fp)
        PROVE  RowsKept
    BY <2>2, SameRowsKept DEF ApproveSubstitution
  <2>3. ASSUME NEW r \in Requirements, NEW from \in Fingerprints, NEW to \in Fingerprints,
               RevokeSubstitution(r, from, to)
        PROVE  RowsKept
    BY <2>3 DEF RevokeSubstitution
  <2>4. ASSUME NEW w \in Workers, NEW i \in Active(w), Release(w, i) \/ \E m \in Portions : RecordWork(w, i, m)
        PROVE  RowsKept
    BY <2>4, RowKeepsRows
  <2>5. ASSUME NEW w \in Workers,
               (\E d \in Dates : RecordAttendance(w, d) \/ RevokeAttendance(w, d)) \/ RevokeWorker(w)
        PROVE  RowsKept
    BY <2>5, SameRowsKept DEF RecordAttendance, RevokeAttendance, RevokeWorker
  <2>q. QED
    BY <1>3, <2>1, <2>2, <2>3, <2>4, <2>5 DEF CapacityNext
<1>4. CASE UNCHANGED vars
  BY <1>4, SameRowsKept DEF vars, capacityVars
<1>q. QED
  BY <1>1, <1>2, <1>3, <1>4 DEF Next

(* Who is there on a date does not become fewer while the demand and the    *)
(* musters stand and only those who have worked are released.               *)
Stands(r) ==
    /\ demand[r].status = "open" /\ demand'[r] = demand[r] /\ subs \subseteq subs'
    /\ present \subseteq present' /\ OnlyWorkedReleased(r)

LEMMA NobodyLeaves ==
    ASSUME HeldInv, HeldInv', RowsKept, NEW r \in Requirements, NEW d \in Dates, Stands(r)
    PROVE  There(r, d) \subseteq There(r, d)'
<1>1. \A w \in Workers : Counting(w, r, d) \subseteq Counting(w, r, d)'
  <2>1. Acceptable(r) \subseteq Acceptable(r)'
    BY DEF Stands, Acceptable
  <2>q. QED
    BY <2>1 DEF Stands, RowsKept, Counting
<1>2. \A w \in Workers : \A i \in Counting(w, r, d) :
          held[w][i].worked \in Nat /\ held'[w][i].worked \in Nat /\ held'[w][i].worked >= held[w][i].worked
  <2>1. \A w \in Workers : \A i \in DOMAIN held[w] : held[w][i].worked \in Nat
    BY RowIn DEF HeldInv
  <2>2. \A w \in Workers : \A i \in DOMAIN held'[w] : held'[w][i].worked \in Nat
    <3>1. held' \in [Workers -> Seq(Rows)]
      BY DEF HeldInv, ShapeOK
    <3>2. ASSUME NEW w \in Workers, NEW i \in DOMAIN held'[w] PROVE held'[w][i] \in Rows
      BY <3>1, <3>2
    <3>q. QED
      BY <3>2 DEF Rows
  <2>q. QED
    BY <2>1, <2>2 DEF RowsKept, Counting
<1>3. Worked(r, d) \subseteq Worked(r, d)'
  <2> SUFFICES ASSUME NEW w \in Workers, NEW i \in Counting(w, r, d), held[w][i].worked > 0
               PROVE  i \in Counting(w, r, d)' /\ held'[w][i].worked > 0
    BY DEF Worked
  <2>q. QED
    BY <1>1, <1>2
<1>4. ASSUME NEW w \in Workers, NEW i \in Counting(w, r, d), i \in Active(w)
      PROVE  i \in Counting(w, r, d)' /\ (i \in Active(w)' \/ w \in Worked(r, d))
  <2>1. i \in Counting(w, r, d)'
    BY <1>1
  <2>2. i \in DOMAIN held'[w] /\ held'[w][i].status \in {"active", "released"}
    <3>1. i \in DOMAIN held'[w]
      BY DEF RowsKept, Counting
    <3>2. held'[w] \in Seq(Rows)
      BY DEF HeldInv, ShapeOK
    <3>3. held'[w][i] \in Rows
      BY <3>1, <3>2
    <3>q. QED
      BY <3>1, <3>3 DEF Rows
  <2>3. CASE held'[w][i].status = "active"
    BY <2>1, <2>2, <2>3 DEF Active
  <2>4. CASE held'[w][i].status = "released"
    <3>1. held[w][i].req = r
      BY DEF Counting
    <3>2. held[w][i].worked > 0
      BY <1>4, <2>4, <3>1 DEF Stands, OnlyWorkedReleased
    <3>q. QED
      BY <2>1, <3>2 DEF Worked
  <2>q. QED
    BY <2>2, <2>3, <2>4
<1>5. ASSUME NEW w \in Workers, Counting(w, r, d) \cap Active(w) # {}, <<w, d>> \in present
      PROVE  w \in There(r, d)'
  <2>1. PICK i \in Counting(w, r, d) : i \in Active(w)
    BY <1>5
  <2>2. i \in Counting(w, r, d)' /\ (i \in Active(w)' \/ w \in Worked(r, d))
    BY <1>4, <2>1
  <2>3. CASE w \in Worked(r, d)
    BY <1>3, <2>3 DEF There
  <2>4. CASE i \in Active(w)'
    <3>1. <<w, d>> \in present'
      BY <1>5 DEF Stands
    <3>2. w \in Sourced(r, d)'
      BY <2>2, <2>4 DEF Sourced
    <3>q. QED
      BY <2>2, <2>4, <3>1, <3>2 DEF There
  <2>q. QED
    BY <2>2, <2>3, <2>4
<1>6. There(r, d) \subseteq Worked(r, d) \cup {w \in Workers : Counting(w, r, d) \cap Active(w) # {} /\ <<w, d>> \in present}
  BY DEF There, Sourced, Worked
<1>q. QED
  BY <1>3, <1>5, <1>6 DEF There

LEMMA ThereIsCounted ==
    ASSUME NEW r \in Requirements, NEW d \in Dates
    PROVE  /\ IsFiniteSet(There(r, d)) /\ IsFiniteSet(There(r, d)')
           /\ Cardinality(There(r, d)) \in Nat /\ Cardinality(There(r, d)') \in Nat
<1>1. There(r, d) \subseteq Workers /\ There(r, d)' \subseteq Workers
  BY DEF There, Sourced, Worked
<1>2. IsFiniteSet(There(r, d)) /\ IsFiniteSet(There(r, d)')
  BY <1>1, CapacityBounds, FS_Subset
<1>q. QED
  BY <1>2, FS_CardinalityType

LEMMA ReadyKept ==
    ASSUME HeldInv, HeldInv', RowsKept, NEW r \in Requirements, NEW today \in Dates, Stands(r),
           Verdict(r, today) = "ok"
    PROVE  Verdict(r, today)' = "ok"
<1> DEFINE asked == {d \in Dates : demand[r].slices[d] > 0}
<1>1. demand'[r] = demand[r]
  BY DEF Stands
<1>2. \A d \in Dates : Cardinality(There(r, d)) <= Cardinality(There(r, d)')
  <2> SUFFICES ASSUME NEW d \in Dates PROVE Cardinality(There(r, d)) <= Cardinality(There(r, d)')
    OBVIOUS
  <2>1. There(r, d) \subseteq There(r, d)'
    BY NobodyLeaves
  <2>2. IsFiniteSet(There(r, d)')
    BY ThereIsCounted
  <2>q. QED
    BY <2>1, <2>2, FS_Subset
<1>3. \A d \in Dates : /\ Cardinality(There(r, d)) \in Nat /\ Cardinality(There(r, d)') \in Nat
                       /\ demand[r].slices[d] \in Nat
  <2>1. \A d \in Dates : demand[r].slices[d] \in Nat
    <3>1. demand[r] \in Demands
      BY DEF HeldInv, ShapeOK
    <3>2. demand[r].slices \in [Dates -> Quantities]
      BY <3>1 DEF Demands
    <3>q. QED
      BY <3>2, SupplyBounds DEF Quantities
  <2>q. QED
    BY <2>1, ThereIsCounted
<1>4. \A d \in Dates : Cardinality(There(r, d)') < demand[r].slices[d] => Cardinality(There(r, d)) < demand[r].slices[d]
  <2> SUFFICES ASSUME NEW d \in Dates, Cardinality(There(r, d)') < demand[r].slices[d]
               PROVE  Cardinality(There(r, d)) < demand[r].slices[d]
    OBVIOUS
  <2>1. /\ Cardinality(There(r, d)) \in Nat /\ Cardinality(There(r, d)') \in Nat /\ demand[r].slices[d] \in Nat
        /\ Cardinality(There(r, d)) <= Cardinality(There(r, d)')
    BY <1>2, <1>3
  <2> DEFINE a == Cardinality(There(r, d))
             b == Cardinality(There(r, d)')
             c == demand[r].slices[d]
  <2>2. a \in Nat /\ b \in Nat /\ c \in Nat /\ a <= b /\ b < c
    BY <2>1
  <2> HIDE DEF a, b, c
  <2>3. a < c
    BY <2>2
  <2>q. QED
    BY <2>3 DEF a, c
<1>5. /\ ~(\A d \in asked : today < d)
      /\ ~(\E d \in asked : d < today /\ Cardinality(There(r, d)) < demand[r].slices[d])
      /\ today \notin asked \/ ~(Cardinality(There(r, today)) < demand[r].slices[today])
  <2> HIDE DEF HeldInv
  <2>q. QED
    BY DEF Verdict
<1>6. /\ ~(\A d \in asked : today < d)
      /\ ~(\E d \in asked : d < today /\ Cardinality(There(r, d)') < demand[r].slices[d])
      /\ today \notin asked \/ ~(Cardinality(There(r, today)') < demand[r].slices[today])
  BY <1>4, <1>5
<1>q. QED
  BY <1>1, <1>6 DEF Verdict

\* A requirement the team is ready for stays so while its demand, its
\* substitutions and the musters stand and nobody idle is released, whatever
\* else is allocated, worked, bought, revised or cancelled on the project.
THEOREM ReadyRemains == Spec => ReadyStays
<1>1. ASSUME HeldInv, [Next]_vars
      PROVE  \A r \in Requirements : \A today \in Dates :
                 (Stands(r) /\ Verdict(r, today) = "ok") => Verdict(r, today)' = "ok"
  <2>1. HeldInv'
    BY <1>1, StepHeld
  <2> SUFFICES ASSUME NEW r \in Requirements, NEW today \in Dates, Stands(r), Verdict(r, today) = "ok"
               PROVE  Verdict(r, today)' = "ok"
    OBVIOUS
  <2>2. RowsKept
    BY <1>1, StepKeepsRows DEF Stands
  <2>q. QED
    BY <1>1, <2>1, <2>2, ReadyKept
<1>2. HeldInv /\ [Next]_vars =>
          [\A r \in Requirements : \A today \in Dates :
              (/\ demand[r].status = "open" /\ demand'[r] = demand[r] /\ subs \subseteq subs'
               /\ present \subseteq present' /\ OnlyWorkedReleased(r) /\ Verdict(r, today) = "ok")
                  => Verdict(r, today)' = "ok"]_vars
  BY <1>1 DEF Stands
<1>q. QED
  BY HeldIsInvariant, <1>2, PTL DEF Spec, ReadyStays

------------------------------------------------------------------------------
(* Labour bought.  What counts against a requisition's line is a sum over   *)
(* every order version; a command replaces one version, an amendment two.   *)
OrderRecs == [status: OrderStatuses, req: Requisitions \cup {0}, lines: [Slots -> OrderLines]]
OrderMaps == [Orders -> OrderRecs]
ReqRecs == [lines: [Slots -> Lines],
            status: {"none", "draft", "submitted", "approved", "rejected", "closed"}]
Contracted == {"issued", "partially_committed", "completed"}

\* What one version counts for a requisition's line.
Part(order, q, s) == IF order.req = q THEN Counted(order, s) ELSE 0

LEMMA FiniteBooks == IsFiniteSet(Slots) /\ IsFiniteSet(Orders) /\ IsFiniteSet(Requisitions)
<1>1. IsFiniteSet(Slots)
  BY SupplyBounds, FS_Product DEF Slots
<1>2. IsFiniteSet(1 .. MaxOrders) /\ IsFiniteSet(1 .. MaxRequisitions)
  BY SupplyBounds, FS_Interval
<1>q. QED
  BY <1>1, <1>2 DEF Orders, Requisitions

LEMMA LineIn ==
    ASSUME NEW order \in OrderRecs, NEW s \in Slots
    PROVE  /\ order.lines[s] \in OrderLines /\ order.lines[s].qty \in Nat /\ order.lines[s].committed \in Nat
           /\ order.lines[s].qty \in Quantities /\ order.lines[s].committed \in Quantities
           /\ order.status \in OrderStatuses /\ order.req \in Requisitions \cup {0}
<1>1. order.lines \in [Slots -> OrderLines] /\ order.status \in OrderStatuses /\ order.req \in Requisitions \cup {0}
  BY DEF OrderRecs
<1>2. order.lines[s] \in OrderLines
  BY <1>1
<1>3. order.lines[s].qty \in Quantities /\ order.lines[s].committed \in Quantities
  BY <1>2 DEF OrderLines
<1>4. Quantities \subseteq Nat
  BY SupplyBounds DEF Quantities
<1>q. QED
  BY <1>1, <1>2, <1>3, <1>4

LEMMA PartIn ==
    ASSUME NEW order \in OrderRecs, NEW q, NEW s \in Slots
    PROVE  Counted(order, s) \in Nat /\ Part(order, q, s) \in Nat
<1>1. Counted(order, s) \in Nat
  BY LineIn DEF Counted
<1>q. QED
  BY <1>1 DEF Part

LEMMA LiveChange ==
    ASSUME NEW os \in OrderMaps, NEW o \in Orders, NEW x \in OrderRecs, NEW q \in Requisitions, NEW s \in Slots
    PROVE  /\ LiveAllocation(os, q, s) \in Nat /\ LiveAllocation([os EXCEPT ![o] = x], q, s) \in Nat
           /\ LiveAllocation([os EXCEPT ![o] = x], q, s) + Part(os[o], q, s)
                  = LiveAllocation(os, q, s) + Part(x, q, s)
<1> DEFINE ot == [os EXCEPT ![o] = x]
           S == {v \in Orders : os[v].req = q}
           T == {v \in Orders : ot[v].req = q}
           f == [v \in S |-> Counted(os[v], s)]
           k == [v \in T |-> Counted(ot[v], s)]
<1>1. ot \in OrderMaps /\ ot[o] = x /\ \A v \in Orders \ {o} : ot[v] = os[v]
  BY DEF OrderMaps
<1>2. f \in [S -> Nat]
  <2>1. \A v \in S : os[v] \in OrderRecs
    BY DEF OrderMaps
  <2>q. QED
    BY <2>1, PartIn
<1>3. k \in [T -> Nat]
  <2>1. \A v \in T : ot[v] \in OrderRecs
    <3> HIDE DEF ot
    <3>q. QED
      BY <1>1 DEF OrderMaps
  <2> HIDE DEF ot
  <2>q. QED
    BY <2>1, PartIn
<1>4. IsFiniteSet(S) /\ IsFiniteSet(T)
  <2>1. S \subseteq Orders /\ T \subseteq Orders
    OBVIOUS
  <2> HIDE DEF S, T
  <2>q. QED
    BY <2>1, FiniteBooks, FS_Subset
<1>5. LiveAllocation(os, q, s) = SumFunction(f) /\ LiveAllocation(ot, q, s) = SumFunction(k)
  <2> HIDE DEF ot
  <2>q. QED
    BY DEF LiveAllocation
<1>6. S \ {o} = T \ {o}
  <2> HIDE DEF ot
  <2>q. QED
    BY <1>1
<1>7. \A v \in S \ {o} : f[v] = k[v]
  <2> HIDE DEF ot
  <2>1. \A v \in S \ {o} : v \in T /\ ot[v] = os[v]
    BY <1>1
  <2>q. QED
    BY <2>1
<1>8. At(f, S, o) = Part(os[o], q, s) /\ At(k, T, o) = Part(x, q, s)
  <2> HIDE DEF ot
  <2>q. QED
    BY <1>1 DEF At, Part
<1> HIDE DEF S, T, f, k, ot
<1>9. /\ SumFunction(f) \in Nat /\ SumFunction(k) \in Nat
      /\ SumFunction(k) + At(f, S, o) = SumFunction(f) + At(k, T, o)
  BY <1>2, <1>3, <1>4, <1>6, <1>7, OneChanges
<1>10. LiveAllocation(ot, q, s) + Part(os[o], q, s) = LiveAllocation(os, q, s) + Part(x, q, s)
  BY <1>5, <1>8, <1>9
<1>11. LiveAllocation(ot, q, s) \in Nat /\ LiveAllocation(os, q, s) \in Nat
  BY <1>5, <1>9
<1>q. QED
  BY <1>10, <1>11 DEF ot

\* Nothing counts for a requisition no version names.
LEMMA NoneLive ==
    ASSUME NEW os \in OrderMaps, NEW q \in Requisitions, NEW s \in Slots, \A o \in Orders : os[o].req # q
    PROVE  LiveAllocation(os, q, s) = 0
<1>1. {v \in Orders : os[v].req = q} = {}
  OBVIOUS
<1>q. QED
  BY <1>1, SumNone DEF LiveAllocation

(* The status a version's lines derive.                                     *)
LEMMA SumsOfLines ==
    ASSUME NEW order \in OrderRecs
    PROVE  /\ SumFunction([s \in Slots |-> order.lines[s].qty]) \in Nat
           /\ SumFunction([s \in Slots |-> order.lines[s].committed]) \in Nat
<1>1. [s \in Slots |-> order.lines[s].qty] \in [Slots -> Nat]
  BY LineIn
<1>2. [s \in Slots |-> order.lines[s].committed] \in [Slots -> Nat]
  BY LineIn
<1>q. QED
  BY <1>1, <1>2, FiniteBooks, SumInNat

LEMMA RecomputedIs ==
    ASSUME NEW order \in OrderRecs
    PROVE  /\ Recomputed(order) \in OrderRecs /\ Recomputed(order).req = order.req
           /\ Recomputed(order).lines = order.lines
           /\ order.status \in Contracted => Recomputed(order).status \in Contracted
           /\ order.status \notin Contracted => Recomputed(order) = order
           /\ Recomputed(Recomputed(order)) = Recomputed(order)
<1> DEFINE ordered == SumFunction([s \in Slots |-> order.lines[s].qty])
           committed == SumFunction([s \in Slots |-> order.lines[s].committed])
           st == IF committed = 0 THEN "issued" ELSE IF committed >= ordered THEN "completed"
                 ELSE "partially_committed"
           x == [order EXCEPT !.status = st]
<1>1. CASE order.status \notin Contracted
  <2>1. Recomputed(order) = order
    BY <1>1 DEF Recomputed, Contracted
  <2>q. QED
    BY <1>1, <2>1
<1>2. CASE order.status \in Contracted
  <2>1. st \in Contracted
    BY DEF Contracted
  <2>2. Recomputed(order) = x
    BY <1>2 DEF Recomputed, Contracted
  <2> HIDE DEF st
  <2>3. st \in OrderStatuses
    BY <2>1 DEF Contracted, OrderStatuses, LiveOrder
  <2>4. x \in OrderRecs /\ x.req = order.req /\ x.lines = order.lines /\ x.status = st
    BY <2>3 DEF OrderRecs
  <2>5. [x EXCEPT !.status = st] = x
    BY <2>4 DEF OrderRecs
  <2>6. Recomputed(x) = [x EXCEPT !.status = st]
    <3> HIDE DEF x
    <3>q. QED
      BY <2>1, <2>4 DEF Recomputed, Contracted, st
  <2> HIDE DEF x
  <2>q. QED
    BY <1>2, <2>1, <2>2, <2>4, <2>5, <2>6
<1>q. QED
  BY <1>1, <1>2

\* It depends on the quantities only.
LEMMA SameDerived ==
    ASSUME NEW order \in OrderRecs, NEW x \in OrderRecs, order = Recomputed(order), x.status = order.status,
           \A s \in Slots : x.lines[s].qty = order.lines[s].qty /\ x.lines[s].committed = order.lines[s].committed
    PROVE  x = Recomputed(x)
<1>1. /\ [s \in Slots |-> x.lines[s].qty] = [s \in Slots |-> order.lines[s].qty]
      /\ [s \in Slots |-> x.lines[s].committed] = [s \in Slots |-> order.lines[s].committed]
  OBVIOUS
<1> DEFINE ordered == SumFunction([s \in Slots |-> order.lines[s].qty])
           committed == SumFunction([s \in Slots |-> order.lines[s].committed])
           st == IF committed = 0 THEN "issued" ELSE IF committed >= ordered THEN "completed"
                 ELSE "partially_committed"
<1>2. CASE order.status \notin Contracted
  BY <1>2 DEF Recomputed, Contracted
<1>3. CASE order.status \in Contracted
  <2>1. order = [order EXCEPT !.status = st]
    BY <1>3 DEF Recomputed, Contracted
  <2>2. Recomputed(x) = [x EXCEPT !.status = st]
    BY <1>1, <1>3 DEF Recomputed, Contracted
  <2> HIDE DEF st
  <2>3. order.status = st
    <3>1. [order EXCEPT !.status = st].status = st
      BY DEF OrderRecs
    <3>q. QED
      BY <2>1, <3>1
  <2>4. [x EXCEPT !.status = st] = x
    BY <2>3 DEF OrderRecs
  <2>q. QED
    BY <2>2, <2>4
<1>q. QED
  BY <1>2, <1>3

\* A version nothing is committed on is issued, if it is contracted at all.
LEMMA FreshDerived ==
    ASSUME NEW x \in OrderRecs, x.status \in Contracted => x.status = "issued",
           \A s \in Slots : x.lines[s].committed = 0
    PROVE  x = Recomputed(x)
<1>1. SumFunction([s \in Slots |-> x.lines[s].committed]) = 0
  <2>1. [s \in Slots |-> x.lines[s].committed] \in [Slots -> Nat]
    OBVIOUS
  <2>q. QED
    BY <2>1, FiniteBooks, SumZeros
<1>2. CASE x.status \notin Contracted
  BY <1>2 DEF Recomputed, Contracted
<1>3. CASE x.status \in Contracted
  <2>1. x.status = "issued"
    BY <1>3
  <2>2. Recomputed(x) = [x EXCEPT !.status = "issued"]
    BY <1>1, <1>3 DEF Recomputed, Contracted
  <2>3. [x EXCEPT !.status = "issued"] = x
    BY <2>1 DEF OrderRecs
  <2>q. QED
    BY <2>2, <2>3
<1>q. QED
  BY <1>2, <1>3

------------------------------------------------------------------------------
(* The inductive invariant of what is bought: a version belongs to a        *)
(* requisition that exists, a standing promise is for its line's quantity   *)
(* and only on a version that counts, every line covers what counts against *)
(* it, and the stored flags and statuses are the derived ones.              *)
LineOK(status, line) ==
    IF line.promise \in Standing
    THEN line.committed = line.qty /\ status \in Contracted \cup {"closed_short"}
    ELSE line.committed = 0

OrderOK(o) ==
    /\ orders[o].status = "none" => orders[o].req = 0
    /\ orders[o].status # "none" => orders[o].req \in Requisitions /\ requisitions[orders[o].req].status # "none"
    /\ \A s \in Slots : \E st, l : st = orders[o].status /\ l = orders[o].lines[s] /\ LineOK(st, l)
    /\ \E v : v = orders[o] /\ v = Recomputed(v)

Live(q, s) == \E n : n = orders /\ LiveAllocation(n, q, s) <= requisitions[q].lines[s].qty

Flagged(q, s) ==
    s \in Kept(q) =>
        ((requisitions[q].lines[s].status = "ordered")
             <=> \E n : n = orders /\ LiveAllocation(n, q, s) >= requisitions[q].lines[s].qty)

SupplyInv ==
    /\ SupplyTypeOK
    /\ \A o \in Orders : OrderOK(o)
    /\ \A q \in Requisitions, s \in Slots : Live(q, s) /\ Flagged(q, s)

\* What has been promised and what it was promised for never change under it.
OrderKept(o) ==
    orders[o].status # "none" =>
        /\ orders'[o].status # "none" /\ orders'[o].req = orders[o].req
        /\ \A s \in Slots : orders'[o].lines[s].qty = orders[o].lines[s].qty

RequisitionKept(q) ==
    requisitions[q].status # "none" =>
        \A s \in Slots : requisitions'[q].lines[s].fp = requisitions[q].lines[s].fp

PromisesKept == (\A o \in Orders : OrderKept(o)) /\ (\A q \in Requisitions : RequisitionKept(q))

LEMMA SupplyIs ==
    ASSUME SupplyInv
    PROVE  /\ orders \in OrderMaps /\ requisitions \in [Requisitions -> ReqRecs]
           /\ \A o \in Orders : orders[o] \in OrderRecs /\ orders[o] = Recomputed(orders[o])
           /\ \A o \in Orders, s \in Slots : LineOK(orders[o].status, orders[o].lines[s])
           /\ \A q \in Requisitions, s \in Slots :
                  /\ LiveAllocation(orders, q, s) <= requisitions[q].lines[s].qty
                  /\ s \in Kept(q) => ((requisitions[q].lines[s].status = "ordered") <=> Covered(orders, q, s))
<1>1. orders \in OrderMaps /\ requisitions \in [Requisitions -> ReqRecs]
  BY DEF SupplyInv, SupplyTypeOK, OrderMaps, OrderRecs, ReqRecs
<1>2. \A o \in Orders : orders[o] \in OrderRecs
  BY <1>1 DEF OrderMaps
<1>3. \A o \in Orders : orders[o] = Recomputed(orders[o])
  BY DEF SupplyInv, OrderOK
<1>4. \A o \in Orders, s \in Slots : LineOK(orders[o].status, orders[o].lines[s])
  BY DEF SupplyInv, OrderOK
<1>5. \A q \in Requisitions, s \in Slots :
          /\ LiveAllocation(orders, q, s) <= requisitions[q].lines[s].qty
          /\ s \in Kept(q) => ((requisitions[q].lines[s].status = "ordered") <=> Covered(orders, q, s))
  BY DEF SupplyInv, Live, Flagged, Covered
<1>q. QED
  BY <1>1, <1>2, <1>3, <1>4, <1>5

\* A refresh moves the flags of the kept lines it touches, and nothing else.
LEMMA Refreshes ==
    ASSUME requisitions \in [Requisitions -> ReqRecs], NEW os \in OrderMaps, NEW q \in Requisitions,
           NEW touched \in SUBSET Slots
    PROVE  /\ Refreshed(os, q, touched) \in [Requisitions -> ReqRecs]
           /\ \A p \in Requisitions \ {q} : Refreshed(os, q, touched)[p] = requisitions[p]
           /\ Refreshed(os, q, touched)[q].status = requisitions[q].status
           /\ \A s \in Slots :
                  /\ Refreshed(os, q, touched)[q].lines[s].qty = requisitions[q].lines[s].qty
                  /\ Refreshed(os, q, touched)[q].lines[s].fp = requisitions[q].lines[s].fp
                  /\ s \in touched \cap Kept(q) =>
                         Refreshed(os, q, touched)[q].lines[s].status
                             = IF Covered(os, q, s) THEN "ordered" ELSE "open"
                  /\ s \notin touched \cap Kept(q) =>
                         Refreshed(os, q, touched)[q].lines[s] = requisitions[q].lines[s]
<1> DEFINE flag(s) == IF Covered(os, q, s) THEN "ordered" ELSE "open"
           fresh == [s \in Slots |-> IF s \in touched \cap Kept(q)
                                     THEN [requisitions[q].lines[s] EXCEPT !.status = flag(s)]
                                     ELSE requisitions[q].lines[s]]
           r == [requisitions[q] EXCEPT !.lines = fresh]
<1>1. Refreshed(os, q, touched) = [requisitions EXCEPT ![q].lines = fresh]
  BY DEF Refreshed
<1>2. requisitions[q] \in ReqRecs /\ \A s \in Slots : requisitions[q].lines[s] \in Lines
  <2>1. requisitions[q] \in ReqRecs
    OBVIOUS
  <2>q. QED
    BY <2>1 DEF ReqRecs
<1>3. \A s \in Slots : flag(s) \in {"open", "ordered"}
  OBVIOUS
<1> HIDE DEF flag
<1>4. \A s \in Slots :
          /\ fresh[s] \in Lines
          /\ fresh[s].qty = requisitions[q].lines[s].qty /\ fresh[s].fp = requisitions[q].lines[s].fp
          /\ s \in touched \cap Kept(q) => fresh[s].status = flag(s)
          /\ s \notin touched \cap Kept(q) => fresh[s] = requisitions[q].lines[s]
  <2> SUFFICES ASSUME NEW s \in Slots
               PROVE  /\ fresh[s] \in Lines
                      /\ fresh[s].qty = requisitions[q].lines[s].qty /\ fresh[s].fp = requisitions[q].lines[s].fp
                      /\ s \in touched \cap Kept(q) => fresh[s].status = flag(s)
                      /\ s \notin touched \cap Kept(q) => fresh[s] = requisitions[q].lines[s]
    OBVIOUS
  <2> DEFINE l == requisitions[q].lines[s]
  <2>1. l \in Lines /\ flag(s) \in {"open", "ordered"}
    BY <1>2, <1>3
  <2>2. [l EXCEPT !.status = flag(s)] \in Lines /\ [l EXCEPT !.status = flag(s)].qty = l.qty
        /\ [l EXCEPT !.status = flag(s)].fp = l.fp /\ [l EXCEPT !.status = flag(s)].status = flag(s)
    <3> HIDE DEF l
    <3>q. QED
      BY <2>1 DEF Lines
  <2>q. QED
    BY <2>1, <2>2
<1>5. fresh \in [Slots -> Lines]
  BY <1>4
<1> HIDE DEF fresh
<1>6. r \in ReqRecs /\ r.status = requisitions[q].status /\ r.lines = fresh
  BY <1>2, <1>5 DEF ReqRecs
<1>7. Refreshed(os, q, touched) = [requisitions EXCEPT ![q] = r]
  BY <1>1
<1> HIDE DEF r
<1>8. /\ Refreshed(os, q, touched) \in [Requisitions -> ReqRecs]
      /\ Refreshed(os, q, touched)[q] = r
      /\ \A p \in Requisitions \ {q} : Refreshed(os, q, touched)[p] = requisitions[p]
  BY <1>6, <1>7
<1>q. QED
  BY <1>4, <1>6, <1>8 DEF flag

(* A command on orders: it may move the versions it names, keeps every      *)
(* requisition's lines but for the flags it refreshes, and what counts      *)
(* against a line it does not refresh is unchanged.                         *)
LEMMA OrdersStep ==
    ASSUME SupplyInv, UNCHANGED demand, orders' \in OrderMaps, requisitions' \in [Requisitions -> ReqRecs],
           NEW q \in Requisitions, NEW touched \in SUBSET Slots,
           \A p \in Requisitions : /\ requisitions'[p].lines = Refreshed(orders', q, touched)[p].lines
                                   /\ requisitions[p].status # "none" => requisitions'[p].status # "none",
           \A p \in Requisitions, s \in Slots :
               p # q \/ s \notin touched => LiveAllocation(orders', p, s) = LiveAllocation(orders, p, s),
           \A s \in Slots : LiveAllocation(orders', q, s) <= requisitions[q].lines[s].qty,
           \A o \in Orders : orders'[o] = orders[o] \/ (OrderOK(o)' /\ OrderKept(o))
    PROVE  SupplyInv' /\ PromisesKept
<1> USE SupplyIs
<1>0. orders' \in OrderMaps /\ requisitions \in [Requisitions -> ReqRecs]
  OBVIOUS
<1>1. \A p \in Requisitions, s \in Slots :
          /\ requisitions'[p].lines[s].qty = requisitions[p].lines[s].qty
          /\ p = q /\ s \in touched \cap Kept(q) =>
                 requisitions'[p].lines[s].status = IF Covered(orders', q, s) THEN "ordered" ELSE "open"
          /\ p # q \/ s \notin touched \cap Kept(q) => requisitions'[p].lines[s] = requisitions[p].lines[s]
  <2> SUFFICES ASSUME NEW p \in Requisitions, NEW s \in Slots
               PROVE  /\ requisitions'[p].lines[s].qty = requisitions[p].lines[s].qty
                      /\ p = q /\ s \in touched \cap Kept(q) =>
                             requisitions'[p].lines[s].status = IF Covered(orders', q, s) THEN "ordered" ELSE "open"
                      /\ p # q \/ s \notin touched \cap Kept(q) =>
                             requisitions'[p].lines[s] = requisitions[p].lines[s]
    OBVIOUS
  <2>1. CASE p = q
    <3>1. /\ Refreshed(orders', q, touched)[q].lines[s].qty = requisitions[q].lines[s].qty
          /\ s \in touched \cap Kept(q) =>
                 Refreshed(orders', q, touched)[q].lines[s].status
                     = IF Covered(orders', q, s) THEN "ordered" ELSE "open"
          /\ s \notin touched \cap Kept(q) =>
                 Refreshed(orders', q, touched)[q].lines[s] = requisitions[q].lines[s]
      BY <1>0, Refreshes
    <3>q. QED
      BY <2>1, <3>1
  <2>2. CASE p # q
    <3>1. Refreshed(orders', q, touched)[p] = requisitions[p]
      BY <1>0, <2>2, Refreshes
    <3>q. QED
      BY <2>2, <3>1
  <2>q. QED
    BY <2>1, <2>2
<1>2. \A p \in Requisitions : Kept(p)' = Kept(p)
  <2> SUFFICES ASSUME NEW p \in Requisitions, NEW s \in Slots PROVE s \in Kept(p)' <=> s \in Kept(p)
    BY DEF Kept, Named
  <2>1. requisitions'[p].lines[s].qty = requisitions[p].lines[s].qty
    BY <1>1
  <2>2. CASE p = q /\ s \in touched \cap Kept(q)
    <3>1. requisitions'[p].lines[s].status # "cancelled"
      BY <1>1, <2>2
    <3>q. QED
      BY <2>1, <2>2, <3>1 DEF Kept, Named
  <2>3. CASE p # q \/ s \notin touched \cap Kept(q)
    <3>1. requisitions'[p].lines[s] = requisitions[p].lines[s]
      BY <1>1, <2>3
    <3>q. QED
      BY <3>1 DEF Kept, Named
  <2>q. QED
    BY <2>2, <2>3
<1>3. \A p \in Requisitions, s \in Slots : LiveAllocation(orders', p, s) <= requisitions'[p].lines[s].qty
  <2> SUFFICES ASSUME NEW p \in Requisitions, NEW s \in Slots
               PROVE  LiveAllocation(orders', p, s) <= requisitions[p].lines[s].qty
    BY <1>1
  <2>1. CASE p = q
    BY <2>1
  <2>2. CASE p # q
    <3>1. LiveAllocation(orders', p, s) = LiveAllocation(orders, p, s)
      BY <2>2
    <3>q. QED
      BY <3>1
  <2>q. QED
    BY <2>1, <2>2
<1>4. \A p \in Requisitions, s \in Slots : s \in Kept(p) =>
          ((requisitions'[p].lines[s].status = "ordered")
              <=> LiveAllocation(orders', p, s) >= requisitions'[p].lines[s].qty)
  <2> SUFFICES ASSUME NEW p \in Requisitions, NEW s \in Slots, s \in Kept(p)
               PROVE  (requisitions'[p].lines[s].status = "ordered")
                          <=> LiveAllocation(orders', p, s) >= requisitions[p].lines[s].qty
    BY <1>1
  <2>1. CASE p = q /\ s \in touched
    <3>1. requisitions'[p].lines[s].status = IF Covered(orders', q, s) THEN "ordered" ELSE "open"
      BY <1>1, <2>1
    <3>q. QED
      BY <2>1, <3>1 DEF Covered
  <2>2. CASE p # q \/ s \notin touched
    <3>1. requisitions'[p].lines[s] = requisitions[p].lines[s]
      BY <1>1, <2>2
    <3>2. LiveAllocation(orders', p, s) = LiveAllocation(orders, p, s)
      BY <2>2
    <3>3. (requisitions[p].lines[s].status = "ordered") <=> Covered(orders, p, s)
      OBVIOUS
    <3>q. QED
      BY <3>1, <3>2, <3>3 DEF Covered
  <2>q. QED
    BY <2>1, <2>2
<1>5. SupplyTypeOK'
  BY <1>0 DEF SupplyInv, SupplyTypeOK, OrderMaps, OrderRecs, ReqRecs
<1>6. \A o \in Orders : OrderOK(o)'
  <2> SUFFICES ASSUME NEW o \in Orders, orders'[o] = orders[o] PROVE OrderOK(o)'
    OBVIOUS
  <2>1. OrderOK(o)
    BY DEF SupplyInv
  <2>2. \A p \in Requisitions : requisitions[p].status # "none" => requisitions'[p].status # "none"
    OBVIOUS
  <2>q. QED
    BY <2>1, <2>2 DEF OrderOK
<1>7. \A p \in Requisitions, s \in Slots : Live(p, s)' /\ Flagged(p, s)'
  BY <1>2, <1>3, <1>4 DEF Live, Flagged
<1>8. \A p \in Requisitions, s \in Slots : requisitions'[p].lines[s].fp = requisitions[p].lines[s].fp
  <2> SUFFICES ASSUME NEW p \in Requisitions, NEW s \in Slots
               PROVE  Refreshed(orders', q, touched)[p].lines[s].fp = requisitions[p].lines[s].fp
    OBVIOUS
  <2>1. Refreshed(orders', q, touched)[q].lines[s].fp = requisitions[q].lines[s].fp
    BY <1>0, Refreshes
  <2>2. p # q => Refreshed(orders', q, touched)[p] = requisitions[p]
    BY <1>0, Refreshes
  <2>q. QED
    BY <2>1, <2>2
<1>9. \A o \in Orders : OrderKept(o)
  BY DEF OrderKept
<1>q. QED
  BY <1>5, <1>6, <1>7, <1>8, <1>9 DEF SupplyInv, PromisesKept, RequisitionKept

\* A command on one requisition that leaves the orders alone.
LEMMA RequisitionStep ==
    ASSUME SupplyInv, UNCHANGED <<demand, orders>>, requisitions' \in [Requisitions -> ReqRecs],
           NEW q \in Requisitions, \A p \in Requisitions \ {q} : requisitions'[p] = requisitions[p],
           requisitions[q].status # "none" => requisitions'[q].status # "none", RequisitionKept(q),
           \A s \in Slots :
               /\ LiveAllocation(orders, q, s) <= requisitions'[q].lines[s].qty
               /\ (requisitions'[q].lines[s].qty > 0 /\ requisitions'[q].lines[s].status # "cancelled") =>
                      ((requisitions'[q].lines[s].status = "ordered")
                          <=> LiveAllocation(orders, q, s) >= requisitions'[q].lines[s].qty)
    PROVE  SupplyInv' /\ PromisesKept
<1>1. SupplyTypeOK'
  BY DEF SupplyInv, SupplyTypeOK, ReqRecs
<1>2. \A o \in Orders : OrderOK(o)'
  <2> SUFFICES ASSUME NEW o \in Orders PROVE OrderOK(o)'
    OBVIOUS
  <2>1. OrderOK(o)
    BY DEF SupplyInv
  <2>2. \A p \in Requisitions : requisitions[p].status # "none" => requisitions'[p].status # "none"
    OBVIOUS
  <2>q. QED
    BY <2>1, <2>2 DEF OrderOK
<1>3. \A p \in Requisitions, s \in Slots : Live(p, s)' /\ Flagged(p, s)'
  <2> SUFFICES ASSUME NEW p \in Requisitions, NEW s \in Slots PROVE Live(p, s)' /\ Flagged(p, s)'
    OBVIOUS
  <2>1. CASE p # q
    <3>1. Live(p, s) /\ Flagged(p, s) /\ requisitions'[p] = requisitions[p]
      BY <2>1 DEF SupplyInv
    <3>q. QED
      BY <3>1 DEF Live, Flagged, Kept, Named
  <2>2. CASE p = q
    BY <2>2 DEF Live, Flagged, Kept, Named
  <2>q. QED
    BY <2>1, <2>2
<1>4. PromisesKept
  BY DEF PromisesKept, OrderKept, RequisitionKept
<1>q. QED
  BY <1>1, <1>2, <1>3, <1>4 DEF SupplyInv

LEMMA CreateRequisitionBuys ==
    ASSUME SupplyInv, NEW q \in Requisitions, NEW want \in Wants, CreateRequisition(q, want)
    PROVE  SupplyInv' /\ PromisesKept
<1> DEFINE line(s) == IF want[s] = 0 THEN NoLine
                      ELSE [qty |-> want[s], rev |-> demand[s[1]].rev, fp |-> demand[s[1]].fp, status |-> "open"]
           lines == [s \in Slots |-> line(s)]
           r == [status |-> "draft", lines |-> lines]
<1>1. requisitions' = [requisitions EXCEPT ![q] = r] /\ UNCHANGED <<demand, orders>>
  BY DEF CreateRequisition
<1>2. \A s \in Slots : /\ line(s) \in Lines /\ line(s).qty = want[s] /\ line(s).status = "open"
                       /\ want[s] \in Nat
  <2> SUFFICES ASSUME NEW s \in Slots
               PROVE  line(s) \in Lines /\ line(s).qty = want[s] /\ line(s).status = "open" /\ want[s] \in Nat
    OBVIOUS
  <2>1. want[s] \in Quantities /\ Quantities \subseteq Nat /\ 0 \in Quantities
    BY SupplyBounds DEF Wants, Quantities
  <2>2. demand[s[1]] \in Demands
    BY DEF SupplyInv, SupplyTypeOK, Slots
  <2>3. AnyOf(Fingerprints) \in Fingerprints
    BY SupplyBounds DEF AnyOf
  <2>q. QED
    BY <2>1, <2>2, <2>3 DEF Demands, Lines, NoLine
<1> HIDE DEF line
<1>3. lines \in [Slots -> Lines] /\ \A s \in Slots : lines[s] = line(s)
  BY <1>2
<1> HIDE DEF lines
<1>4. r \in ReqRecs /\ r.lines = lines /\ r.status = "draft"
  BY <1>3 DEF ReqRecs
<1> HIDE DEF r
<1>5. requisitions \in [Requisitions -> ReqRecs] /\ orders \in OrderMaps
  BY SupplyIs
<1>6. /\ requisitions' \in [Requisitions -> ReqRecs] /\ requisitions'[q] = r
      /\ \A p \in Requisitions \ {q} : requisitions'[p] = requisitions[p]
  BY <1>1, <1>4, <1>5
<1>7. \A s \in Slots : LiveAllocation(orders, q, s) = 0
  <2>1. \A o \in Orders : orders[o].req # q
    <3>1. requisitions[q].status = "none" /\ q # 0
      BY DEF CreateRequisition, Requisitions
    <3>q. QED
      BY <3>1 DEF SupplyInv, OrderOK
  <2>q. QED
    BY <1>5, <2>1, NoneLive
<1>8. \A s \in Slots :
          /\ LiveAllocation(orders, q, s) <= requisitions'[q].lines[s].qty
          /\ (requisitions'[q].lines[s].qty > 0 /\ requisitions'[q].lines[s].status # "cancelled") =>
                 ((requisitions'[q].lines[s].status = "ordered")
                     <=> LiveAllocation(orders, q, s) >= requisitions'[q].lines[s].qty)
  BY <1>2, <1>3, <1>4, <1>6, <1>7
<1>9. requisitions[q].status # "none" => requisitions'[q].status # "none"
  BY <1>4, <1>6
<1>10. RequisitionKept(q)
  BY DEF CreateRequisition, RequisitionKept
<1>q. QED
  BY <1>1, <1>6, <1>8, <1>9, <1>10, RequisitionStep

LEMMA StatusBuys ==
    ASSUME SupplyInv, NEW q \in Requisitions,
           Submit(q) \/ Answer(q, "approved") \/ Answer(q, "rejected")
    PROVE  SupplyInv' /\ PromisesKept
<1>1. PICK st \in {"submitted", "approved", "rejected"} :
          requisitions' = [requisitions EXCEPT ![q].status = st] /\ UNCHANGED <<demand, orders>>
  BY DEF Submit, Answer
<1>2. requisitions \in [Requisitions -> ReqRecs] /\ requisitions[q] \in ReqRecs
  <2>1. requisitions \in [Requisitions -> ReqRecs]
    BY SupplyIs
  <2>q. QED
    BY <2>1
<1>3. /\ [requisitions[q] EXCEPT !.status = st] \in ReqRecs
      /\ [requisitions[q] EXCEPT !.status = st].lines = requisitions[q].lines
      /\ [requisitions[q] EXCEPT !.status = st].status = st
  BY <1>2 DEF ReqRecs
<1>4. /\ requisitions' \in [Requisitions -> ReqRecs] /\ requisitions'[q].lines = requisitions[q].lines
      /\ requisitions'[q].status # "none"
      /\ \A p \in Requisitions \ {q} : requisitions'[p] = requisitions[p]
  BY <1>1, <1>2, <1>3
<1>5. \A s \in Slots :
          /\ LiveAllocation(orders, q, s) <= requisitions[q].lines[s].qty
          /\ (requisitions[q].lines[s].qty > 0 /\ requisitions[q].lines[s].status # "cancelled") =>
                 ((requisitions[q].lines[s].status = "ordered")
                     <=> LiveAllocation(orders, q, s) >= requisitions[q].lines[s].qty)
  BY SupplyIs DEF Kept, Named, Covered
<1>6. RequisitionKept(q)
  BY <1>4 DEF RequisitionKept
<1>q. QED
  BY <1>1, <1>4, <1>5, <1>6, RequisitionStep

LEMMA CancelLineBuys ==
    ASSUME SupplyInv, NEW q \in Requisitions, NEW s \in Slots, CancelLine(q, s)
    PROVE  SupplyInv' /\ PromisesKept
<1> DEFINE line == [requisitions[q].lines[s] EXCEPT !.status = "cancelled"]
           lines == [requisitions[q].lines EXCEPT ![s] = line]
           r == [requisitions[q] EXCEPT !.lines = lines]
<1>1. requisitions' = [requisitions EXCEPT ![q] = r] /\ UNCHANGED <<demand, orders>>
  BY DEF CancelLine
<1>2. requisitions \in [Requisitions -> ReqRecs] /\ requisitions[q] \in ReqRecs
  <2>1. requisitions \in [Requisitions -> ReqRecs]
    BY SupplyIs
  <2>q. QED
    BY <2>1
<1>3. requisitions[q].lines \in [Slots -> Lines] /\ requisitions[q].lines[s] \in Lines
  BY <1>2 DEF ReqRecs
<1>4. /\ line \in Lines /\ line.qty = requisitions[q].lines[s].qty /\ line.status = "cancelled"
      /\ line.fp = requisitions[q].lines[s].fp
  BY <1>3 DEF Lines
<1> HIDE DEF line
<1>5. lines \in [Slots -> Lines] /\ lines[s] = line /\ \A t \in Slots \ {s} : lines[t] = requisitions[q].lines[t]
  BY <1>3, <1>4
<1> HIDE DEF lines
<1>6. r \in ReqRecs /\ r.lines = lines /\ r.status = requisitions[q].status
  BY <1>2, <1>5 DEF ReqRecs
<1> HIDE DEF r
<1>7. /\ requisitions' \in [Requisitions -> ReqRecs] /\ requisitions'[q] = r
      /\ \A p \in Requisitions \ {q} : requisitions'[p] = requisitions[p]
  BY <1>1, <1>2, <1>6
<1>8. \A t \in Slots :
          /\ LiveAllocation(orders, q, t) <= requisitions[q].lines[t].qty
          /\ (requisitions[q].lines[t].qty > 0 /\ requisitions[q].lines[t].status # "cancelled") =>
                 ((requisitions[q].lines[t].status = "ordered")
                     <=> LiveAllocation(orders, q, t) >= requisitions[q].lines[t].qty)
  BY SupplyIs DEF Kept, Named, Covered
<1>9. \A t \in Slots :
          /\ LiveAllocation(orders, q, t) <= requisitions'[q].lines[t].qty
          /\ (requisitions'[q].lines[t].qty > 0 /\ requisitions'[q].lines[t].status # "cancelled") =>
                 ((requisitions'[q].lines[t].status = "ordered")
                     <=> LiveAllocation(orders, q, t) >= requisitions'[q].lines[t].qty)
  <2> SUFFICES ASSUME NEW t \in Slots
               PROVE  /\ LiveAllocation(orders, q, t) <= requisitions'[q].lines[t].qty
                      /\ (requisitions'[q].lines[t].qty > 0 /\ requisitions'[q].lines[t].status # "cancelled") =>
                             ((requisitions'[q].lines[t].status = "ordered")
                                 <=> LiveAllocation(orders, q, t) >= requisitions'[q].lines[t].qty)
    OBVIOUS
  <2>1. requisitions'[q].lines[t] = lines[t]
    BY <1>6, <1>7
  <2>2. CASE t = s
    BY <1>4, <1>5, <1>8, <2>1, <2>2
  <2>3. CASE t # s
    <3>1. lines[t] = requisitions[q].lines[t]
      BY <1>5, <2>3
    <3>q. QED
      BY <1>8, <2>1, <3>1
  <2>q. QED
    BY <2>2, <2>3
<1>10. RequisitionKept(q)
  BY <1>4, <1>5, <1>6, <1>7 DEF RequisitionKept
<1>q. QED
  BY <1>1, <1>6, <1>7, <1>9, <1>10, RequisitionStep

LEMMA CloseRequisitionBuys ==
    ASSUME SupplyInv, NEW q \in Requisitions, CloseRequisition(q)
    PROVE  SupplyInv' /\ PromisesKept
<1> DEFINE rs == Refreshed(orders, q, Kept(q))
           r == [rs[q] EXCEPT !.status = "closed"]
<1>1. requisitions' = [rs EXCEPT ![q] = r] /\ UNCHANGED <<demand, orders>>
  BY DEF CloseRequisition
<1>2. orders \in OrderMaps /\ requisitions \in [Requisitions -> ReqRecs] /\ Kept(q) \subseteq Slots
  BY SupplyIs DEF Kept, Named
<1>3. /\ rs \in [Requisitions -> ReqRecs] /\ rs[q] \in ReqRecs
      /\ \A p \in Requisitions \ {q} : rs[p] = requisitions[p]
  <2>1. rs \in [Requisitions -> ReqRecs] /\ \A p \in Requisitions \ {q} : rs[p] = requisitions[p]
    BY <1>2, Refreshes
  <2> HIDE DEF rs
  <2>q. QED
    BY <2>1
<1> HIDE DEF rs
<1>4. r \in ReqRecs /\ r.lines = rs[q].lines /\ r.status = "closed"
  BY <1>3 DEF ReqRecs
<1> HIDE DEF r
<1>5. /\ requisitions' \in [Requisitions -> ReqRecs]
      /\ requisitions'[q].lines = rs[q].lines /\ requisitions'[q].status = "closed"
      /\ \A p \in Requisitions \ {q} : requisitions'[p] = rs[p] /\ requisitions'[p] = requisitions[p]
  BY <1>1, <1>3, <1>4
<1>6. \A p \in Requisitions : /\ requisitions'[p].lines = Refreshed(orders', q, Kept(q))[p].lines
                              /\ requisitions[p].status # "none" => requisitions'[p].status # "none"
  BY <1>1, <1>5 DEF rs
<1>7. \A s \in Slots : LiveAllocation(orders', q, s) <= requisitions[q].lines[s].qty
  BY <1>1, SupplyIs
<1>8. \A p \in Requisitions, s \in Slots : LiveAllocation(orders', p, s) = LiveAllocation(orders, p, s)
  BY <1>1
<1>q. QED
  BY <1>1, <1>2, <1>5, <1>6, <1>7, <1>8, OrdersStep

\* A command that moves one version of a requisition and adds nothing to what counts.
Moves(o, x, q, touched) ==
    /\ UNCHANGED demand
    /\ orders' = [orders EXCEPT ![o] = x] /\ orders[o].req = q /\ x.req = q
    /\ requisitions' \in [Requisitions -> ReqRecs]
    /\ \A p \in Requisitions : /\ requisitions'[p].lines = Refreshed(orders', q, touched)[p].lines
                               /\ requisitions[p].status # "none" => requisitions'[p].status # "none"
    /\ \A s \in Slots : /\ Counted(x, s) <= Counted(orders[o], s)
                        /\ s \notin touched => Counted(x, s) = Counted(orders[o], s)
    /\ OrderOK(o)' /\ OrderKept(o)

LEMMA OneVersion ==
    ASSUME SupplyInv, NEW o \in Orders, NEW x \in OrderRecs, NEW q \in Requisitions,
           NEW touched \in SUBSET Slots, Moves(o, x, q, touched)
    PROVE  SupplyInv' /\ PromisesKept
<1> USE DEF Moves
<1>1. orders \in OrderMaps /\ orders[o] \in OrderRecs
  BY SupplyIs
<1>2. orders' \in OrderMaps /\ \A v \in Orders : orders'[v] = orders[v] \/ (OrderOK(v)' /\ OrderKept(v))
  BY <1>1 DEF OrderMaps
<1>3. \A p \in Requisitions, s \in Slots :
          /\ LiveAllocation(orders, p, s) \in Nat /\ LiveAllocation(orders', p, s) \in Nat
          /\ LiveAllocation(orders', p, s) + Part(orders[o], p, s) = LiveAllocation(orders, p, s) + Part(x, p, s)
          /\ Part(orders[o], p, s) \in Nat /\ Part(x, p, s) \in Nat
  <2> SUFFICES ASSUME NEW p \in Requisitions, NEW s \in Slots
               PROVE  /\ LiveAllocation(orders, p, s) \in Nat /\ LiveAllocation(orders', p, s) \in Nat
                      /\ LiveAllocation(orders', p, s) + Part(orders[o], p, s)
                             = LiveAllocation(orders, p, s) + Part(x, p, s)
                      /\ Part(orders[o], p, s) \in Nat /\ Part(x, p, s) \in Nat
    OBVIOUS
  <2>1. /\ LiveAllocation(orders, p, s) \in Nat /\ LiveAllocation([orders EXCEPT ![o] = x], p, s) \in Nat
        /\ LiveAllocation([orders EXCEPT ![o] = x], p, s) + Part(orders[o], p, s)
               = LiveAllocation(orders, p, s) + Part(x, p, s)
    BY <1>1, LiveChange
  <2>2. Part(orders[o], p, s) \in Nat /\ Part(x, p, s) \in Nat
    BY <1>1, PartIn
  <2>q. QED
    BY <2>1, <2>2
<1>4. \A p \in Requisitions, s \in Slots :
          p # q \/ s \notin touched => LiveAllocation(orders', p, s) = LiveAllocation(orders, p, s)
  <2> SUFFICES ASSUME NEW p \in Requisitions, NEW s \in Slots, p # q \/ s \notin touched
               PROVE  LiveAllocation(orders', p, s) = LiveAllocation(orders, p, s)
    OBVIOUS
  <2>1. Part(orders[o], p, s) = Part(x, p, s)
    BY DEF Part
  <2>2. /\ LiveAllocation(orders, p, s) \in Nat /\ LiveAllocation(orders', p, s) \in Nat
        /\ LiveAllocation(orders', p, s) + Part(x, p, s) = LiveAllocation(orders, p, s) + Part(x, p, s)
        /\ Part(x, p, s) \in Nat
    BY <1>3, <2>1
  <2>q. QED
    BY <2>2
<1>5. \A s \in Slots : LiveAllocation(orders', q, s) <= requisitions[q].lines[s].qty
  <2> SUFFICES ASSUME NEW s \in Slots PROVE LiveAllocation(orders', q, s) <= requisitions[q].lines[s].qty
    OBVIOUS
  <2>1. Part(x, q, s) <= Part(orders[o], q, s)
    BY DEF Part
  <2>2. LiveAllocation(orders, q, s) <= requisitions[q].lines[s].qty
    BY SupplyIs
  <2>3. requisitions[q].lines[s].qty \in Nat
    <3>1. requisitions[q] \in ReqRecs
      BY SupplyIs
    <3>2. requisitions[q].lines[s].qty \in Quantities
      BY <3>1 DEF ReqRecs, Lines
    <3>q. QED
      BY <3>2, SupplyBounds DEF Quantities
  <2>4. /\ LiveAllocation(orders, q, s) \in Nat /\ LiveAllocation(orders', q, s) \in Nat
        /\ LiveAllocation(orders', q, s) + Part(orders[o], q, s) = LiveAllocation(orders, q, s) + Part(x, q, s)
        /\ Part(orders[o], q, s) \in Nat /\ Part(x, q, s) \in Nat
    BY <1>3
  <2>5. LiveAllocation(orders', q, s) <= LiveAllocation(orders, q, s)
    BY <2>1, <2>4
  <2>q. QED
    BY <2>2, <2>3, <2>4, <2>5
<1>q. QED
  BY <1>2, <1>4, <1>5, OrdersStep

\* The requisition of a version that exists, and what is in it.
LEMMA OrderIn ==
    ASSUME SupplyInv, NEW o \in Orders
    PROVE  /\ orders[o] \in OrderRecs /\ orders = [orders EXCEPT ![o] = orders[o]]
           /\ orders[o].status # "none" =>
                  orders[o].req \in Requisitions /\ requisitions[orders[o].req].status # "none"
           /\ orders[o].status = "none" => orders[o].req = 0
           /\ requisitions \in [Requisitions -> ReqRecs]
<1>1. orders \in OrderMaps /\ orders[o] \in OrderRecs /\ requisitions \in [Requisitions -> ReqRecs]
  BY SupplyIs
<1>2. orders = [orders EXCEPT ![o] = orders[o]]
  BY <1>1 DEF OrderMaps
<1>q. QED
  BY <1>1, <1>2 DEF SupplyInv, OrderOK

\* Nothing is refreshed where nothing is touched.
LEMMA Untouched ==
    ASSUME requisitions \in [Requisitions -> ReqRecs], NEW os \in OrderMaps, NEW q \in Requisitions
    PROVE  \A p \in Requisitions : Refreshed(os, q, {})[p].lines = requisitions[p].lines
<1>1. /\ Refreshed(os, q, {}) \in [Requisitions -> ReqRecs]
      /\ \A p \in Requisitions \ {q} : Refreshed(os, q, {})[p] = requisitions[p]
      /\ \A s \in Slots : Refreshed(os, q, {})[q].lines[s] = requisitions[q].lines[s]
  BY Refreshes
<1>2. Refreshed(os, q, {})[q].lines = requisitions[q].lines
  <2>1. Refreshed(os, q, {})[q].lines \in [Slots -> Lines] /\ requisitions[q].lines \in [Slots -> Lines]
    <3>1. Refreshed(os, q, {})[q] \in ReqRecs /\ requisitions[q] \in ReqRecs
      BY <1>1
    <3>q. QED
      BY <3>1 DEF ReqRecs
  <2>q. QED
    BY <1>1, <2>1
<1>q. QED
  BY <1>1, <1>2

LEMMA IssueBuys ==
    ASSUME SupplyInv, NEW o \in Orders, IssueOrder(o)
    PROVE  SupplyInv' /\ PromisesKept
<1> DEFINE x == [orders[o] EXCEPT !.status = "issued"]
           q == orders[o].req
<1>1. orders' = [orders EXCEPT ![o] = x] /\ UNCHANGED <<demand, requisitions>> /\ orders[o].status = "draft"
  BY DEF IssueOrder
<1>2. orders[o] \in OrderRecs /\ q \in Requisitions /\ requisitions \in [Requisitions -> ReqRecs]
      /\ requisitions[q].status # "none" /\ orders \in OrderMaps
  BY <1>1, OrderIn, SupplyIs
<1>3. x \in OrderRecs /\ x.status = "issued" /\ x.req = q /\ x.lines = orders[o].lines
  BY <1>2 DEF OrderRecs, OrderStatuses, LiveOrder
<1> HIDE DEF x
<1>4. \A s \in Slots : orders[o].lines[s].promise \notin Standing /\ orders[o].lines[s].committed = 0
  <2> SUFFICES ASSUME NEW s \in Slots
               PROVE  orders[o].lines[s].promise \notin Standing /\ orders[o].lines[s].committed = 0
    OBVIOUS
  <2>1. LineOK(orders[o].status, orders[o].lines[s])
    BY SupplyIs
  <2>q. QED
    BY <1>1, <2>1 DEF LineOK, Contracted
<1>5. \A s \in Slots : Counted(x, s) = Counted(orders[o], s)
  BY <1>1, <1>3 DEF Counted, LiveOrder
<1>6. orders' \in OrderMaps /\ orders'[o] = x
  BY <1>1, <1>2, <1>3 DEF OrderMaps
<1>7. OrderOK(o)'
  <2>1. x = Recomputed(x)
    BY <1>3, <1>4, FreshDerived
  <2>2. \A s \in Slots : LineOK(x.status, x.lines[s])
    BY <1>3, <1>4 DEF LineOK
  <2>q. QED
    BY <1>1, <1>2, <1>3, <1>6, <2>1, <2>2 DEF OrderOK
<1>8. \A p \in Requisitions : Refreshed(orders', q, {})[p].lines = requisitions[p].lines
  BY <1>2, <1>6, Untouched
<1>9. \A p \in Requisitions : requisitions'[p].lines = Refreshed(orders', q, {})[p].lines
  BY <1>1, <1>8
<1>10. \A s \in Slots : Counted(x, s) <= Counted(orders[o], s)
  <2>1. \A s \in Slots : Counted(orders[o], s) \in Nat
    BY <1>2, PartIn
  <2>q. QED
    BY <1>5, <2>1
<1>11. requisitions' \in [Requisitions -> ReqRecs]
  BY <1>1, <1>2
<1>12. OrderKept(o)
  BY <1>3, <1>6 DEF OrderKept
<1>13. Moves(o, x, q, {})
  BY <1>1, <1>2, <1>3, <1>5, <1>7, <1>9, <1>10, <1>11, <1>12 DEF Moves
<1> HIDE DEF q
<1>q. QED
  BY <1>2, <1>3, <1>13, OneVersion

\* What counts of a version closed without a promise that stands is nothing,
\* and of one closed short is what it was committed for.
LEMMA CloseBuys ==
    ASSUME SupplyInv, NEW o \in Orders, CancelOrder(o) \/ CloseShort(o)
    PROVE  SupplyInv' /\ PromisesKept
<1>0. PICK st \in {"cancelled", "closed_short"} :
          /\ orders' = [orders EXCEPT ![o].status = st] /\ UNCHANGED demand
          /\ requisitions' = Refreshed(orders', orders[o].req, Named(orders[o].lines))
          /\ orders[o].status \in LiveOrder
          /\ st = "cancelled" => \A s \in Slots : orders[o].lines[s].promise \notin Standing
  BY DEF CancelOrder, CloseShort, NoStandingPromise, LiveOrder
<1> DEFINE x == [orders[o] EXCEPT !.status = st]
           q == orders[o].req
           touched == Named(orders[o].lines)
<1>1. orders' = [orders EXCEPT ![o] = x] /\ requisitions' = Refreshed(orders', q, touched)
  BY <1>0
<1>2. orders[o] \in OrderRecs /\ q \in Requisitions /\ requisitions \in [Requisitions -> ReqRecs]
      /\ requisitions[q].status # "none" /\ orders \in OrderMaps /\ touched \in SUBSET Slots
  <2>1. orders[o].status # "none"
    BY <1>0 DEF LiveOrder
  <2>q. QED
    BY <2>1, OrderIn, SupplyIs DEF Named
<1>3. x \in OrderRecs /\ x.status = st /\ x.req = q /\ x.lines = orders[o].lines
  BY <1>2 DEF OrderRecs, OrderStatuses
<1> HIDE DEF x
<1>4. \A s \in Slots : /\ LineOK(orders[o].status, orders[o].lines[s])
                       /\ orders[o].lines[s].qty \in Nat /\ orders[o].lines[s].committed \in Nat
  BY <1>2, SupplyIs, LineIn
<1>5. \A s \in Slots : Counted(x, s) <= Counted(orders[o], s)
  <2> SUFFICES ASSUME NEW s \in Slots PROVE Counted(x, s) <= Counted(orders[o], s)
    OBVIOUS
  <2>1. LineOK(orders[o].status, orders[o].lines[s]) /\ orders[o].lines[s].qty \in Nat
        /\ orders[o].lines[s].committed \in Nat
    BY <1>4
  <2>2. orders[o].lines[s].committed <= orders[o].lines[s].qty
    BY <2>1 DEF LineOK
  <2>3. Counted(x, s) \in {0, orders[o].lines[s].committed}
    BY <1>3 DEF Counted, LiveOrder
  <2>4. orders[o].lines[s].promise # "defaulted" => Counted(orders[o], s) = orders[o].lines[s].qty
    BY <1>0 DEF Counted
  <2>5. orders[o].lines[s].promise = "defaulted" => Counted(x, s) = 0 /\ Counted(orders[o], s) = 0
    BY <1>3 DEF Counted
  <2>q. QED
    BY <2>1, <2>2, <2>3, <2>4, <2>5
<1>6. \A s \in Slots : s \notin touched => Counted(x, s) = Counted(orders[o], s)
  <2> SUFFICES ASSUME NEW s \in Slots, s \notin touched PROVE Counted(x, s) = Counted(orders[o], s)
    OBVIOUS
  <2>1. orders[o].lines[s].qty = 0 /\ LineOK(orders[o].status, orders[o].lines[s])
    BY <1>4 DEF Named
  <2>2. orders[o].lines[s].committed = 0
    BY <2>1 DEF LineOK
  <2>q. QED
    BY <1>3, <2>1, <2>2 DEF Counted
<1>7. orders' \in OrderMaps /\ orders'[o] = x
  BY <1>1, <1>2, <1>3 DEF OrderMaps
<1>8. /\ requisitions' \in [Requisitions -> ReqRecs]
      /\ \A p \in Requisitions : requisitions[p].status # "none" => requisitions'[p].status # "none"
  <2> HIDE DEF q, touched
  <2>1. /\ Refreshed(orders', q, touched) \in [Requisitions -> ReqRecs]
        /\ \A p \in Requisitions \ {q} : Refreshed(orders', q, touched)[p] = requisitions[p]
        /\ Refreshed(orders', q, touched)[q].status = requisitions[q].status
    BY <1>2, <1>7, Refreshes
  <2>q. QED
    BY <1>1, <2>1
<1>9. OrderOK(o)'
  <2>1. x = Recomputed(x)
    BY <1>3 DEF Recomputed
  <2>2. \A s \in Slots : LineOK(x.status, x.lines[s])
    BY <1>0, <1>3, <1>4 DEF LineOK
  <2>3. x.status # "none" /\ requisitions'[q].status # "none"
    BY <1>2, <1>3, <1>8
  <2>q. QED
    BY <1>2, <1>3, <1>7, <2>1, <2>2, <2>3 DEF OrderOK
<1>10. OrderKept(o)
  BY <1>3, <1>7 DEF OrderKept
<1>11. Moves(o, x, q, touched)
  BY <1>0, <1>1, <1>2, <1>3, <1>5, <1>6, <1>8, <1>9, <1>10 DEF Moves
<1> HIDE DEF q, touched
<1>q. QED
  BY <1>2, <1>3, <1>11, OneVersion

\* One line of a version, its promise moved and what it is committed for.
IsMoved(y, order, s, pr, n) == y = [order EXCEPT !.lines[s].promise = pr, !.lines[s].committed = n]

LEMMA LineMoves ==
    ASSUME NEW order \in OrderRecs, NEW s \in Slots, NEW pr \in Standing \cup {"defaulted"}, NEW n \in Quantities,
           NEW y, IsMoved(y, order, s, pr, n)
    PROVE  /\ y \in OrderRecs /\ y.status = order.status /\ y.req = order.req
           /\ y.lines[s].promise = pr /\ y.lines[s].committed = n /\ y.lines[s].qty = order.lines[s].qty
           /\ \A t \in Slots \ {s} : y.lines[t] = order.lines[t]
<1> DEFINE l == [order.lines[s] EXCEPT !.promise = pr, !.committed = n]
           ls == [order.lines EXCEPT ![s] = l]
<1>1. order.lines \in [Slots -> OrderLines] /\ order.lines[s] \in OrderLines
  BY DEF OrderRecs
<1>2. l \in OrderLines /\ l.promise = pr /\ l.committed = n /\ l.qty = order.lines[s].qty
  BY <1>1 DEF OrderLines
<1>3. y = [order EXCEPT !.lines = ls]
  BY <1>1 DEF IsMoved, OrderRecs, OrderLines
<1> HIDE DEF l
<1>4. ls \in [Slots -> OrderLines] /\ ls[s] = l /\ \A t \in Slots \ {s} : ls[t] = order.lines[t]
  BY <1>1, <1>2
<1> HIDE DEF ls
<1>5. y \in OrderRecs /\ y.status = order.status /\ y.req = order.req /\ y.lines = ls
  BY <1>3, <1>4 DEF OrderRecs
<1>q. QED
  BY <1>2, <1>4, <1>5

\* A version as it is recomputed after a line of it moved.
Repromised(x, o, s, pr) ==
    /\ orders[o].status \in Contracted \cup {"closed_short"}
    /\ pr = "committed" => orders[o].status \in Contracted /\ orders[o].lines[s].promise = "none"
    /\ \E y : /\ IsMoved(y, orders[o], s, pr, IF pr = "committed" THEN orders[o].lines[s].qty ELSE 0)
             /\ x = Recomputed(y)

LEMMA PromiseMoves ==
    ASSUME SupplyInv, NEW o \in Orders, NEW s \in Slots, NEW pr \in {"committed", "defaulted"},
           NEW x, Repromised(x, o, s, pr)
    PROVE  /\ x \in OrderRecs /\ x.req = orders[o].req /\ x.status # "none" /\ x = Recomputed(x)
           /\ \A t \in Slots : /\ LineOK(x.status, x.lines[t]) /\ x.lines[t].qty = orders[o].lines[t].qty
                               /\ Counted(x, t) <= Counted(orders[o], t)
                               /\ t # s \/ pr = "committed" => Counted(x, t) = Counted(orders[o], t)
<1> DEFINE n == IF pr = "committed" THEN orders[o].lines[s].qty ELSE 0
<1>0. PICK y : IsMoved(y, orders[o], s, pr, n) /\ x = Recomputed(y)
  BY DEF Repromised
<1>1. orders[o] \in OrderRecs
  BY OrderIn
<1>2. n \in Quantities /\ pr \in Standing \cup {"defaulted"}
  <2>1. orders[o].lines[s].qty \in Quantities /\ 0 \in Quantities
    BY <1>1, LineIn, SupplyBounds DEF Quantities
  <2>q. QED
    BY <2>1 DEF Standing
<1>3. /\ y \in OrderRecs /\ y.status = orders[o].status /\ y.req = orders[o].req
      /\ y.lines[s].promise = pr /\ y.lines[s].committed = n /\ y.lines[s].qty = orders[o].lines[s].qty
      /\ \A t \in Slots \ {s} : y.lines[t] = orders[o].lines[t]
  <2> HIDE DEF n
  <2>q. QED
    BY <1>0, <1>1, <1>2, LineMoves
<1>4. /\ x \in OrderRecs /\ x.req = y.req /\ x.lines = y.lines /\ x = Recomputed(x)
      /\ y.status \in Contracted => x.status \in Contracted
      /\ y.status \notin Contracted => x = y
  BY <1>0, <1>3, RecomputedIs
<1>5. x.status \in Contracted \cup {"closed_short"} /\ (x.status \in Contracted <=> orders[o].status \in Contracted)
      /\ (x.status = "closed_short" <=> orders[o].status = "closed_short")
  BY <1>3, <1>4 DEF Repromised, Contracted
<1>6. \A t \in Slots : LineOK(x.status, x.lines[t])
  <2> SUFFICES ASSUME NEW t \in Slots PROVE LineOK(x.status, x.lines[t])
    OBVIOUS
  <2>1. CASE t = s
    <3>1. x.lines[s].promise = pr /\ x.lines[s].committed = n /\ x.lines[s].qty = orders[o].lines[s].qty
      BY <1>3, <1>4
    <3>2. CASE pr = "committed"
      BY <1>5, <2>1, <3>1, <3>2 DEF Repromised, LineOK, Standing
    <3>3. CASE pr = "defaulted"
      BY <2>1, <3>1, <3>3 DEF LineOK, Standing
    <3>q. QED
      BY <3>2, <3>3
  <2>2. CASE t # s
    <3>1. LineOK(orders[o].status, orders[o].lines[t]) /\ x.lines[t] = orders[o].lines[t]
      BY <1>3, <1>4, <2>2, SupplyIs
    <3>q. QED
      BY <1>5, <3>1 DEF LineOK
  <2>q. QED
    BY <2>1, <2>2
<1>7. \A t \in Slots : t # s => Counted(x, t) = Counted(orders[o], t)
  <2> SUFFICES ASSUME NEW t \in Slots, t # s PROVE Counted(x, t) = Counted(orders[o], t)
    OBVIOUS
  <2>1. x.lines[t] = orders[o].lines[t]
    BY <1>3, <1>4
  <2>2. (x.status \in LiveOrder) <=> (orders[o].status \in LiveOrder)
    BY <1>5 DEF Contracted, LiveOrder
  <2>q. QED
    BY <1>5, <2>1, <2>2 DEF Counted
<1>8. pr = "committed" => Counted(x, s) = Counted(orders[o], s)
  <2> SUFFICES ASSUME pr = "committed" PROVE Counted(x, s) = Counted(orders[o], s)
    OBVIOUS
  <2>1. x.status \in LiveOrder /\ orders[o].status \in LiveOrder
    BY <1>5 DEF Repromised, Contracted, LiveOrder
  <2>2. x.lines[s].promise = "committed" /\ x.lines[s].qty = orders[o].lines[s].qty
    BY <1>3, <1>4
  <2>3. orders[o].lines[s].promise = "none"
    BY DEF Repromised
  <2>q. QED
    BY <2>1, <2>2, <2>3 DEF Counted
<1>9. pr = "defaulted" => Counted(x, s) = 0
  BY <1>3, <1>4 DEF Counted
<1>10. \A t \in Slots : Counted(orders[o], t) \in Nat
  BY <1>1, PartIn
<1>11. \A t \in Slots : Counted(x, t) <= Counted(orders[o], t)
  BY <1>7, <1>8, <1>9, <1>10
<1>12. x.status # "none"
  BY <1>5 DEF Contracted
<1>13. \A t \in Slots : x.lines[t].qty = orders[o].lines[t].qty
  BY <1>3, <1>4
<1>q. QED
  BY <1>3, <1>4, <1>6, <1>7, <1>8, <1>11, <1>12, <1>13

LEMMA CommitBuys ==
    ASSUME SupplyInv, NEW o \in Orders, NEW s \in Slots, CommitCapacity(o, s)
    PROVE  SupplyInv' /\ PromisesKept
<1> DEFINE n == orders[o].lines[s].qty
           y == [orders[o] EXCEPT !.lines[s].promise = "committed", !.lines[s].committed = n]
           x == Recomputed(y)
           q == orders[o].req
<1>1. /\ orders' = [orders EXCEPT ![o] = x] /\ UNCHANGED <<demand, requisitions>>
      /\ orders[o].status \in Contracted /\ orders[o].lines[s].promise = "none"
  BY DEF CommitCapacity, Contracted
<1>2. /\ x \in OrderRecs /\ x.req = orders[o].req /\ x.status # "none" /\ x = Recomputed(x)
      /\ \A t \in Slots : /\ LineOK(x.status, x.lines[t]) /\ x.lines[t].qty = orders[o].lines[t].qty
                          /\ Counted(x, t) <= Counted(orders[o], t)
                          /\ Counted(x, t) = Counted(orders[o], t)
  <2>1. Repromised(x, o, s, "committed")
    BY <1>1 DEF Repromised, IsMoved
  <2> HIDE DEF x
  <2>q. QED
    BY <2>1, PromiseMoves
<1> HIDE DEF x, y, n
<1>3. orders[o] \in OrderRecs /\ q \in Requisitions /\ requisitions \in [Requisitions -> ReqRecs]
      /\ requisitions[q].status # "none" /\ orders \in OrderMaps
  BY <1>1, OrderIn, SupplyIs DEF Contracted
<1>4. orders' \in OrderMaps /\ orders'[o] = x
  BY <1>1, <1>2, <1>3 DEF OrderMaps
<1>5. OrderOK(o)'
  BY <1>1, <1>2, <1>3, <1>4 DEF OrderOK
<1>6. \A p \in Requisitions : requisitions'[p].lines = Refreshed(orders', q, {})[p].lines
  BY <1>1, <1>3, <1>4, Untouched
<1>7. OrderKept(o)
  BY <1>2, <1>4 DEF OrderKept
<1>8. Moves(o, x, q, {})
  BY <1>1, <1>2, <1>3, <1>5, <1>6, <1>7 DEF Moves
<1> HIDE DEF q
<1>q. QED
  BY <1>2, <1>3, <1>8, OneVersion

LEMMA ReviseBuys ==
    ASSUME SupplyInv, NEW o \in Orders, NEW s \in Slots, ReviseCapacity(o, s)
    PROVE  SupplyInv' /\ PromisesKept
<1> DEFINE n == orders[o].lines[s].committed
           x == [orders[o] EXCEPT !.lines[s].promise = "revised", !.lines[s].committed = n]
           q == orders[o].req
<1>1. /\ orders' = [orders EXCEPT ![o].lines[s].promise = "revised"] /\ UNCHANGED <<demand, requisitions>>
      /\ orders[o].lines[s].promise \in Standing
  BY DEF ReviseCapacity
<1>2. /\ orders[o] \in OrderRecs /\ orders[o] = Recomputed(orders[o]) /\ requisitions \in [Requisitions -> ReqRecs]
      /\ orders \in OrderMaps /\ \A t \in Slots : LineOK(orders[o].status, orders[o].lines[t])
  BY SupplyIs
<1>3. orders[o].status \in Contracted \cup {"closed_short"}
  BY <1>1, <1>2 DEF LineOK
<1>4. q \in Requisitions /\ requisitions[q].status # "none"
  BY <1>3, OrderIn DEF Contracted
<1>5. orders' = [orders EXCEPT ![o] = x]
  <2>1. orders[o].lines \in [Slots -> OrderLines] /\ orders[o].lines[s] \in OrderLines
    BY <1>2 DEF OrderRecs
  <2>2. [orders[o].lines[s] EXCEPT !.promise = "revised"]
            = [orders[o].lines[s] EXCEPT !.promise = "revised", !.committed = n]
    BY <2>1 DEF OrderLines
  <2>q. QED
    BY <1>1, <1>2, <2>1, <2>2 DEF OrderRecs
<1>6. n \in Quantities /\ "revised" \in Standing
  BY <1>2, LineIn DEF Standing
<1>7. /\ x \in OrderRecs /\ x.status = orders[o].status /\ x.req = q
      /\ x.lines[s].promise = "revised" /\ x.lines[s].committed = n /\ x.lines[s].qty = orders[o].lines[s].qty
      /\ \A t \in Slots \ {s} : x.lines[t] = orders[o].lines[t]
  <2>1. IsMoved(x, orders[o], s, "revised", n)
    BY DEF IsMoved
  <2> HIDE DEF n, x
  <2>q. QED
    BY <1>2, <1>6, <2>1, LineMoves
<1> HIDE DEF x
<1>8. x = Recomputed(x)
  <2>1. \A t \in Slots : x.lines[t].qty = orders[o].lines[t].qty /\ x.lines[t].committed = orders[o].lines[t].committed
    BY <1>7
  <2>q. QED
    BY <1>2, <1>7, <2>1, SameDerived
<1>9. \A t \in Slots : LineOK(x.status, x.lines[t]) /\ Counted(x, t) = Counted(orders[o], t)
  <2> SUFFICES ASSUME NEW t \in Slots PROVE LineOK(x.status, x.lines[t]) /\ Counted(x, t) = Counted(orders[o], t)
    OBVIOUS
  <2>1. CASE t = s
    <3>1. x.lines[s].promise \in Standing /\ x.lines[s].promise # "defaulted" /\ orders[o].lines[s].promise # "defaulted"
      BY <1>1, <1>7 DEF Standing
    <3>2. LineOK(orders[o].status, orders[o].lines[s])
      BY <1>2
    <3>3. LineOK(x.status, x.lines[s])
      BY <1>1, <1>7, <3>1, <3>2 DEF LineOK
    <3>4. Counted(x, s) = Counted(orders[o], s)
      BY <1>7, <3>1 DEF Counted
    <3>q. QED
      BY <2>1, <3>3, <3>4
  <2>2. CASE t # s
    BY <1>2, <1>7, <2>2 DEF Counted
  <2>q. QED
    BY <2>1, <2>2
<1>10. \A t \in Slots : Counted(orders[o], t) \in Nat
  BY <1>2, PartIn
<1>11. orders' \in OrderMaps /\ orders'[o] = x
  BY <1>2, <1>5, <1>7 DEF OrderMaps
<1>12. OrderOK(o)'
  <2>1. x.status # "none"
    BY <1>3, <1>7 DEF Contracted
  <2>q. QED
    BY <1>1, <1>4, <1>7, <1>8, <1>9, <1>11, <2>1 DEF OrderOK
<1>13. \A p \in Requisitions : requisitions'[p].lines = Refreshed(orders', q, {})[p].lines
  BY <1>1, <1>2, <1>4, <1>11, Untouched
<1>14. \A t \in Slots : Counted(x, t) <= Counted(orders[o], t)
  BY <1>9, <1>10
<1>15. OrderKept(o)
  <2>1. x.status # "none" /\ \A t \in Slots : x.lines[t].qty = orders[o].lines[t].qty
    BY <1>3, <1>7 DEF Contracted
  <2>q. QED
    BY <1>7, <1>11, <2>1 DEF OrderKept
<1>16. Moves(o, x, q, {})
  BY <1>1, <1>2, <1>5, <1>7, <1>9, <1>12, <1>13, <1>14, <1>15 DEF Moves
<1> HIDE DEF q
<1>q. QED
  BY <1>4, <1>7, <1>16, OneVersion

LEMMA ReopenedIs ==
    ASSUME NEW rs \in [Requisitions -> ReqRecs], NEW os, NEW q \in Requisitions
    PROVE  /\ Reopened(rs, os, q) \in [Requisitions -> ReqRecs]
           /\ \A p \in Requisitions : /\ Reopened(rs, os, q)[p].lines = rs[p].lines
                                      /\ rs[p].status # "none" => Reopened(rs, os, q)[p].status # "none"
<1>1. Reopened(rs, os, q) \in {rs, [rs EXCEPT ![q].status = "approved"]}
  BY DEF Reopened
<1>2. /\ [rs[q] EXCEPT !.status = "approved"] \in ReqRecs /\ [rs[q] EXCEPT !.status = "approved"].lines = rs[q].lines
      /\ [rs[q] EXCEPT !.status = "approved"].status = "approved"
  BY DEF ReqRecs
<1>q. QED
  BY <1>1, <1>2

LEMMA DefaultBuys ==
    ASSUME SupplyInv, NEW o \in Orders, NEW s \in Slots, DefaultCapacity(o, s)
    PROVE  SupplyInv' /\ PromisesKept
<1> DEFINE n == 0
           y == [orders[o] EXCEPT !.lines[s].promise = "defaulted", !.lines[s].committed = n]
           x == Recomputed(y)
           q == orders[o].req
<1>1. /\ orders' = [orders EXCEPT ![o] = x] /\ UNCHANGED demand
      /\ orders[o].lines[s].promise \in Standing
      /\ requisitions' = Reopened(Refreshed(orders', q, {s}), orders', q)
  BY DEF DefaultCapacity
<1>2. /\ orders[o] \in OrderRecs /\ requisitions \in [Requisitions -> ReqRecs]
      /\ orders \in OrderMaps /\ \A t \in Slots : LineOK(orders[o].status, orders[o].lines[t])
  BY SupplyIs
<1>3. orders[o].status \in Contracted \cup {"closed_short"}
  BY <1>1, <1>2 DEF LineOK
<1>4. q \in Requisitions /\ requisitions[q].status # "none"
  BY <1>3, OrderIn DEF Contracted
<1>5. /\ x \in OrderRecs /\ x.req = orders[o].req /\ x.status # "none" /\ x = Recomputed(x)
      /\ \A t \in Slots : /\ LineOK(x.status, x.lines[t]) /\ x.lines[t].qty = orders[o].lines[t].qty
                          /\ Counted(x, t) <= Counted(orders[o], t)
                          /\ t # s => Counted(x, t) = Counted(orders[o], t)
  <2>1. Repromised(x, o, s, "defaulted")
    BY <1>3 DEF Repromised, IsMoved
  <2> HIDE DEF x
  <2>q. QED
    BY <2>1, PromiseMoves
<1> HIDE DEF x, y, n
<1>6. orders' \in OrderMaps /\ orders'[o] = x
  BY <1>1, <1>2, <1>5 DEF OrderMaps
<1>7. /\ requisitions' \in [Requisitions -> ReqRecs]
      /\ \A p \in Requisitions : /\ requisitions'[p].lines = Refreshed(orders', q, {s})[p].lines
                                 /\ requisitions[p].status # "none" => requisitions'[p].status # "none"
  <2> HIDE DEF q
  <2> DEFINE rs == Refreshed(orders', q, {s})
  <2>1. /\ rs \in [Requisitions -> ReqRecs] /\ rs[q].status = requisitions[q].status
        /\ \A p \in Requisitions \ {q} : rs[p] = requisitions[p]
    BY <1>2, <1>4, <1>6, Refreshes
  <2>2. requisitions' = Reopened(rs, orders', q)
    BY <1>1
  <2> HIDE DEF rs
  <2>3. /\ requisitions' \in [Requisitions -> ReqRecs]
        /\ \A p \in Requisitions : /\ requisitions'[p].lines = rs[p].lines
                                   /\ rs[p].status # "none" => requisitions'[p].status # "none"
    BY <1>4, <2>1, <2>2, ReopenedIs
  <2>4. \A p \in Requisitions : requisitions[p].status # "none" => requisitions'[p].status # "none"
    BY <2>1, <2>3
  <2>q. QED
    BY <2>3, <2>4 DEF rs
<1>8. OrderOK(o)'
  BY <1>4, <1>5, <1>6, <1>7 DEF OrderOK
<1>9. OrderKept(o)
  BY <1>5, <1>6 DEF OrderKept
<1>10. Moves(o, x, q, {s})
  BY <1>1, <1>5, <1>7, <1>8, <1>9 DEF Moves
<1> HIDE DEF q
<1>q. QED
  BY <1>4, <1>5, <1>10, OneVersion

\* A new version, uncommitted.
LEMMA VersionIs ==
    ASSUME NEW st \in {"draft", "issued"}, NEW q \in Requisitions, NEW want \in [Slots -> Quantities]
    PROVE  /\ Version(st, q, want) \in OrderRecs /\ Version(st, q, want).status = st
           /\ Version(st, q, want).req = q /\ Version(st, q, want) = Recomputed(Version(st, q, want))
           /\ \A s \in Slots : /\ Version(st, q, want).lines[s].qty = want[s]
                               /\ LineOK(st, Version(st, q, want).lines[s])
                               /\ Counted(Version(st, q, want), s) = want[s]
<1> DEFINE x == Version(st, q, want)
<1>1. /\ x.status = st /\ x.req = q
      /\ \A s \in Slots : /\ x.lines[s].qty = want[s] /\ x.lines[s].committed = 0
                          /\ x.lines[s].promise = "none"
  BY DEF Version
<1>2. x \in OrderRecs
  <2>1. 0 \in Quantities
    BY SupplyBounds DEF Quantities
  <2>q. QED
    BY <2>1 DEF Version, OrderRecs, OrderLines, OrderStatuses, LiveOrder
<1> HIDE DEF x
<1>3. x = Recomputed(x)
  BY <1>1, <1>2, FreshDerived DEF Contracted
<1>4. \A s \in Slots : LineOK(st, x.lines[s]) /\ Counted(x, s) = want[s]
  BY <1>1 DEF LineOK, Standing, Counted, LiveOrder
<1>q. QED
  BY <1>1, <1>2, <1>3, <1>4 DEF x

LEMMA VersionAdds ==
    ASSUME NEW os \in OrderMaps, NEW o \in Orders, os[o].req \notin Requisitions,
           NEW st \in {"draft", "issued"}, NEW q \in Requisitions, NEW want \in [Slots -> Quantities]
    PROVE  \A p \in Requisitions, s \in Slots :
               /\ LiveAllocation(os, p, s) \in Nat
               /\ LiveAllocation([os EXCEPT ![o] = Version(st, q, want)], p, s)
                      = LiveAllocation(os, p, s) + IF p = q THEN want[s] ELSE 0
<1> SUFFICES ASSUME NEW p \in Requisitions, NEW s \in Slots
             PROVE  /\ LiveAllocation(os, p, s) \in Nat
                    /\ LiveAllocation([os EXCEPT ![o] = Version(st, q, want)], p, s)
                           = LiveAllocation(os, p, s) + IF p = q THEN want[s] ELSE 0
  OBVIOUS
<1> DEFINE x == Version(st, q, want)
<1>1. x \in OrderRecs /\ x.req = q /\ Counted(x, s) = want[s] /\ want[s] \in Nat
  <2>1. want[s] \in Nat
    BY SupplyBounds DEF Quantities
  <2>q. QED
    BY <2>1, VersionIs
<1> HIDE DEF x
<1>2. Part(x, p, s) = (IF p = q THEN want[s] ELSE 0) /\ Part(os[o], p, s) = 0
  BY <1>1 DEF Part
<1>3. /\ LiveAllocation(os, p, s) \in Nat /\ LiveAllocation([os EXCEPT ![o] = x], p, s) \in Nat
      /\ LiveAllocation([os EXCEPT ![o] = x], p, s) + Part(os[o], p, s) = LiveAllocation(os, p, s) + Part(x, p, s)
  BY <1>1, LiveChange
<1>4. /\ LiveAllocation([os EXCEPT ![o] = x], p, s) + 0 = LiveAllocation(os, p, s) + (IF p = q THEN want[s] ELSE 0)
      /\ LiveAllocation([os EXCEPT ![o] = x], p, s) \in Nat
  BY <1>2, <1>3
<1>5. LiveAllocation([os EXCEPT ![o] = x], p, s) = LiveAllocation(os, p, s) + (IF p = q THEN want[s] ELSE 0)
  BY <1>4
<1>q. QED
  BY <1>3, <1>5 DEF x

LEMMA CreateOrderBuys ==
    ASSUME SupplyInv, NEW o \in Orders, NEW q \in Requisitions, NEW want \in Wants, CreateOrder(o, q, want)
    PROVE  SupplyInv' /\ PromisesKept
<1> DEFINE x == Version("draft", q, want)
           touched == Named(orders'[o].lines)
<1>1. /\ orders' = [orders EXCEPT ![o] = x] /\ UNCHANGED demand /\ orders[o].status = "none"
      /\ requisitions' = Refreshed(orders', q, touched)
      /\ \A s \in Slots : want[s] > 0 => Fits(orders, q, s, want[s])
  BY DEF CreateOrder, NextOrder
<1>2. want \in [Slots -> Quantities] /\ \E s \in Slots : want[s] > 0
  BY DEF Wants
<1>3. orders \in OrderMaps /\ requisitions \in [Requisitions -> ReqRecs] /\ orders[o].req \notin Requisitions
  BY <1>1, OrderIn, SupplyIs DEF Requisitions
<1>4. /\ x \in OrderRecs /\ x.status = "draft" /\ x.req = q /\ x = Recomputed(x)
      /\ \A s \in Slots : x.lines[s].qty = want[s] /\ LineOK("draft", x.lines[s])
  BY <1>2, VersionIs
<1>5. \A p \in Requisitions, s \in Slots :
          /\ LiveAllocation(orders, p, s) \in Nat
          /\ LiveAllocation(orders', p, s) = LiveAllocation(orders, p, s) + IF p = q THEN want[s] ELSE 0
  <2>1. \A p \in Requisitions, s \in Slots :
            /\ LiveAllocation(orders, p, s) \in Nat
            /\ LiveAllocation([orders EXCEPT ![o] = Version("draft", q, want)], p, s)
                   = LiveAllocation(orders, p, s) + IF p = q THEN want[s] ELSE 0
    BY <1>2, <1>3, VersionAdds
  <2>q. QED
    BY <1>1, <2>1
<1> HIDE DEF x
<1>6. orders' \in OrderMaps /\ orders'[o] = x /\ \A v \in Orders \ {o} : orders'[v] = orders[v]
  BY <1>1, <1>3, <1>4 DEF OrderMaps
<1>7. touched \in SUBSET Slots /\ \A s \in Slots : s \notin touched => want[s] = 0
  <2>1. \A s \in Slots : want[s] \in Nat
    BY <1>2, SupplyBounds DEF Quantities
  <2>q. QED
    BY <1>4, <1>6, <2>1 DEF Named
<1> HIDE DEF touched
<1>8. \A p \in Requisitions, s \in Slots :
          p # q \/ s \notin touched => LiveAllocation(orders', p, s) = LiveAllocation(orders, p, s)
  <2> SUFFICES ASSUME NEW p \in Requisitions, NEW s \in Slots, p # q \/ s \notin touched
               PROVE  LiveAllocation(orders', p, s) = LiveAllocation(orders, p, s)
    OBVIOUS
  <2>1. (IF p = q THEN want[s] ELSE 0) = 0
    BY <1>7
  <2>2. LiveAllocation(orders, p, s) \in Nat /\ LiveAllocation(orders', p, s) = LiveAllocation(orders, p, s) + 0
    BY <1>5, <2>1
  <2>q. QED
    BY <2>2
<1>9. \A s \in Slots : LiveAllocation(orders', q, s) <= requisitions[q].lines[s].qty
  <2> SUFFICES ASSUME NEW s \in Slots PROVE LiveAllocation(orders', q, s) <= requisitions[q].lines[s].qty
    OBVIOUS
  <2>1. LiveAllocation(orders, q, s) \in Nat /\ LiveAllocation(orders', q, s) = LiveAllocation(orders, q, s) + want[s]
    BY <1>5
  <2>2. CASE want[s] > 0
    BY <1>1, <2>1, <2>2 DEF Fits
  <2>3. CASE ~(want[s] > 0)
    <3>1. want[s] = 0
      BY <1>2, <2>3, SupplyBounds DEF Quantities
    <3>2. LiveAllocation(orders, q, s) <= requisitions[q].lines[s].qty
      BY SupplyIs
    <3>q. QED
      BY <2>1, <3>1, <3>2
  <2>q. QED
    BY <2>2, <2>3
<1>10. /\ requisitions' \in [Requisitions -> ReqRecs]
       /\ requisitions[q].status # "none" /\ requisitions'[q].status = requisitions[q].status
       /\ \A p \in Requisitions : /\ requisitions'[p].lines = Refreshed(orders', q, touched)[p].lines
                                  /\ requisitions[p].status # "none" => requisitions'[p].status # "none"
  <2>1. /\ Refreshed(orders', q, touched) \in [Requisitions -> ReqRecs]
        /\ \A p \in Requisitions \ {q} : Refreshed(orders', q, touched)[p] = requisitions[p]
        /\ Refreshed(orders', q, touched)[q].status = requisitions[q].status
    BY <1>3, <1>6, <1>7, Refreshes
  <2>2. requisitions[q].status # "none"
    BY <1>1, <1>2 DEF Fits
  <2>q. QED
    BY <1>1, <2>1, <2>2
<1>11. OrderOK(o)'
  BY <1>4, <1>6, <1>10 DEF OrderOK
<1>12. \A v \in Orders : orders'[v] = orders[v] \/ (OrderOK(v)' /\ OrderKept(v))
  BY <1>1, <1>6, <1>11 DEF OrderKept
<1>q. QED
  BY <1>1, <1>6, <1>7, <1>8, <1>9, <1>10, <1>12, OrdersStep

\* The old version stops counting before the new one is measured.
LEMMA AmendBuys ==
    ASSUME SupplyInv, NEW o \in Orders, NEW o2 \in Orders, NEW want \in Wants, Amend(o, o2, want)
    PROVE  SupplyInv' /\ PromisesKept
<1> DEFINE q == orders[o].req
           old == [orders[o] EXCEPT !.status = "amended"]
           released == [orders EXCEPT ![o] = old]
           x == Version("issued", q, want)
           touched == Named(orders[o].lines) \cup Named(orders'[o2].lines)
<1>1. /\ orders' = [released EXCEPT ![o2] = x] /\ UNCHANGED demand /\ orders[o].status = "issued"
      /\ NoStandingPromise(o) /\ orders[o2].status = "none"
      /\ requisitions' = Refreshed(orders', q, touched)
      /\ \A s \in Slots : want[s] > 0 => Fits(released, q, s, want[s])
  BY DEF Amend, NextOrder
<1>2. want \in [Slots -> Quantities] /\ \A s \in Slots : want[s] \in Nat
  BY SupplyBounds DEF Wants, Quantities
<1>3. /\ orders \in OrderMaps /\ requisitions \in [Requisitions -> ReqRecs] /\ orders[o] \in OrderRecs
      /\ q \in Requisitions /\ requisitions[q].status # "none" /\ orders[o2].req = 0 /\ o # o2
  BY <1>1, OrderIn, SupplyIs
<1>4. old \in OrderRecs /\ old.status = "amended" /\ old.req = q /\ old.lines = orders[o].lines
  BY <1>3 DEF OrderRecs, OrderStatuses
<1> HIDE DEF old
<1>5. released \in OrderMaps /\ released[o] = old /\ \A v \in Orders \ {o} : released[v] = orders[v]
  BY <1>3, <1>4 DEF OrderMaps
<1> HIDE DEF q
<1>6. /\ x \in OrderRecs /\ x.status = "issued" /\ x.req = q /\ x = Recomputed(x)
      /\ \A s \in Slots : x.lines[s].qty = want[s] /\ LineOK("issued", x.lines[s])
  BY <1>2, <1>3, VersionIs
<1>7. \A s \in Slots : Counted(old, s) = 0
  BY <1>4 DEF Counted, LiveOrder
<1>8. \A p \in Requisitions, s \in Slots :
          /\ LiveAllocation(orders, p, s) \in Nat /\ LiveAllocation(released, p, s) \in Nat
          /\ LiveAllocation(released, p, s) + Part(orders[o], p, s) = LiveAllocation(orders, p, s)
          /\ Part(orders[o], p, s) \in Nat
  <2> SUFFICES ASSUME NEW p \in Requisitions, NEW s \in Slots
               PROVE  /\ LiveAllocation(orders, p, s) \in Nat /\ LiveAllocation(released, p, s) \in Nat
                      /\ LiveAllocation(released, p, s) + Part(orders[o], p, s) = LiveAllocation(orders, p, s)
                      /\ Part(orders[o], p, s) \in Nat
    OBVIOUS
  <2>1. /\ LiveAllocation(orders, p, s) \in Nat /\ LiveAllocation(released, p, s) \in Nat
        /\ LiveAllocation(released, p, s) + Part(orders[o], p, s) = LiveAllocation(orders, p, s) + Part(old, p, s)
    BY <1>3, <1>4, LiveChange
  <2>2. Part(old, p, s) = 0
    BY <1>7 DEF Part
  <2>3. Part(orders[o], p, s) \in Nat
    BY <1>3, PartIn
  <2> HIDE DEF released
  <2>4. LiveAllocation(released, p, s) + Part(orders[o], p, s) = LiveAllocation(orders, p, s) + 0
    BY <2>1, <2>2
  <2>q. QED
    BY <2>1, <2>3, <2>4
<1>9. released[o2].req \notin Requisitions
  BY <1>3, <1>5 DEF Requisitions
<1> HIDE DEF released
<1>10. \A p \in Requisitions, s \in Slots :
           LiveAllocation(orders', p, s) = LiveAllocation(released, p, s) + IF p = q THEN want[s] ELSE 0
  <2>1. \A p \in Requisitions, s \in Slots :
            LiveAllocation([released EXCEPT ![o2] = Version("issued", q, want)], p, s)
                = LiveAllocation(released, p, s) + IF p = q THEN want[s] ELSE 0
    BY <1>2, <1>3, <1>5, <1>9, VersionAdds
  <2>q. QED
    BY <1>1, <2>1
<1> HIDE DEF x
<1>11. /\ orders' \in OrderMaps /\ orders'[o] = old /\ orders'[o2] = x
       /\ \A v \in Orders \ {o, o2} : orders'[v] = orders[v]
  BY <1>1, <1>3, <1>5, <1>6 DEF OrderMaps
<1>12. touched \in SUBSET Slots /\ \A s \in Slots : s \notin touched => want[s] = 0 /\ Part(orders[o], q, s) = 0
  <2>1. \A s \in Slots : s \notin touched => want[s] = 0 /\ orders[o].lines[s].qty = 0
    <3>1. \A s \in Slots : orders[o].lines[s].qty \in Nat
      BY <1>3, LineIn
    <3>q. QED
      BY <1>2, <1>6, <1>11, <3>1 DEF Named
  <2>2. \A s \in Slots : orders[o].lines[s].qty = 0 => Counted(orders[o], s) = 0
    BY <1>1 DEF Counted, LiveOrder
  <2>q. QED
    BY <2>1, <2>2 DEF Part, Named
<1> HIDE DEF touched
<1>13. \A p \in Requisitions, s \in Slots :
           p # q \/ s \notin touched => LiveAllocation(orders', p, s) = LiveAllocation(orders, p, s)
  <2> SUFFICES ASSUME NEW p \in Requisitions, NEW s \in Slots, p # q \/ s \notin touched
               PROVE  LiveAllocation(orders', p, s) = LiveAllocation(orders, p, s)
    OBVIOUS
  <2>1. (IF p = q THEN want[s] ELSE 0) = 0
    BY <1>12
  <2>2. Part(orders[o], p, s) = 0
    <3>1. CASE p = q
      BY <1>12, <3>1
    <3>2. CASE p # q
      BY <3>2 DEF Part, q
    <3>q. QED
      BY <3>1, <3>2
  <2>3. /\ LiveAllocation(orders', p, s) = LiveAllocation(released, p, s) + 0
        /\ LiveAllocation(released, p, s) + 0 = LiveAllocation(orders, p, s)
    BY <1>8, <1>10, <2>1, <2>2
  <2>q. QED
    BY <2>3
<1>14. \A s \in Slots : LiveAllocation(orders', q, s) <= requisitions[q].lines[s].qty
  <2> SUFFICES ASSUME NEW s \in Slots PROVE LiveAllocation(orders', q, s) <= requisitions[q].lines[s].qty
    OBVIOUS
  <2>1. LiveAllocation(orders', q, s) = LiveAllocation(released, q, s) + want[s]
    BY <1>3, <1>10
  <2>2. CASE want[s] > 0
    BY <1>1, <2>1, <2>2 DEF Fits
  <2>3. CASE ~(want[s] > 0)
    <3>1. want[s] = 0
      BY <1>2, <2>3
    <3>2. /\ LiveAllocation(orders, q, s) \in Nat /\ LiveAllocation(released, q, s) \in Nat
          /\ LiveAllocation(released, q, s) + Part(orders[o], q, s) = LiveAllocation(orders, q, s)
          /\ Part(orders[o], q, s) \in Nat
      BY <1>3, <1>8
    <3>3. LiveAllocation(orders, q, s) <= requisitions[q].lines[s].qty
      BY <1>3, SupplyIs
    <3>4. requisitions[q].lines[s].qty \in Nat
      <4>1. requisitions[q] \in ReqRecs
        BY <1>3
      <4>2. requisitions[q].lines[s].qty \in Quantities
        BY <4>1 DEF ReqRecs, Lines
      <4>q. QED
        BY <4>2, SupplyBounds DEF Quantities
    <3>5. LiveAllocation(orders', q, s) = LiveAllocation(released, q, s)
      BY <2>1, <3>1, <3>2
    <3>q. QED
      BY <3>2, <3>3, <3>4, <3>5
  <2>q. QED
    BY <2>2, <2>3
<1>15. /\ requisitions' \in [Requisitions -> ReqRecs] /\ requisitions'[q].status # "none"
       /\ \A p \in Requisitions : /\ requisitions'[p].lines = Refreshed(orders', q, touched)[p].lines
                                  /\ requisitions[p].status # "none" => requisitions'[p].status # "none"
  <2>1. /\ Refreshed(orders', q, touched) \in [Requisitions -> ReqRecs]
        /\ \A p \in Requisitions \ {q} : Refreshed(orders', q, touched)[p] = requisitions[p]
        /\ Refreshed(orders', q, touched)[q].status = requisitions[q].status
    BY <1>3, <1>11, <1>12, Refreshes
  <2>q. QED
    BY <1>1, <1>3, <2>1
<1>16. OrderOK(o)'
  <2>1. old = Recomputed(old)
    BY <1>4 DEF Recomputed
  <2>2. \A s \in Slots : LineOK(old.status, old.lines[s])
    <3>1. \A s \in Slots : LineOK(orders[o].status, orders[o].lines[s]) /\ orders[o].lines[s].promise \notin Standing
      BY <1>1, SupplyIs DEF NoStandingPromise
    <3>q. QED
      BY <1>4, <3>1 DEF LineOK
  <2>q. QED
    BY <1>3, <1>4, <1>11, <1>15, <2>1, <2>2 DEF OrderOK
<1>17. OrderOK(o2)'
  BY <1>3, <1>6, <1>11, <1>15 DEF OrderOK
<1>18. \A v \in Orders : orders'[v] = orders[v] \/ (OrderOK(v)' /\ OrderKept(v))
  <2>1. OrderKept(o)
    BY <1>4, <1>11 DEF OrderKept, q
  <2>2. OrderKept(o2)
    BY <1>1 DEF OrderKept
  <2>q. QED
    BY <1>11, <1>16, <1>17, <2>1, <2>2
<1>q. QED
  BY <1>1, <1>3, <1>11, <1>12, <1>13, <1>14, <1>15, <1>18, OrdersStep

LEMMA InitSupplies == Init => SupplyInv
<1> SUFFICES ASSUME Init PROVE SupplyInv
  OBVIOUS
<1> USE DEF Init, SupplyInit
<1>1. AnyOf(Activities) \in Activities /\ AnyOf(Fingerprints) \in Fingerprints /\ 0 \in Quantities
  BY SupplyBounds DEF AnyOf, Quantities
<1>2. NoLine \in Lines /\ NoLine.qty = 0
  BY <1>1 DEF NoLine, Lines
<1>3. /\ NoOrder \in OrderRecs /\ NoOrder.status = "none" /\ NoOrder.req = 0
      /\ \A s \in Slots : NoOrder.lines[s].committed = 0 /\ NoOrder.lines[s].promise = "none"
  BY <1>1 DEF NoOrder, OrderRecs, OrderLines, OrderStatuses
<1>4. orders \in OrderMaps /\ \A o \in Orders : orders[o] = NoOrder
  BY <1>3 DEF OrderMaps
<1>5. requisitions \in [Requisitions -> ReqRecs]
  BY <1>2 DEF ReqRecs
<1>6. \A q \in Requisitions, s \in Slots : requisitions[q].lines[s].qty = 0
  BY <1>2
<1>7. demand \in [Requirements -> Demands]
  BY InitHeld DEF HeldInv, ShapeOK
<1>8. SupplyTypeOK
  BY <1>4, <1>5, <1>7 DEF SupplyTypeOK, OrderMaps, OrderRecs, ReqRecs
<1>9. \A q \in Requisitions, s \in Slots : LiveAllocation(orders, q, s) = 0
  <2>1. 0 \notin Requisitions
    BY DEF Requisitions
  <2>2. \A q \in Requisitions, o \in Orders : orders[o].req # q
    BY <1>3, <1>4, <2>1
  <2>q. QED
    BY <1>4, <2>2, NoneLive
<1>10. \A o \in Orders : OrderOK(o)
  <2>1. NoOrder = Recomputed(NoOrder)
    BY <1>3 DEF Recomputed
  <2>2. \A s \in Slots : LineOK(NoOrder.status, NoOrder.lines[s])
    BY <1>3 DEF LineOK, Standing
  <2> HIDE DEF Init
  <2>q. QED
    BY <1>3, <1>4, <2>1, <2>2 DEF OrderOK
<1>11. \A q \in Requisitions, s \in Slots : Live(q, s) /\ Flagged(q, s)
  BY <1>6, <1>9 DEF Live, Flagged, Kept, Named
<1>q. QED
  BY <1>8, <1>10, <1>11 DEF SupplyInv

LEMMA SameSupply ==
    ASSUME SupplyInv, UNCHANGED <<requisitions, orders>>, demand' \in [Requirements -> Demands]
    PROVE  SupplyInv' /\ PromisesKept
<1>1. SupplyTypeOK'
  BY DEF SupplyInv, SupplyTypeOK
<1>2. \A o \in Orders : OrderOK(o)'
  BY DEF SupplyInv, OrderOK
<1>3. \A q \in Requisitions, s \in Slots : Live(q, s)' /\ Flagged(q, s)'
  BY DEF SupplyInv, Live, Flagged, Kept, Named
<1>4. PromisesKept
  BY DEF PromisesKept, OrderKept, RequisitionKept
<1>q. QED
  BY <1>1, <1>2, <1>3, <1>4 DEF SupplyInv

LEMMA StepSupplies ==
    ASSUME HeldInv, SupplyInv, [Next]_vars
    PROVE  SupplyInv' /\ PromisesKept
<1>0. demand' \in [Requirements -> Demands]
  BY StepHeld DEF HeldInv, ShapeOK
<1>1. CASE DemandNext
  <2>1. UNCHANGED <<requisitions, orders>>
    BY <1>1 DEF DemandNext, CreateRequirement, Revise, CancelRequirement
  <2>q. QED
    BY <1>0, <2>1, SameSupply
<1>2. CASE SupplyNext /\ UNCHANGED capacityVars
  <2>1. ASSUME NEW q \in Requisitions, NEW want \in Wants, CreateRequisition(q, want)
        PROVE  SupplyInv' /\ PromisesKept
    BY <2>1, CreateRequisitionBuys
  <2>2. ASSUME NEW q \in Requisitions, Submit(q) \/ Answer(q, "approved") \/ Answer(q, "rejected")
        PROVE  SupplyInv' /\ PromisesKept
    BY <2>2, StatusBuys
  <2>3. ASSUME NEW q \in Requisitions, NEW s \in Slots, CancelLine(q, s)
        PROVE  SupplyInv' /\ PromisesKept
    BY <2>3, CancelLineBuys
  <2>4. ASSUME NEW q \in Requisitions, CloseRequisition(q)
        PROVE  SupplyInv' /\ PromisesKept
    BY <2>4, CloseRequisitionBuys
  <2>5. ASSUME NEW o \in Orders, NEW q \in Requisitions, NEW want \in Wants, CreateOrder(o, q, want)
        PROVE  SupplyInv' /\ PromisesKept
    BY <2>5, CreateOrderBuys
  <2>6. ASSUME NEW o \in Orders, IssueOrder(o)
        PROVE  SupplyInv' /\ PromisesKept
    BY <2>6, IssueBuys
  <2>7. ASSUME NEW o \in Orders, CancelOrder(o) \/ CloseShort(o)
        PROVE  SupplyInv' /\ PromisesKept
    BY <2>7, CloseBuys
  <2>8. ASSUME NEW o \in Orders, NEW o2 \in Orders, NEW want \in Wants, Amend(o, o2, want)
        PROVE  SupplyInv' /\ PromisesKept
    BY <2>8, AmendBuys
  <2>9. ASSUME NEW o \in Orders, NEW s \in Slots, CommitCapacity(o, s) \/ ReviseCapacity(o, s) \/ DefaultCapacity(o, s)
        PROVE  SupplyInv' /\ PromisesKept
    BY <2>9, CommitBuys, ReviseBuys, DefaultBuys
  <2>q. QED
    BY <1>2, <2>1, <2>2, <2>3, <2>4, <2>5, <2>6, <2>7, <2>8, <2>9 DEF SupplyNext
<1>3. CASE CapacityNext
  <2>1. UNCHANGED supplyVars
    BY <1>3 DEF CapacityNext, Allocate, ApproveSubstitution, RevokeSubstitution, Release, RecordWork,
                RecordAttendance, RevokeAttendance, RevokeWorker
  <2>q. QED
    BY <1>0, <2>1, SameSupply DEF supplyVars
<1>4. CASE UNCHANGED vars
  BY <1>0, <1>4, SameSupply DEF vars, supplyVars
<1>q. QED
  BY <1>1, <1>2, <1>3, <1>4 DEF Next

LEMMA SupplyIsInvariant == Spec => []SupplyInv
<1>1. HeldInv /\ SupplyInv /\ [Next]_vars => SupplyInv'
  BY StepSupplies
<1>q. QED
  BY <1>1, InitSupplies, HeldIsInvariant, PTL DEF Spec

\* A standing promise counts in full, so the promises on a line are part of
\* what counts against it.
LEMMA PromisesCounted == SupplyInv => CommittedWithinLine
<1> SUFFICES ASSUME SupplyInv, NEW q \in Requisitions, NEW s \in Slots
             PROVE  SumFunction([o \in {v \in Orders : orders[v].req = q /\ orders[v].lines[s].promise \in Standing} |->
                                    orders[o].lines[s].qty]) <= requisitions[q].lines[s].qty
  BY DEF CommittedWithinLine
<1> DEFINE S == {v \in Orders : orders[v].req = q /\ orders[v].lines[s].promise \in Standing}
           T == {v \in Orders : orders[v].req = q}
           f == [o \in S |-> orders[o].lines[s].qty]
           k == [o \in T |-> Counted(orders[o], s)]
<1>1. \A o \in Orders : /\ orders[o] \in OrderRecs /\ orders[o].lines[s].qty \in Nat
                        /\ Counted(orders[o], s) \in Nat /\ LineOK(orders[o].status, orders[o].lines[s])
  BY SupplyIs, LineIn, PartIn
<1>2. f \in [S -> Nat] /\ k \in [T -> Nat]
  BY <1>1
<1>3. IsFiniteSet(S) /\ IsFiniteSet(T) /\ S \subseteq T
  <2>1. S \subseteq Orders /\ T \subseteq Orders /\ S \subseteq T
    OBVIOUS
  <2> HIDE DEF S, T
  <2>q. QED
    BY <2>1, FiniteBooks, FS_Subset
<1>4. \A o \in S : f[o] <= k[o]
  <2> SUFFICES ASSUME NEW o \in S PROVE orders[o].lines[s].qty <= Counted(orders[o], s)
    OBVIOUS
  <2>1. /\ orders[o].lines[s].committed = orders[o].lines[s].qty /\ orders[o].lines[s].qty \in Nat
        /\ orders[o].status \in LiveOrder \cup {"closed_short"}
    BY <1>1 DEF LineOK, Contracted, LiveOrder
  <2>2. orders[o].lines[s].promise # "defaulted"
    BY DEF Standing
  <2>3. Counted(orders[o], s) = orders[o].lines[s].qty
    BY <2>1, <2>2 DEF Counted
  <2>q. QED
    BY <2>1, <2>3
<1>5. SumFunction(k) <= requisitions[q].lines[s].qty
  <2>1. LiveAllocation(orders, q, s) = SumFunction(k)
    BY DEF LiveAllocation
  <2> HIDE DEF k
  <2>q. QED
    BY <2>1, SupplyIs
<1>6. SumFunction(f) <= SumFunction(k) /\ SumFunction(f) \in Nat /\ SumFunction(k) \in Nat
  <2> HIDE DEF f, k, S, T
  <2>q. QED
    BY <1>2, <1>3, <1>4, SumGrows, SumInNat
<1>7. requisitions[q].lines[s].qty \in Nat
  <2>1. requisitions[q] \in ReqRecs
    BY SupplyIs
  <2>2. requisitions[q].lines[s].qty \in Quantities
    BY <2>1 DEF ReqRecs, Lines
  <2>q. QED
    BY <2>2, SupplyBounds DEF Quantities
<1>8. SumFunction(f) <= requisitions[q].lines[s].qty
  <2> HIDE DEF f, k
  <2>q. QED
    BY <1>5, <1>6, <1>7
<1>q. QED
  BY <1>8

------------------------------------------------------------------------------
(* The shift.  A record of work adds its minutes to the sum it measured; no *)
(* other command moves the minutes of a day.                                *)
OnDay(w, d) == {j \in DOMAIN held[w] : held[w][j].date = d}
MinutesOf(w, d) == [i \in OnDay(w, d) |-> held[w][i].worked]

LEMMA DayIs ==
    ASSUME ShapeOK, NEW w \in Workers, NEW d
    PROVE  /\ IsFiniteSet(OnDay(w, d)) /\ MinutesOf(w, d) \in [OnDay(w, d) -> Nat]
           /\ MinutesOn(w, d) = SumFunction(MinutesOf(w, d)) /\ MinutesOn(w, d) \in Nat
<1>1. OnDay(w, d) \subseteq 1 .. Len(held[w]) /\ Len(held[w]) \in Nat
  BY DEF ShapeOK, OnDay
<1>2. IsFiniteSet(OnDay(w, d))
  <2>1. IsFiniteSet(1 .. Len(held[w]))
    BY <1>1, FS_Interval
  <2>q. QED
    BY <1>1, <2>1, FS_Subset
<1>3. MinutesOf(w, d) \in [OnDay(w, d) -> Nat]
  BY RowIn DEF MinutesOf, OnDay
<1>4. MinutesOn(w, d) = SumFunction(MinutesOf(w, d))
  BY DEF MinutesOn, MinutesOf, OnDay
<1>q. QED
  BY <1>2, <1>3, <1>4, SumInNat

LEMMA DayIsThen ==
    ASSUME ShapeOK', NEW w \in Workers, NEW d
    PROVE  /\ IsFiniteSet(OnDay(w, d)') /\ MinutesOf(w, d)' \in [OnDay(w, d)' -> Nat]
           /\ MinutesOn(w, d)' = SumFunction(MinutesOf(w, d)') /\ MinutesOn(w, d)' \in Nat
<1>0. held'[w] \in Seq(Rows)
  BY DEF ShapeOK
<1>1. OnDay(w, d)' \subseteq 1 .. Len(held'[w]) /\ Len(held'[w]) \in Nat
  BY <1>0 DEF OnDay
<1>2. IsFiniteSet(OnDay(w, d)')
  <2>1. IsFiniteSet(1 .. Len(held'[w]))
    BY <1>1, FS_Interval
  <2>q. QED
    BY <1>1, <2>1, FS_Subset
<1>3. MinutesOf(w, d)' \in [OnDay(w, d)' -> Nat]
  <2>1. \A i \in DOMAIN held'[w] : held'[w][i] \in Rows
    BY <1>0
  <2>2. \A i \in DOMAIN held'[w] : held'[w][i].worked \in Nat
    BY <2>1 DEF Rows
  <2>q. QED
    BY <2>2 DEF MinutesOf, OnDay
<1>4. MinutesOn(w, d)' = SumFunction(MinutesOf(w, d)')
  BY DEF MinutesOn, MinutesOf, OnDay
<1>q. QED
  BY <1>2, <1>3, <1>4, SumInNat

\* One row of the day changes its minutes at most, or is new with none.
LEMMA MinutesChange ==
    ASSUME ShapeOK, ShapeOK', NEW w \in Workers, NEW i,
           \A j \in DOMAIN held[w] \ {i} : /\ j \in DOMAIN held'[w] /\ held'[w][j].date = held[w][j].date
                                           /\ held'[w][j].worked = held[w][j].worked,
           \A j \in DOMAIN held'[w] \ {i} : j \in DOMAIN held[w]
    PROVE  \A d : MinutesOn(w, d)' + At(MinutesOf(w, d), OnDay(w, d), i)
                      = MinutesOn(w, d) + At(MinutesOf(w, d)', OnDay(w, d)', i)
<1> SUFFICES ASSUME NEW d
             PROVE  MinutesOn(w, d)' + At(MinutesOf(w, d), OnDay(w, d), i)
                        = MinutesOn(w, d) + At(MinutesOf(w, d)', OnDay(w, d)', i)
  OBVIOUS
<1>1. OnDay(w, d) \ {i} = OnDay(w, d)' \ {i}
  BY DEF OnDay
<1>2. \A j \in OnDay(w, d) \ {i} : MinutesOf(w, d)[j] = MinutesOf(w, d)'[j]
  BY <1>1 DEF MinutesOf, OnDay
<1>3. /\ IsFiniteSet(OnDay(w, d)) /\ MinutesOf(w, d) \in [OnDay(w, d) -> Nat]
      /\ MinutesOn(w, d) = SumFunction(MinutesOf(w, d))
  BY DayIs
<1>4. /\ IsFiniteSet(OnDay(w, d)') /\ MinutesOf(w, d)' \in [OnDay(w, d)' -> Nat]
      /\ MinutesOn(w, d)' = SumFunction(MinutesOf(w, d)')
  BY DayIsThen
<1> DEFINE S == OnDay(w, d)
           T == OnDay(w, d)'
           f == MinutesOf(w, d)
           k == MinutesOf(w, d)'
<1>5. /\ IsFiniteSet(S) /\ IsFiniteSet(T) /\ f \in [S -> Nat] /\ k \in [T -> Nat] /\ S \ {i} = T \ {i}
      /\ \A y \in S \ {i} : f[y] = k[y]
  BY <1>1, <1>2, <1>3, <1>4
<1>6. SumFunction(k) + At(f, S, i) = SumFunction(f) + At(k, T, i)
  <2> HIDE DEF S, T, f, k
  <2>q. QED
    BY <1>5, OneChanges
<1>q. QED
  BY <1>3, <1>4, <1>6

LEMMA SameMinutes ==
    ASSUME ShapeOK, ShapeOK', NEW w \in Workers, DOMAIN held'[w] = DOMAIN held[w],
           \A j \in DOMAIN held[w] : /\ held'[w][j].date = held[w][j].date
                                     /\ held'[w][j].worked = held[w][j].worked
    PROVE  \A d : MinutesOn(w, d)' = MinutesOn(w, d)
<1> SUFFICES ASSUME NEW d PROVE MinutesOn(w, d)' = MinutesOn(w, d)
  OBVIOUS
<1>1. OnDay(w, d)' = OnDay(w, d)
  BY DEF OnDay
<1>2. MinutesOf(w, d)' = MinutesOf(w, d)
  BY <1>1 DEF MinutesOf, OnDay
<1>q. QED
  BY <1>2, DayIs, DayIsThen

LEMMA AllocateWorksNot ==
    ASSUME ShapeOK, ShapeOK', NEW crew \in SUBSET Workers, NEW r \in Requirements, NEW d \in Dates,
           NEW draw \in Draws, Allocate(crew, r, d, draw), NEW w \in Workers
    PROVE  \A e : MinutesOn(w, e)' = MinutesOn(w, e)
<1>0. held[w] \in Seq(Rows) /\ \A j \in DOMAIN held[w] : held[w][j].worked \in Nat
  BY RowIn DEF ShapeOK
<1>1. CASE w \notin crew
  <2>1. held'[w] = held[w]
    BY <1>1 DEF Allocate
  <2>q. QED
    BY <2>1, SameMinutes
<1>2. CASE w \in crew
  <2> DEFINE i == Len(held[w]) + 1
  <2>1. PICK row : held'[w] = Append(held[w], row) /\ row.worked = 0
    <3> DEFINE new == [status |-> "active", req |-> r, act |-> demand[r].act, fp |-> demand[r].fp,
                       date |-> d, draw |-> draw, worked |-> 0]
    <3>1. held'[w] = Append(held[w], new)
      BY <1>2 DEF Allocate
    <3>2. new.worked = 0
      OBVIOUS
    <3> HIDE DEF new
    <3>q. QED
      BY <3>1, <3>2
  <2>2. /\ DOMAIN held[w] = 1 .. Len(held[w]) /\ Len(held[w]) \in Nat
        /\ DOMAIN held'[w] = 1 .. Len(held[w]) + 1 /\ held'[w][i] = row
        /\ \A j \in DOMAIN held[w] : held'[w][j] = held[w][j]
    BY <1>0, <2>1
  <2>3. /\ \A j \in DOMAIN held[w] \ {i} : /\ j \in DOMAIN held'[w] /\ held'[w][j].date = held[w][j].date
                                           /\ held'[w][j].worked = held[w][j].worked
        /\ \A j \in DOMAIN held'[w] \ {i} : j \in DOMAIN held[w]
    BY <2>2
  <2> SUFFICES ASSUME NEW e PROVE MinutesOn(w, e)' = MinutesOn(w, e)
    OBVIOUS
  <2>4. At(MinutesOf(w, e), OnDay(w, e), i) = 0 /\ At(MinutesOf(w, e)', OnDay(w, e)', i) = 0
    <3>1. i \notin OnDay(w, e)
      BY <2>2 DEF OnDay
    <3>2. i \in OnDay(w, e)' => MinutesOf(w, e)'[i] = 0
      BY <2>1, <2>2 DEF MinutesOf
    <3>q. QED
      BY <3>1, <3>2 DEF At
  <2> HIDE DEF i
  <2>5. MinutesOn(w, e)' + At(MinutesOf(w, e), OnDay(w, e), i)
            = MinutesOn(w, e) + At(MinutesOf(w, e)', OnDay(w, e)', i)
    BY <2>3, MinutesChange
  <2>6. MinutesOn(w, e)' + 0 = MinutesOn(w, e) + 0
    BY <2>4, <2>5
  <2>7. MinutesOn(w, e)' \in Nat /\ MinutesOn(w, e) \in Nat
    BY DayIs, DayIsThen
  <2>q. QED
    BY <2>6, <2>7
<1>q. QED
  BY <1>1, <1>2

LEMMA RowWorks ==
    ASSUME ShapeOK, ShapeOK', WorkWithinShift, NEW w \in Workers, NEW i \in Active(w),
           Release(w, i) \/ \E m \in Portions : RecordWork(w, i, m)
    PROVE  WorkWithinShift'
<1> SUFFICES ASSUME NEW x \in Workers, NEW d \in Dates PROVE MinutesOn(x, d)' <= ShiftMinutes
  BY DEF WorkWithinShift
<1>0. MinutesOn(x, d) <= ShiftMinutes /\ MinutesOn(x, d) \in Nat /\ MinutesOn(x, d)' \in Nat
  BY DayIs, DayIsThen DEF WorkWithinShift
<1>1. CASE Release(w, i)
  <2>1. PICK row \in Rows : RowMoved(w, i, row) /\ row.worked = held[w][i].worked
    BY <1>1, ReleaseMoves
  <2>2. /\ DOMAIN held'[x] = DOMAIN held[x]
        /\ \A j \in DOMAIN held[x] : held'[x][j] = IF x = w /\ j = i THEN row ELSE held[x][j]
    BY <2>1, RowPlaced
  <2>3. row.date = held[w][i].date
    BY <2>1 DEF RowMoved, Alike
  <2>4. \A j \in DOMAIN held[x] : held'[x][j].date = held[x][j].date /\ held'[x][j].worked = held[x][j].worked
    BY <2>1, <2>2, <2>3
  <2>q. QED
    BY <1>0, <2>2, <2>4, SameMinutes
<1>2. ASSUME NEW m \in Portions, RecordWork(w, i, m)
      PROVE  MinutesOn(x, d)' <= ShiftMinutes
  <2>1. PICK row \in Rows : RowMoved(w, i, row) /\ row.worked = held[w][i].worked + m
    BY <1>2, RecordMoves
  <2>2. /\ DOMAIN held'[x] = DOMAIN held[x]
        /\ \A j \in DOMAIN held[x] : held'[x][j] = IF x = w /\ j = i THEN row ELSE held[x][j]
    BY <2>1, RowPlaced
  <2>3. row.date = held[w][i].date
    BY <2>1 DEF RowMoved, Alike
  <2>4. CASE x # w
    <3>1. \A j \in DOMAIN held[x] : held'[x][j].date = held[x][j].date /\ held'[x][j].worked = held[x][j].worked
      BY <2>2, <2>4
    <3>q. QED
      BY <1>0, <2>2, <3>1, SameMinutes
  <2>5. CASE x = w
    <3>1. MinutesOn(w, d)' + At(MinutesOf(w, d), OnDay(w, d), i)
              = MinutesOn(w, d) + At(MinutesOf(w, d)', OnDay(w, d)', i)
      <4>1. /\ \A j \in DOMAIN held[w] \ {i} : /\ j \in DOMAIN held'[w] /\ held'[w][j].date = held[w][j].date
                                               /\ held'[w][j].worked = held[w][j].worked
            /\ \A j \in DOMAIN held'[w] \ {i} : j \in DOMAIN held[w]
        BY <2>2, <2>5
      <4>q. QED
        BY <4>1, MinutesChange
    <3>2. i \in DOMAIN held[w] /\ held'[w][i] = row
      BY <2>2, <2>5 DEF Active
    <3>3. CASE held[w][i].date = d
      <4>1. i \in OnDay(w, d) /\ i \in OnDay(w, d)'
        BY <2>2, <2>3, <2>5, <3>2, <3>3 DEF OnDay
      <4>2. At(MinutesOf(w, d), OnDay(w, d), i) = held[w][i].worked
            /\ At(MinutesOf(w, d)', OnDay(w, d)', i) = held[w][i].worked + m
        BY <2>1, <3>2, <4>1 DEF At, MinutesOf
      <4>3. held[w][i].worked \in Nat /\ m \in Nat
        BY RowIn, CapacityBounds DEF Active
      <4>4. MinutesOn(w, d)' = MinutesOn(w, d) + m
        <5>1. MinutesOn(w, d)' + held[w][i].worked = MinutesOn(w, d) + (held[w][i].worked + m)
          BY <3>1, <4>2
        <5>q. QED
          BY <1>0, <2>5, <4>3, <5>1
      <4>5. MinutesOn(w, d) + m <= ShiftMinutes
        BY <1>2, <3>3 DEF RecordWork
      <4>q. QED
        BY <2>5, <4>4, <4>5
    <3>4. CASE held[w][i].date # d
      <4>1. i \notin OnDay(w, d) /\ i \notin OnDay(w, d)'
        BY <2>3, <3>2, <3>4 DEF OnDay
      <4>2. MinutesOn(w, d)' + 0 = MinutesOn(w, d) + 0
        BY <3>1, <4>1 DEF At
      <4>q. QED
        BY <1>0, <2>5, <4>2
    <3>q. QED
      BY <3>3, <3>4
  <2>q. QED
    BY <2>4, <2>5
<1>q. QED
  BY <1>1, <1>2

LEMMA StepWorks == HeldInv /\ WorkWithinShift /\ [Next]_vars => WorkWithinShift'
<1> SUFFICES ASSUME HeldInv, WorkWithinShift, [Next]_vars PROVE WorkWithinShift'
  OBVIOUS
<1>0. ShapeOK /\ ShapeOK'
  BY StepHeld DEF HeldInv
<1>s. ASSUME UNCHANGED held PROVE WorkWithinShift'
  BY <1>s DEF WorkWithinShift, MinutesOn
<1>1. CASE DemandNext
  <2>1. UNCHANGED held
    BY <1>1 DEF DemandNext, CreateRequirement, Revise, CancelRequirement, capacityVars
  <2>q. QED
    BY <2>1, <1>s
<1>2. CASE SupplyNext /\ UNCHANGED capacityVars
  BY <1>2, <1>s DEF capacityVars
<1>3. CASE CapacityNext
  <2>1. ASSUME NEW r \in Requirements, NEW crew \in SUBSET Workers \ {{}}, NEW d \in Dates, NEW draw \in Draws,
               Allocate(crew, r, d, draw)
        PROVE  WorkWithinShift'
    BY <1>0, <2>1, AllocateWorksNot DEF WorkWithinShift
  <2>2. ASSUME NEW r \in Requirements, NEW fp \in Fingerprints, ApproveSubstitution(r, fp)
        PROVE  WorkWithinShift'
    BY <2>2, <1>s DEF ApproveSubstitution
  <2>3. ASSUME NEW r \in Requirements, NEW from \in Fingerprints, NEW to \in Fingerprints,
               RevokeSubstitution(r, from, to)
        PROVE  WorkWithinShift'
    <3>1. \A w \in Workers :
              /\ DOMAIN held'[w] = DOMAIN held[w]
              /\ \A i \in DOMAIN held[w] : /\ held'[w][i].date = held[w][i].date
                                           /\ held'[w][i].worked = held[w][i].worked
      BY <1>0, <2>3, RevokeRows DEF Alike
    <3>2. \A w \in Workers : \A d : MinutesOn(w, d)' = MinutesOn(w, d)
      BY <1>0, <3>1, SameMinutes
    <3>q. QED
      BY <3>2 DEF WorkWithinShift
  <2>4. ASSUME NEW w \in Workers, NEW i \in Active(w), Release(w, i) \/ \E m \in Portions : RecordWork(w, i, m)
        PROVE  WorkWithinShift'
    BY <1>0, <2>4, RowWorks
  <2>5. ASSUME NEW w \in Workers,
               (\E d \in Dates : RecordAttendance(w, d) \/ RevokeAttendance(w, d)) \/ RevokeWorker(w)
        PROVE  WorkWithinShift'
    BY <2>5, <1>s DEF RecordAttendance, RevokeAttendance, RevokeWorker
  <2>q. QED
    BY <1>3, <2>1, <2>2, <2>3, <2>4, <2>5 DEF CapacityNext
<1>4. CASE UNCHANGED vars
  BY <1>4, <1>s DEF vars, capacityVars
<1>q. QED
  BY <1>1, <1>2, <1>3, <1>4 DEF Next

LEMMA InitWorks == Init => WorkWithinShift
<1> SUFFICES ASSUME Init, NEW w \in Workers, NEW d \in Dates PROVE MinutesOn(w, d) <= ShiftMinutes
  BY DEF WorkWithinShift
<1>1. OnDay(w, d) = {}
  BY DEF Init, OnDay
<1>2. DOMAIN MinutesOf(w, d) = {}
  BY <1>1 DEF MinutesOf
<1>3. MinutesOn(w, d) = 0
  <2>1. MinutesOn(w, d) = SumFunction(MinutesOf(w, d))
    BY DEF MinutesOn, MinutesOf, OnDay
  <2>q. QED
    BY <1>2, <2>1, SumNone
<1>q. QED
  BY <1>3, CapacityBounds

LEMMA WorkIsWithin == Spec => []WorkWithinShift
BY InitWorks, StepWorks, HeldIsInvariant, PTL DEF Spec

------------------------------------------------------------------------------
(* What is bought is sound.                                                 *)
PeopleOK == present \subseteq Workers \X Dates /\ subs \subseteq Requirements \X Fingerprints \X Fingerprints
            /\ gone \subseteq Workers

LEMMA PeopleStay == HeldInv /\ PeopleOK /\ [Next]_vars => PeopleOK'
<1> SUFFICES ASSUME HeldInv, PeopleOK, [Next]_vars PROVE PeopleOK'
  OBVIOUS
<1>1. CASE DemandNext
  BY <1>1 DEF DemandNext, CreateRequirement, Revise, CancelRequirement, capacityVars, PeopleOK
<1>2. CASE SupplyNext /\ UNCHANGED capacityVars
  BY <1>2 DEF capacityVars, PeopleOK
<1>3. CASE CapacityNext
  <2>1. ASSUME NEW r \in Requirements, NEW crew \in SUBSET Workers \ {{}}, NEW d \in Dates, NEW draw \in Draws,
               Allocate(crew, r, d, draw)
        PROVE  PeopleOK'
    BY <2>1 DEF Allocate, PeopleOK
  <2>2. ASSUME NEW r \in Requirements, NEW fp \in Fingerprints, ApproveSubstitution(r, fp)
        PROVE  PeopleOK'
    <3>1. demand[r] \in Demands
      BY DEF HeldInv, ShapeOK
    <3>2. demand[r].fp \in Fingerprints
      BY <3>1 DEF Demands
    <3>q. QED
      BY <2>2, <3>2 DEF ApproveSubstitution, PeopleOK
  <2>3. ASSUME NEW r \in Requirements, NEW from \in Fingerprints, NEW to \in Fingerprints,
               RevokeSubstitution(r, from, to)
        PROVE  PeopleOK'
    BY <2>3 DEF RevokeSubstitution, PeopleOK
  <2>4. ASSUME NEW w \in Workers, NEW i \in Active(w), Release(w, i) \/ \E m \in Portions : RecordWork(w, i, m)
        PROVE  PeopleOK'
    BY <2>4 DEF Release, RecordWork, PeopleOK
  <2>5. ASSUME NEW w \in Workers,
               (\E d \in Dates : RecordAttendance(w, d) \/ RevokeAttendance(w, d)) \/ RevokeWorker(w)
        PROVE  PeopleOK'
    <3>1. ASSUME NEW d \in Dates, RecordAttendance(w, d) PROVE PeopleOK'
      BY <3>1 DEF RecordAttendance, PeopleOK
    <3>2. ASSUME NEW d \in Dates, RevokeAttendance(w, d) PROVE PeopleOK'
      BY <3>2 DEF RevokeAttendance, PeopleOK
    <3>3. CASE RevokeWorker(w)
      BY <3>3 DEF RevokeWorker, PeopleOK
    <3>q. QED
      BY <2>5, <3>1, <3>2, <3>3
  <2>q. QED
    BY <1>3, <2>1, <2>2, <2>3, <2>4, <2>5 DEF CapacityNext
<1>4. CASE UNCHANGED vars
  BY <1>4 DEF vars, capacityVars, PeopleOK
<1>q. QED
  BY <1>1, <1>2, <1>3, <1>4 DEF Next

\* No row alone is worked longer than the day it is part of.
LEMMA RowsWithin ==
    ASSUME HeldInv, WorkWithinShift, NEW w \in Workers, NEW i \in DOMAIN held[w]
    PROVE  held[w][i] \in Allocations
<1>0. ShapeOK /\ held[w][i] \in Rows
  BY RowIn DEF HeldInv
<1>1. PICK d \in Dates : d = held[w][i].date
  BY <1>0 DEF Rows
<1> DEFINE S == OnDay(w, d)
           f == MinutesOf(w, d)
           r == [j \in S \ {i} |-> f[j]]
<1>2. /\ IsFiniteSet(S) /\ f \in [S -> Nat] /\ SumFunction(f) <= ShiftMinutes /\ SumFunction(f) \in Nat
      /\ i \in S /\ f[i] = held[w][i].worked
  <2>1. IsFiniteSet(OnDay(w, d)) /\ MinutesOf(w, d) \in [OnDay(w, d) -> Nat]
        /\ MinutesOn(w, d) = SumFunction(MinutesOf(w, d)) /\ MinutesOn(w, d) \in Nat
    BY <1>0, DayIs
  <2>2. i \in OnDay(w, d)
    BY <1>1 DEF OnDay
  <2>3. MinutesOn(w, d) <= ShiftMinutes
    BY DEF WorkWithinShift
  <2>q. QED
    BY <2>1, <2>2, <2>3 DEF MinutesOf
<1>3. r \in [S \ {i} -> Nat] /\ (\A y \in S \ {i} : r[y] = f[y]) /\ IsFiniteSet(S \ {i})
  <2> HIDE DEF S, f
  <2>q. QED
    BY <1>2, FS_Subset
<1> HIDE DEF S, f, r
<1>4. SumFunction(f) = f[i] + SumFunction(r) /\ SumFunction(r) \in Nat
  <2>1. SumFunction(r) \in Nat
    BY <1>3, SumInNat
  <2>2. SumFunction(f) = f[i] + SumFunction(r)
    <3>1. f \in [S -> Int] /\ r \in [S \ {i} -> Int]
      BY <1>2, <1>3
    <3> QED BY <1>2, <1>3, <3>1, SumSplit, SMTT(20)
  <2>q. QED
    BY <2>1, <2>2
<1>5. held[w][i].worked \in Nat /\ held[w][i].worked <= ShiftMinutes
  <2>1. f[i] \in Nat
    BY <1>2
  <2>q. QED
    BY <1>2, <1>4, <2>1, CapacityBounds
<1>6. held[w][i].worked \in 0 .. ShiftMinutes
  BY <1>5, CapacityBounds
<1>q. QED
  BY <1>0, <1>6 DEF Rows, Allocations

LEMMA TypesHold == HeldInv /\ SupplyInv /\ WorkWithinShift /\ PeopleOK => TypeOK
<1> SUFFICES ASSUME HeldInv, SupplyInv, WorkWithinShift, PeopleOK PROVE TypeOK
  OBVIOUS
<1>1. \A w \in Workers : held[w] \in Seq(Allocations)
  <2> SUFFICES ASSUME NEW w \in Workers PROVE held[w] \in Seq(Allocations)
    OBVIOUS
  <2>1. held[w] \in Seq(Rows)
    BY DEF HeldInv, ShapeOK
  <2>2. \A i \in 1 .. Len(held[w]) : held[w][i] \in Allocations
    BY <2>1, RowsWithin
  <2>q. QED
    BY <2>1, <2>2
<1>2. held \in [Workers -> Seq(Allocations)]
  BY <1>1 DEF HeldInv, ShapeOK
<1>q. QED
  BY <1>2 DEF TypeOK, SupplyInv, PeopleOK

LEMMA ColumnsHold == SupplyInv => ColumnsAreDerived
<1> SUFFICES ASSUME SupplyInv PROVE ColumnsAreDerived
  OBVIOUS
<1>1. \A q \in Requisitions : \A s \in Kept(q) :
          (requisitions[q].lines[s].status = "ordered") <=> Covered(orders, q, s)
  BY SupplyIs DEF Kept, Named
<1>q. QED
  BY <1>1, SupplyIs DEF ColumnsAreDerived

\* Vendors stand committed within what each requisition line asks for, and
\* every stored flag and status is the derived one, however orders are amended,
\* closed short, committed, defaulted and ordered again.
THEOREM PromisesAreCovered == Spec => []BoughtSoundly
<1>1. Init => PeopleOK
  BY DEF Init, PeopleOK
<1>2. Spec => []PeopleOK
  BY <1>1, PeopleStay, HeldIsInvariant, PTL DEF Spec
<1>3. HeldInv /\ SupplyInv /\ WorkWithinShift /\ PeopleOK => BoughtSoundly
  BY TypesHold, ColumnsHold, PromisesCounted DEF BoughtSoundly
<1>q. QED
  BY <1>2, <1>3, HeldIsInvariant, SupplyIsInvariant, WorkIsWithin, PTL

------------------------------------------------------------------------------
(* Draws on a promise.                                                      *)
DrawnOK(o, s) ==
    /\ Cardinality(Drawn(<<o, s>>)) <= orders[o].lines[s].qty
    /\ \A x \in Drawn(<<o, s>>) : /\ orders[o].status # "none" /\ held[x[1]][x[2]].date = s[2]
                                  /\ held[x[1]][x[2]].fp = requisitions[orders[o].req].lines[s].fp

DrawnInv == \A o \in Orders, s \in Slots : DrawnOK(o, s)

LEMMA DrawnIs ==
    ASSUME NEW draw
    PROVE  /\ IsFiniteSet(Drawn(draw)) /\ IsFiniteSet(Drawn(draw)')
           /\ Cardinality(Drawn(draw)) \in Nat /\ Cardinality(Drawn(draw)') \in Nat
<1>1. IsFiniteSet(Workers \X (1 .. MaxHeld))
  <2>1. IsFiniteSet(1 .. MaxHeld) /\ IsFiniteSet(Workers)
    BY CapacityBounds, FS_Interval
  <2>q. QED
    BY <2>1, FS_Product
<1>2. Drawn(draw) \subseteq Workers \X (1 .. MaxHeld) /\ Drawn(draw)' \subseteq Workers \X (1 .. MaxHeld)
  BY DEF Drawn
<1>3. IsFiniteSet(Drawn(draw)) /\ IsFiniteSet(Drawn(draw)')
  BY <1>1, <1>2, FS_Subset
<1>q. QED
  BY <1>3, FS_CardinalityType

\* Nothing is drawn anew, and the books keep what was promised.
LEMMA DrawsStand ==
    ASSUME HeldInv, SupplyInv, DrawnInv, PromisesKept, OnlyFewer, SupplyInv'
    PROVE  DrawnInv'
<1> SUFFICES ASSUME NEW o \in Orders, NEW s \in Slots PROVE DrawnOK(o, s)'
  BY DEF DrawnInv
<1> DEFINE D == Drawn(<<o, s>>)
           E == Drawn(<<o, s>>)'
<1>1. \A x \in E : /\ x \in D /\ held'[x[1]][x[2]].date = held[x[1]][x[2]].date
                   /\ held'[x[1]][x[2]].fp = held[x[1]][x[2]].fp
  BY DEF OnlyFewer, Drawn
<1>2. Cardinality(E) <= Cardinality(D) /\ Cardinality(E) \in Nat /\ Cardinality(D) \in Nat /\ IsFiniteSet(E)
  <2>1. E \subseteq D
    BY <1>1
  <2>2. IsFiniteSet(D) /\ Cardinality(D) \in Nat /\ IsFiniteSet(E) /\ Cardinality(E) \in Nat
    BY DrawnIs
  <2> HIDE DEF D, E
  <2>q. QED
    BY <2>1, <2>2, FS_Subset
<1>3. DrawnOK(o, s)
  BY DEF DrawnInv
<1>4. CASE orders[o].status = "none"
  <2>1. E = {}
    BY <1>1, <1>3, <1>4 DEF DrawnOK
  <2>2. Cardinality(E) = 0
    BY <2>1, FS_EmptySet
  <2>3. orders'[o].lines[s].qty \in Nat
    <3>1. orders' \in OrderMaps
      BY DEF SupplyInv, SupplyTypeOK, OrderMaps, OrderRecs
    <3>2. orders'[o] \in OrderRecs
      BY <3>1 DEF OrderMaps
    <3>q. QED
      BY <3>2, LineIn
  <2>q. QED
    BY <2>1, <2>2, <2>3 DEF DrawnOK
<1>5. CASE orders[o].status # "none"
  <2>1. /\ orders'[o].status # "none" /\ orders'[o].req = orders[o].req
        /\ orders'[o].lines[s].qty = orders[o].lines[s].qty
    BY <1>5 DEF PromisesKept, OrderKept
  <2>2. orders[o].req \in Requisitions /\ requisitions[orders[o].req].status # "none"
    BY <1>5, OrderIn
  <2>3. requisitions'[orders[o].req].lines[s].fp = requisitions[orders[o].req].lines[s].fp
    BY <2>2 DEF PromisesKept, RequisitionKept
  <2>4. Cardinality(D) <= orders[o].lines[s].qty /\ orders[o].lines[s].qty \in Nat
    BY <1>3, OrderIn, LineIn DEF DrawnOK
  <2>5. Cardinality(E) <= orders'[o].lines[s].qty
    BY <1>2, <2>1, <2>4
  <2>6. \A x \in E : /\ orders'[o].status # "none" /\ held'[x[1]][x[2]].date = s[2]
                     /\ held'[x[1]][x[2]].fp = requisitions'[orders'[o].req].lines[s].fp
    BY <1>1, <1>3, <2>1, <2>3 DEF DrawnOK
  <2>q. QED
    BY <2>5, <2>6 DEF DrawnOK
<1>q. QED
  BY <1>4, <1>5

\* A crew draws at most its own number, and the guard has counted it.
LEMMA AllocateDraws ==
    ASSUME HeldInv, SupplyInv, DrawnInv, NEW crew \in SUBSET Workers, NEW r \in Requirements, NEW d \in Dates,
           NEW draw \in Draws, Allocate(crew, r, d, draw)
    PROVE  DrawnInv'
<1> SUFFICES ASSUME NEW o \in Orders, NEW s \in Slots PROVE DrawnOK(o, s)'
  BY DEF DrawnInv
<1> DEFINE D == Drawn(<<o, s>>)
           E == Drawn(<<o, s>>)'
           N == {<<w, Len(held[w]) + 1>> : w \in crew}
           row == [status |-> "active", req |-> r, act |-> demand[r].act, fp |-> demand[r].fp,
                   date |-> d, draw |-> draw, worked |-> 0]
<1>0. UNCHANGED <<orders, requisitions>> /\ DrawnOK(o, s) /\ demand[r].fp = row.fp /\ row.date = d /\ row.draw = draw
  BY DEF Allocate, supplyVars, DrawnInv
<1>1. \A w \in Workers : /\ held[w] \in Seq(Rows)
                         /\ held'[w] = IF w \in crew THEN Append(held[w], row) ELSE held[w]
  BY DEF Allocate, HeldInv, ShapeOK
<1> HIDE DEF row
<1>2. \A x \in E : \/ x \in D /\ held'[x[1]][x[2]] = held[x[1]][x[2]]
                   \/ x \in N /\ draw = <<o, s>> /\ held'[x[1]][x[2]] = row
  <2> SUFFICES ASSUME NEW w \in Workers, NEW i \in 1 .. MaxHeld, i \in Active(w)', held'[w][i].draw = <<o, s>>
               PROVE  \/ i \in Active(w) /\ held'[w][i] = held[w][i]
                      \/ w \in crew /\ i = Len(held[w]) + 1 /\ draw = <<o, s>> /\ held'[w][i] = row
    BY DEF Drawn
  <2>1. held[w] \in Seq(Rows) /\ i \in DOMAIN held'[w] /\ held'[w][i].status = "active"
    BY <1>1 DEF Active
  <2>2. CASE w \notin crew
    BY <1>1, <2>1, <2>2 DEF Active
  <2>3. CASE w \in crew
    <3>1. held'[w] = Append(held[w], row)
      BY <1>1, <2>3
    <3>2. i \in 1 .. Len(held[w]) + 1
      BY <2>1, <3>1
    <3>3. CASE i \in 1 .. Len(held[w])
      <4>1. held'[w][i] = held[w][i]
        BY <2>1, <3>1, <3>3
      <4>q. QED
        BY <2>1, <3>3, <4>1 DEF Active
    <3>4. CASE i = Len(held[w]) + 1
      <4>1. held'[w][i] = row
        BY <2>1, <3>1, <3>4
      <4>q. QED
        BY <1>0, <2>3, <3>4, <4>1
    <3>5. i \in 1 .. Len(held[w]) \/ i = Len(held[w]) + 1
      BY <2>1, <3>2
    <3>q. QED
      BY <3>3, <3>4, <3>5
  <2>q. QED
    BY <2>2, <2>3
<1>3. /\ IsFiniteSet(D) /\ IsFiniteSet(E) /\ Cardinality(D) \in Nat /\ Cardinality(E) \in Nat
      /\ IsFiniteSet(crew) /\ Cardinality(crew) \in Nat
  <2>1. IsFiniteSet(crew)
    BY CapacityBounds, FS_Subset
  <2>q. QED
    BY <2>1, DrawnIs, FS_CardinalityType
<1>4. CASE draw # <<o, s>>
  <2>1. E \subseteq D
    BY <1>2, <1>4
  <2>2. Cardinality(E) <= Cardinality(D)
    <3> HIDE DEF D, E
    <3>q. QED
      BY <1>3, <2>1, FS_Subset
  <2>3. Cardinality(D) <= orders[o].lines[s].qty /\ orders[o].lines[s].qty \in Nat
    BY <1>0, OrderIn, LineIn DEF DrawnOK
  <2>4. Cardinality(E) <= orders'[o].lines[s].qty
    BY <1>0, <1>3, <2>2, <2>3
  <2>5. \A x \in E : x \in D /\ held'[x[1]][x[2]] = held[x[1]][x[2]]
    BY <1>2, <1>4
  <2>q. QED
    BY <1>0, <2>4, <2>5 DEF DrawnOK
<1>5. CASE draw = <<o, s>>
  <2>1. /\ s[2] = d /\ orders[o].lines[s].promise = "committed"
        /\ requisitions[orders[o].req].lines[s].fp = demand[r].fp
        /\ Cardinality(D) + Cardinality(crew) <= orders[o].lines[s].qty
    <3>1. Drawable(crew, demand[r].fp, d, draw)
      BY <1>5 DEF Allocate, NoDraw
    <3>2. PICK p \in Orders, t \in Slots :
              /\ draw = <<p, t>> /\ t[2] = d
              /\ orders[p].lines[t].promise = "committed"
              /\ requisitions[orders[p].req].lines[t].fp = demand[r].fp
              /\ Cardinality(Drawn(draw)) + Cardinality(crew) <= orders[p].lines[t].qty
      BY <3>1 DEF Drawable
    <3>3. p = o /\ t = s
      BY <1>5, <3>2
    <3>q. QED
      BY <1>5, <3>2, <3>3
  <2>2. orders[o].status # "none" /\ orders[o].lines[s].qty \in Nat
    <3>1. LineOK(orders[o].status, orders[o].lines[s])
      BY SupplyIs
    <3>2. orders[o].lines[s].promise \in Standing
      BY <2>1 DEF Standing
    <3>3. orders[o].status # "none"
      BY <3>1, <3>2 DEF LineOK, Contracted
    <3>q. QED
      BY <3>3, OrderIn, LineIn
  <2>3. IsFiniteSet(N) /\ Cardinality(N) <= Cardinality(crew) /\ Cardinality(N) \in Nat
    <3> DEFINE f == [w \in crew |-> <<w, Len(held[w]) + 1>>]
    <3>0. f \in Surjection(crew, N)
      BY DEF Surjection
    <3> HIDE DEF f, N
    <3>1. IsFiniteSet(N) /\ Cardinality(N) <= Cardinality(crew)
      BY <1>3, <3>0, FS_Surjection
    <3> HIDE DEF N
    <3>q. QED
      BY <3>1, FS_CardinalityType
  <2>4. E \subseteq D \cup N
    BY <1>2
  <2>5. Cardinality(E) <= Cardinality(D) + Cardinality(N)
    <3> HIDE DEF D, E, N
    <3>1. IsFiniteSet(D \cup N) /\ Cardinality(D \cup N) = Cardinality(D) + Cardinality(N) - Cardinality(D \cap N)
      BY <1>3, <2>3, FS_Union
    <3>2. IsFiniteSet(D \cap N)
      BY <1>3, FS_Subset
    <3>3. Cardinality(D \cap N) \in Nat
      BY <3>2, FS_CardinalityType
    <3>4. Cardinality(E) <= Cardinality(D \cup N)
      BY <2>4, <3>1, FS_Subset
    <3>q. QED
      BY <1>3, <2>3, <3>1, <3>3, <3>4
  <2>6. Cardinality(E) <= orders'[o].lines[s].qty
    BY <1>0, <1>3, <2>1, <2>2, <2>3, <2>5
  <2>7. \A x \in E : /\ orders'[o].status # "none" /\ held'[x[1]][x[2]].date = s[2]
                     /\ held'[x[1]][x[2]].fp = requisitions'[orders'[o].req].lines[s].fp
    BY <1>0, <1>2, <2>1, <2>2 DEF DrawnOK
  <2>q. QED
    BY <2>6, <2>7 DEF DrawnOK
<1>q. QED
  BY <1>4, <1>5

LEMMA StepDraws == HeldInv /\ SupplyInv /\ DrawnInv /\ [Next]_vars => DrawnInv'
<1> SUFFICES ASSUME HeldInv, SupplyInv, DrawnInv, [Next]_vars PROVE DrawnInv'
  OBVIOUS
<1>0. SupplyInv' /\ PromisesKept /\ HeldInv' /\ held' \in [Workers -> Seq(Rows)] /\ ShapeOK
  BY StepSupplies, StepHeld DEF HeldInv, ShapeOK
<1>s. ASSUME UNCHANGED held PROVE DrawnInv'
  BY <1>0, <1>s, DrawsStand DEF OnlyFewer, Active
<1>1. CASE DemandNext
  <2>1. UNCHANGED held
    BY <1>1 DEF DemandNext, CreateRequirement, Revise, CancelRequirement, capacityVars
  <2>q. QED
    BY <2>1, <1>s
<1>2. CASE SupplyNext /\ UNCHANGED capacityVars
  BY <1>2, <1>s DEF capacityVars
<1>3. CASE CapacityNext
  <2>1. ASSUME NEW r \in Requirements, NEW crew \in SUBSET Workers \ {{}}, NEW d \in Dates, NEW draw \in Draws,
               Allocate(crew, r, d, draw)
        PROVE  DrawnInv'
    BY <2>1, AllocateDraws
  <2>2. ASSUME NEW r \in Requirements, NEW fp \in Fingerprints, ApproveSubstitution(r, fp)
        PROVE  DrawnInv'
    BY <2>2, <1>s DEF ApproveSubstitution
  <2>3. ASSUME NEW r \in Requirements, NEW from \in Fingerprints, NEW to \in Fingerprints,
               RevokeSubstitution(r, from, to)
        PROVE  DrawnInv'
    <3>1. OnlyFewer
      BY <1>0, <2>3, RevokeRows DEF OnlyFewer
    <3>q. QED
      BY <1>0, <3>1, DrawsStand
  <2>4. ASSUME NEW w \in Workers, NEW i \in Active(w), Release(w, i) \/ \E m \in Portions : RecordWork(w, i, m)
        PROVE  DrawnInv'
    <3>1. OnlyFewer
      BY <1>0, <2>4, RowFewer
    <3>q. QED
      BY <1>0, <3>1, DrawsStand
  <2>5. ASSUME NEW w \in Workers,
               (\E d \in Dates : RecordAttendance(w, d) \/ RevokeAttendance(w, d)) \/ RevokeWorker(w)
        PROVE  DrawnInv'
    BY <2>5, <1>s DEF RecordAttendance, RevokeAttendance, RevokeWorker
  <2>q. QED
    BY <1>3, <2>1, <2>2, <2>3, <2>4, <2>5 DEF CapacityNext
<1>4. CASE UNCHANGED vars
  BY <1>4, <1>s DEF vars, capacityVars
<1>q. QED
  BY <1>1, <1>2, <1>3, <1>4 DEF Next

LEMMA InitDraws == Init => DrawnInv
<1> SUFFICES ASSUME Init, NEW o \in Orders, NEW s \in Slots PROVE DrawnOK(o, s)
  BY DEF DrawnInv
<1>1. Drawn(<<o, s>>) = {}
  BY DEF Init, Drawn, Active
<1>2. Cardinality(Drawn(<<o, s>>)) = 0
  BY <1>1, FS_EmptySet
<1>3. orders[o].lines[s].qty = 0
  BY DEF Init, SupplyInit, NoOrder
<1>q. QED
  BY <1>1, <1>2, <1>3 DEF DrawnOK

\* Crews never draw more person-shifts on a promise than it commits, nor on
\* another date or identity, and nobody works more than a shift a day: counted
\* and taken under one lock, whatever is revised, defaulted or released.
THEOREM CapacityHolds == Spec => []WithinCapacity
<1>1. Spec => []DrawnInv
  BY InitDraws, StepDraws, HeldIsInvariant, SupplyIsInvariant, PTL DEF Spec
<1>2. DrawnInv /\ WorkWithinShift => WithinCapacity
  BY DEF DrawnInv, DrawnOK, WithinCapacity, DrawnWithinCommitment
<1>q. QED
  BY <1>1, <1>2, WorkIsWithin, PTL

==============================================================================

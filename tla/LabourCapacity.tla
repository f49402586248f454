--------------------------- MODULE LabourCapacity ---------------------------
(* Workers held on, present for and working on the demand of a labour       *)
(* requirement, and the skill substitutions that qualify them.  Every       *)
(* command is one transaction under the project's readiness lock; a worker's *)
(* revocation takes only the worker's row, which the others lock.           *)
(*                                                                          *)
(* held[w] is the list of w's allocations, oldest first; a row is never     *)
(* removed.  A crew is any set of workers, allocated all or none.  Workers  *)
(* are on the roster on every date until they are revoked.                  *)
EXTENDS LabourSupply, Sequences

CONSTANTS
    Workers,
    Native,          \* worker -> the fingerprints the worker's own trade and skills satisfy
    ShiftMinutes,    \* the minutes of a shift
    Portions,        \* minutes one record of work may name
    MaxRevision,     \* revisions a requirement may reach
    MaxHeld          \* allocations a worker may have had

ASSUME CapacityBounds == /\ IsFiniteSet(Workers)
                         /\ Native \in [Workers -> SUBSET Fingerprints]
                         /\ ShiftMinutes \in Nat /\ Portions \subseteq Nat \ {0}
                         /\ MaxRevision \in Nat /\ MaxHeld \in Nat

VARIABLES
    held,       \* worker -> the worker's allocations
    present,    \* <<worker, date>> with an attendance that stands
    subs,       \* <<requirement, from, to>> substitutions that stand
    gone        \* workers revoked

capacityVars == <<held, present, subs, gone>>
vars == <<supplyVars, capacityVars>>

NoDraw == <<>>
Draws == {NoDraw} \cup (Orders \X Slots)

Allocations == [status: {"active", "released"}, req: Requirements, act: Activities, fp: Fingerprints,
                date: Dates, draw: Draws, worked: 0 .. ShiftMinutes]

TypeOK ==
    /\ SupplyTypeOK
    /\ held \in [Workers -> Seq(Allocations)]
    /\ present \subseteq Workers \X Dates
    /\ subs \subseteq Requirements \X Fingerprints \X Fingerprints
    /\ gone \subseteq Workers

Init ==
    /\ SupplyInit
    /\ held = [w \in Workers |-> <<>>]
    /\ present = {} /\ subs = {} /\ gone = {}

------------------------------------------------------------------------------
(* The requirement, whose revisions belong to the activities.               *)

Slices == {f \in [Dates -> Quantities] : \E d \in Dates : f[d] > 0}

Active(w) == {i \in DOMAIN held[w] : held[w][i].status = "active"}

CreateRequirement(r, act, fp, slices) ==
    /\ demand[r].status = "none"
    /\ demand' = [demand EXCEPT ![r] = [rev |-> 1, status |-> "open", act |-> act, fp |-> fp, slices |-> slices]]
    /\ UNCHANGED <<requisitions, orders, capacityVars>>

Revise(r, act, fp, slices) ==
    /\ demand[r].status = "open" /\ demand[r].rev < MaxRevision
    /\ demand' = [demand EXCEPT ![r] = [rev |-> @.rev + 1, status |-> "open", act |-> act, fp |-> fp,
                                        slices |-> slices]]
    /\ UNCHANGED <<requisitions, orders, capacityVars>>

\* No line may hold the requirement, whatever its revision, and no worker.
Disposable(r) ==
    /\ \A d \in Dates : Holders(<<r, d>>) = {}
    /\ \A w \in Workers : \A i \in Active(w) : held[w][i].req # r

CancelRequirement(r) ==
    /\ demand[r].status = "open" /\ Disposable(r)
    /\ demand' = [demand EXCEPT ![r].status = "cancelled", ![r].rev = @ + 1]
    /\ UNCHANGED <<requisitions, orders, capacityVars>>

------------------------------------------------------------------------------
(* Allocation.                                                              *)

Qualified(w, r, fp) == \E own \in Native[w] : own = fp \/ <<r, fp, own>> \in subs

Drawn(draw) == {x \in Workers \X (1 .. MaxHeld) :
                    x[2] \in Active(x[1]) /\ held[x[1]][x[2]].draw = draw}

\* Variant: the crew is measured as one person-shift.
DrawableByCrew(crew, fp, d, draw) ==
    /\ \A w \in crew : fp \in Native[w]
    /\ \E o \in Orders, s \in Slots :
           /\ draw = <<o, s>> /\ s[2] = d
           /\ orders[o].lines[s].promise = "committed"
           /\ requisitions[orders[o].req].lines[s].fp = fp
           /\ Cardinality(Drawn(draw)) < orders[o].lines[s].qty

\* Committed capacity is drawn by workers the head itself qualifies, for the
\* identity and the date it was committed for, and never beyond its quantity.
Drawable(crew, fp, d, draw) ==
    /\ \A w \in crew : fp \in Native[w]
    /\ \E o \in Orders, s \in Slots :
           /\ draw = <<o, s>> /\ s[2] = d
           /\ orders[o].lines[s].promise = "committed"
           /\ requisitions[orders[o].req].lines[s].fp = fp
           /\ Cardinality(Drawn(draw)) + Cardinality(crew) <= orders[o].lines[s].qty

Allocate(crew, r, d, draw) ==
    LET head == demand[r]
    IN /\ head.status = "open" /\ head.slices[d] > 0
       /\ \A w \in crew : /\ w \notin gone /\ Qualified(w, r, head.fp)
                          /\ \A i \in Active(w) : held[w][i].date # d
                          /\ Len(held[w]) < MaxHeld
       /\ draw # NoDraw => Drawable(crew, head.fp, d, draw)
       /\ held' = [w \in Workers |->
              IF w \in crew
              THEN Append(held[w], [status |-> "active", req |-> r, act |-> head.act, fp |-> head.fp,
                                    date |-> d, draw |-> draw, worked |-> 0])
              ELSE held[w]]
       /\ UNCHANGED <<supplyVars, present, subs, gone>>

Release(w, i) ==
    /\ held' = [held EXCEPT ![w][i].status = "released"]
    /\ UNCHANGED <<supplyVars, present, subs, gone>>

------------------------------------------------------------------------------
(* Presence and work.                                                       *)

RecordAttendance(w, d) ==
    /\ w \notin gone /\ <<w, d>> \notin present
    /\ present' = present \cup {<<w, d>>}
    /\ UNCHANGED <<supplyVars, held, subs, gone>>

RevokeAttendance(w, d) ==
    /\ <<w, d>> \in present
    /\ present' = present \ {<<w, d>>}
    /\ UNCHANGED <<supplyVars, held, subs, gone>>

MinutesOn(w, d) == SumFunction([i \in {j \in DOMAIN held[w] : held[w][j].date = d} |-> held[w][i].worked])

\* The allocation must still serve the demand its head asks for.
Serves(row) ==
    /\ demand[row.req].status = "open"
    /\ demand[row.req].act = row.act /\ demand[row.req].fp = row.fp
    /\ demand[row.req].slices[row.date] > 0

RecordWork(w, i, minutes) ==
    /\ Serves(held[w][i])
    /\ MinutesOn(w, held[w][i].date) + minutes <= ShiftMinutes
    /\ held' = [held EXCEPT ![w][i].worked = @ + minutes]
    /\ UNCHANGED <<supplyVars, present, subs, gone>>

\* Releases nobody: the revoked worker keeps the allocations held.
RevokeWorker(w) ==
    /\ w \notin gone
    /\ gone' = gone \cup {w}
    /\ UNCHANGED <<supplyVars, held, present, subs>>

------------------------------------------------------------------------------
(* Skill substitutions: `to` qualifies for a requirement whose head is      *)
(* `from`.  A revocation releases whom nothing else qualifies.              *)

ApproveSubstitution(r, to) ==
    /\ demand[r].status = "open" /\ to # demand[r].fp
    /\ <<r, demand[r].fp, to>> \notin subs
    /\ subs' = subs \cup {<<r, demand[r].fp, to>>}
    /\ UNCHANGED <<supplyVars, held, present, gone>>

\* Variant: the rows of the head's identity are looked at, not of the substitution's.
StoodOnHead(w, row, r, from, to, standing) ==
    /\ row.status = "active" /\ row.req = r /\ row.fp = demand[r].fp
    /\ row.fp \notin Native[w] /\ to \in Native[w]
    /\ \A own \in Native[w] : <<r, row.fp, own>> \notin standing

\* The row stood on the substitution of `from` by `to`, and on nothing else.
StoodOn(w, row, r, from, to, standing) ==
    /\ row.status = "active" /\ row.req = r /\ row.fp = from
    /\ from \notin Native[w] /\ to \in Native[w]
    /\ \A own \in Native[w] : <<r, from, own>> \notin standing

RevokeSubstitution(r, from, to) ==
    /\ <<r, from, to>> \in subs
    /\ subs' = subs \ {<<r, from, to>>}
    /\ held' = [w \in Workers |-> [i \in DOMAIN held[w] |->
           IF StoodOn(w, held[w][i], r, from, to, subs') THEN [held[w][i] EXCEPT !.status = "released"]
           ELSE held[w][i]]]
    /\ UNCHANGED <<supplyVars, present, gone>>

------------------------------------------------------------------------------

DemandNext ==
    \E r \in Requirements :
        \/ \E act \in Activities, fp \in Fingerprints, slices \in Slices :
               CreateRequirement(r, act, fp, slices) \/ Revise(r, act, fp, slices)
        \/ CancelRequirement(r)

CapacityNext ==
    \/ \E r \in Requirements :
           \/ \E crew \in SUBSET Workers \ {{}}, d \in Dates, draw \in Draws : Allocate(crew, r, d, draw)
           \/ \E fp \in Fingerprints : ApproveSubstitution(r, fp)
           \/ \E from, to \in Fingerprints : RevokeSubstitution(r, from, to)
    \/ \E w \in Workers :
           \/ \E i \in Active(w) : Release(w, i) \/ \E m \in Portions : RecordWork(w, i, m)
           \/ \E d \in Dates : RecordAttendance(w, d) \/ RevokeAttendance(w, d)
           \/ RevokeWorker(w)

Next == DemandNext \/ (SupplyNext /\ UNCHANGED capacityVars) \/ CapacityNext

Spec == Init /\ [][Next]_vars

------------------------------------------------------------------------------
(* The team's reading of a requirement on the day `today`, as the start of  *)
(* its activity takes it: whole people, present or having worked.           *)

Acceptable(r) == {f \in Fingerprints : f = demand[r].fp \/ <<r, demand[r].fp, f>> \in subs}

\* The rows on a slot that count for the head: its activity and an accepted identity.
Counting(w, r, d) ==
    {i \in DOMAIN held[w] : /\ held[w][i].req = r /\ held[w][i].date = d
                            /\ held[w][i].act = demand[r].act /\ held[w][i].fp \in Acceptable(r)}

\* Variant: only work of a row that is still active counts.
WorkedAndHeld(r, d) == {w \in Workers : \E i \in Counting(w, r, d) \cap Active(w) : held[w][i].worked > 0}

Worked(r, d) == {w \in Workers : \E i \in Counting(w, r, d) : held[w][i].worked > 0}
Sourced(r, d) == Worked(r, d) \cup {w \in Workers : Counting(w, r, d) \cap Active(w) # {}}
There(r, d) == Worked(r, d) \cup {w \in Sourced(r, d) : Counting(w, r, d) \cap Active(w) # {} /\ <<w, d>> \in present}

Verdict(r, today) ==
    LET asked == {d \in Dates : demand[r].slices[d] > 0}
        short(people, d) == Cardinality(people) < demand[r].slices[d]
    IN IF \A d \in asked : today < d THEN "wait"
       ELSE IF \E d \in asked : d < today /\ short(There(r, d), d) THEN "fail"
       ELSE IF today \notin asked \/ ~short(There(r, today), today) THEN "ok"
       ELSE IF short(Sourced(r, today), today) THEN "fail" ELSE "wait"

------------------------------------------------------------------------------

\* What was bought is sound: vendors stand committed within what was asked for,
\* and the stored flags of lines and orders are what they are derived from.
BoughtSoundly == TypeOK /\ CommittedWithinLine /\ ColumnsAreDerived

\* Whoever is held for a demand is qualified for the identity the allocation
\* froze, by their own trade or by a substitution that still stands: a
\* revocation finds everyone it alone qualified, whatever the head became.
BasisStands == \A w \in Workers : \A i \in Active(w) : Qualified(w, held[w][i].req, held[w][i].fp)

\* A cancelled requirement holds nobody, however crews were allocated and
\* revised before it was cancelled.
DeadDemandHoldsNobody ==
    \A w \in Workers : \A i \in Active(w) : demand[held[w][i].req].status = "open"

\* A worker is on one allocation a day.
OneSlotADay ==
    \A w \in Workers : \A i, j \in Active(w) : held[w][i].date = held[w][j].date => i = j

\* Workers are held soundly: on a basis that stands, for a demand that lives,
\* on one slot a day.
HeldSoundly == BasisStands /\ DeadDemandHoldsNobody /\ OneSlotADay

\* Active draws on a promise are within the person-shifts it commits, for its
\* date and identity, also when the promise was revised or defaulted since.
DrawnWithinCommitment ==
    \A o \in Orders, s \in Slots :
        /\ Cardinality(Drawn(<<o, s>>)) <= orders[o].lines[s].qty
        /\ \A x \in Drawn(<<o, s>>) :
               /\ held[x[1]][x[2]].date = s[2]
               /\ held[x[1]][x[2]].fp = requisitions[orders[o].req].lines[s].fp

\* A worker's minutes on a day, over every allocation of that day, released
\* ones included, are within the shift.
WorkWithinShift == \A w \in Workers, d \in Dates : MinutesOn(w, d) <= ShiftMinutes

\* Capacity is never exceeded: neither a vendor's promise nor a worker's shift.
WithinCapacity == DrawnWithinCommitment /\ WorkWithinShift

\* A requirement the team is ready for stays so while its demand, its
\* substitutions and the musters stand: releasing a crew that has worked, or
\* moving it on, never un-readies the activity.
OnlyWorkedReleased(r) ==
    \A w \in Workers : \A i \in Active(w) :
        held[w][i].req = r /\ held'[w][i].status = "released" => held[w][i].worked > 0

ReadyStays ==
    [][\A r \in Requirements : \A today \in Dates :
          (/\ demand[r].status = "open" /\ demand'[r] = demand[r] /\ subs \subseteq subs'
           /\ present \subseteq present' /\ OnlyWorkedReleased(r) /\ Verdict(r, today) = "ok")
              => Verdict(r, today)' = "ok"]_vars

==============================================================================

----------------------------- MODULE SiteWork -----------------------------
(* An activity on site, from its start to its sign-off, together with what *)
(* can stop it or send it back: the checklists that accept the work, the   *)
(* material that does not match its decision, and the disputes over the    *)
(* crew.  Every command but `complete` runs under the project's readiness  *)
(* lock, and `complete` is one compare-and-set, so each is one action;     *)
(* only a submission reads before its transaction what it writes by.       *)
(*                                                                         *)
(* A checklist is its verdict: items and evidence are left out, and so are *)
(* the decision and drawing gates.  An override is an excuse a start may   *)
(* carry.  A log holds at most one delivery for a decision.                *)
EXTENDS Integers, Sequences, FiniteSets, SequencesExt, FiniteSetsExt

CONSTANTS
    Activities, Decisions, People,
    Nobody, NoDecision,
    MaxInspections, MaxLogs, MaxDisputes, MaxCalls

ASSUME SiteAssumption ==
    /\ Nobody \notin People /\ NoDecision \notin Decisions
    /\ {MaxInspections, MaxLogs, MaxDisputes, MaxCalls} \subseteq Nat

VARIABLES
    work,       \* activity -> status, whether work began, stored material gate, decision, banner
    measured,   \* the activities whose accepted work is measured for a bill
    insps,      \* the inspections, in the order they were created
    role,       \* a person's active role on the project
    calls,      \* submissions that passed their first checks and have not committed
    site,       \* the daily logs: decision -> what became of its delivery
    disputes    \* activity -> crew disputes recorded and not resolved

vars == <<work, measured, insps, role, calls, site, disputes>>

Running == {"not_started", "in_progress"}
Statuses == Running \cup {"none", "blocked", "awaiting_signoff", "done"}
Roles == {"engineer", "pmc", "none"}

ActivityRecords ==
    [status: Statuses, started: BOOLEAN, gate: {"ok", "wait", "fail"},
     decision: Decisions \cup {NoDecision}, banner: {"", "material", "labour"}]

TypeOK ==
    /\ work \in [Activities -> ActivityRecords]
    /\ measured \subseteq Activities
    /\ insps \in Seq([activity: Activities, closing: BOOLEAN, parent: 0 .. MaxInspections,
                      assignee: People \cup {Nobody}, by: People \cup {Nobody},
                      state: {"open", "submitted", "approved", "rejected"}])
    /\ role \in [People -> Roles]
    /\ calls \subseteq [insp: Nat, by: People, seen: People \cup {Nobody},
                        then: {"review", "approve", "reject"}, to: People \cup {Nobody}]
    /\ site \in Seq([Decisions -> {"none", "matched", "flagged", "resolved"}])
    /\ disputes \in [Activities -> 0 .. MaxDisputes]

Init ==
    /\ work = [a \in Activities |-> [status |-> "none", started |-> FALSE, gate |-> "wait",
                                     decision |-> NoDecision, banner |-> ""]]
    /\ measured = {} /\ insps = <<>> /\ calls = {} /\ site = <<>>
    /\ role \in [People -> Roles]
    /\ disputes = [a \in Activities |-> 0]

InspectionsOf(a) == {i \in DOMAIN insps : insps[i].activity = a}
ChildrenOf(i) == {j \in DOMAIN insps : insps[j].parent = i}

Marked(w, status, gate, banner) ==
    [status |-> status, started |-> w.started, gate |-> gate, decision |-> w.decision, banner |-> banner]

\* The status a release falls back to.
Resumed(w) == IF w.started THEN "in_progress" ELSE "not_started"

------------------------------------------------------------------------------
(* Plan.                                                                    *)

Create(a) ==
    /\ work[a].status = "none"
    /\ \E d \in Decisions \cup {NoDecision} : work' = [work EXCEPT ![a].status = "not_started", ![a].decision = d]
    /\ UNCHANGED <<measured, insps, role, calls, site, disputes>>

\* The plan may change the stored gate and the decision at any time.
Update(a) ==
    /\ work[a].status # "none"
    /\ \E d \in Decisions \cup {NoDecision}, g \in {"ok", "wait", "fail"} :
          work' = [work EXCEPT ![a].decision = d, ![a].gate = g]
    /\ UNCHANGED <<measured, insps, role, calls, site, disputes>>

ChangeMember(p) ==
    /\ \E r \in Roles \ {role[p]} : role' = [role EXCEPT ![p] = r]
    /\ UNCHANGED <<work, measured, insps, calls, site, disputes>>

------------------------------------------------------------------------------
(* Execution.                                                               *)

Tip ==
    LET last[i \in DOMAIN insps] == IF ChildrenOf(i) = {} THEN i ELSE last[Max(ChildrenOf(i))]
    IN  last

InspectionGate(a) ==
    LET R == {i \in InspectionsOf(a) : ~insps[i].closing}
    IN  IF \E i \in R : insps[i].state = "rejected" /\ insps[Tip[i]].state # "approved" THEN "fail"
        ELSE IF \E i \in R : insps[i].state \in {"open", "submitted"} THEN "wait" ELSE "ok"

Start(a) ==
    /\ work[a].status = "not_started"
    /\ \E excused \in SUBSET {"material", "team", "inspection"} :
          /\ "material" \in excused \/ work[a].gate = "ok"
          /\ "team" \in excused \/ disputes[a] = 0
          /\ "inspection" \in excused \/ InspectionGate(a) = "ok"
    /\ work' = [work EXCEPT ![a].status = "in_progress", ![a].started = TRUE]
    /\ UNCHANGED <<measured, insps, role, calls, site, disputes>>

Inspection(a, closing, parent, assignee, state, by) ==
    [activity |-> a, closing |-> closing, parent |-> parent, assignee |-> assignee, state |-> state, by |-> by]

Complete(a, u) ==
    /\ work[a].status = "in_progress" /\ role[u] # "none"
    /\ Len(insps) < MaxInspections
    /\ work' = [work EXCEPT ![a].status = "awaiting_signoff"]
    /\ insps' = Append(insps, Inspection(a, TRUE, 0, Nobody, "submitted", u))
    /\ UNCHANGED <<measured, role, calls, site, disputes>>

Revert(a) ==
    /\ a \notin measured
    /\ work[a].status \in {"awaiting_signoff", "done"}
    /\ work' = [work EXCEPT ![a].status = "in_progress"]

SignOff(a) ==
    /\ work[a].status \in {"awaiting_signoff", "done"}
    /\ work' = [work EXCEPT ![a].status = "done"]

\* Commercial measures only accepted work, and may withdraw a measurement.
Measure(a) ==
    /\ \/ work[a].status = "done" /\ a \notin measured /\ measured' = measured \cup {a}
       \/ a \in measured /\ measured' = measured \ {a}
    /\ UNCHANGED <<work, insps, role, calls, site, disputes>>

------------------------------------------------------------------------------
(* Inspections.                                                             *)

Issue(a) ==
    /\ work[a].status # "none" /\ Len(insps) < MaxInspections
    /\ insps' = Append(insps, Inspection(a, FALSE, 0, Nobody, "open", Nobody))
    /\ UNCHANGED <<work, measured, role, calls, site, disputes>>

\* An assignment binds only while its assignee can still do the work.
BindsOthers(assignee, u) == assignee \notin {Nobody, u} /\ role[assignee] = "engineer"

\* submit and finish, before their transaction.
PrepareSubmit(i, u) ==
    /\ insps[i].state = "open" /\ role[u] # "none" /\ ~BindsOthers(insps[i].assignee, u)
    /\ Cardinality(calls) < MaxCalls
    /\ \E c \in [insp: {i}, by: {u}, seen: {insps[i].assignee}, then: {"review", "approve", "reject"},
                 to: People \cup {Nobody}] :
          /\ c.then # "review" => role[u] = "pmc"
          /\ (c.then = "reject") = (c.to # Nobody)
          /\ calls' = calls \cup {c}
    /\ UNCHANGED <<work, measured, insps, role, site, disputes>>

Abandon(c) ==
    /\ calls' = calls \ {c}
    /\ UNCHANGED <<work, measured, insps, role, site, disputes>>

\* Variant: the answer given before the transaction is trusted.
SubmittableAsSeen(c) == insps[c.insp].state = "open" /\ insps[c.insp].assignee = c.seen

Submittable(c) ==
    /\ insps[c.insp].state = "open" /\ insps[c.insp].assignee = c.seen
    /\ ~BindsOthers(c.seen, c.by)

\* A re-check goes to an engineer, or to the deciding pmc.
Eligible(p) == role[p] \in {"engineer", "pmc"}

Rejected(is, i, p) ==
    Append([is EXCEPT ![i].state = "rejected"], Inspection(is[i].activity, FALSE, i, p, "open", Nobody))

ApplySubmit(c) ==
    /\ Submittable(c)
    /\ LET done(state) == [insps EXCEPT ![c.insp].state = state, ![c.insp].by = c.by]
       IN  \/ c.then = "review" /\ insps' = done("submitted")
           \/ c.then = "approve" /\ insps' = done("approved")
           \/ /\ c.then = "reject" /\ Eligible(c.to) /\ Len(insps) < MaxInspections
              /\ insps' = Rejected(done("submitted"), c.insp, c.to)
    /\ calls' = calls \ {c}
    /\ UNCHANGED <<work, measured, role, site, disputes>>

Decidable(i) == insps[i].state = "submitted"

\* Variant: the closing inspection is approved and its activity left waiting.
ApproveOnly(i) ==
    /\ Decidable(i)
    /\ insps' = [insps EXCEPT ![i].state = "approved"]
    /\ UNCHANGED <<work, measured, role, calls, site, disputes>>

Approve(i) ==
    /\ Decidable(i)
    /\ insps' = [insps EXCEPT ![i].state = "approved"]
    /\ IF insps[i].closing THEN SignOff(insps[i].activity) ELSE UNCHANGED work
    /\ UNCHANGED <<measured, role, calls, site, disputes>>

\* One re-inspection per inspection is also a unique index.
Reject(i, p) ==
    /\ Decidable(i) /\ ChildrenOf(i) = {} /\ Eligible(p) /\ Len(insps) < MaxInspections
    /\ insps' = Rejected(insps, i, p)
    /\ IF insps[i].closing THEN Revert(insps[i].activity) ELSE UNCHANGED work
    /\ UNCHANGED <<measured, role, calls, site, disputes>>

------------------------------------------------------------------------------
(* Deliveries that do not match, and disputes over the crew.                *)

StartLog ==
    /\ Len(site) < MaxLogs
    /\ site' = Append(site, [d \in Decisions |-> "none"])
    /\ UNCHANGED <<work, measured, insps, role, calls, disputes>>

AddMaterial(d) ==
    /\ site # <<>> /\ Last(site)[d] = "none"
    /\ site' = [site EXCEPT ![Len(site)][d] = "matched"]
    /\ UNCHANGED <<work, measured, insps, role, calls, disputes>>

\* Variant: a finished activity is blocked like any other.
BlockedEvenDone(d) ==
    [a \in Activities |-> IF work[a].decision # d THEN work[a]
                          ELSE Marked(work[a], "blocked", "fail", "material")]

BlockedFor(d) ==
    [a \in Activities |-> IF work[a].decision # d THEN work[a]
                          ELSE Marked(work[a], IF work[a].status = "done" THEN "done" ELSE "blocked", "fail", "material")]

FlagMismatch(d) ==
    /\ site # <<>> /\ Last(site)[d] # "none"
    /\ site' = [site EXCEPT ![Len(site)][d] = IF @ = "resolved" THEN @ ELSE "flagged"]
    /\ work' = BlockedFor(d)
    /\ UNCHANGED <<measured, insps, role, calls, disputes>>

MaterialBlocked(a, d) == work[a].decision = d /\ work[a].gate = "fail" /\ work[a].status = "blocked"

\* Mutants: a material release forgets the crew's dispute; or it restarts the work.
ClearedForgetting(d) ==
    [a \in Activities |->
        IF ~MaterialBlocked(a, d) THEN work[a] ELSE Marked(work[a], Resumed(work[a]), "wait", "")]

ClearedFor(d) ==
    [a \in Activities |->
        IF ~MaterialBlocked(a, d) THEN work[a]
        ELSE IF disputes[a] > 0 THEN Marked(work[a], "blocked", "wait", "labour")
        ELSE Marked(work[a], Resumed(work[a]), "wait", "")]

ResolveMismatch(k, d) ==
    /\ site[k][d] = "flagged"
    /\ site' = [site EXCEPT ![k][d] = "resolved"]
    /\ work' = IF \E j \in DOMAIN site \ {k} : site[j][d] = "flagged" THEN work ELSE ClearedFor(d)
    /\ UNCHANGED <<measured, insps, role, calls, disputes>>

RecordDispute(a) ==
    /\ work[a].status # "none" /\ disputes[a] < MaxDisputes
    /\ disputes' = [disputes EXCEPT ![a] = @ + 1]
    /\ work' = IF work[a].status \in Running
               THEN [work EXCEPT ![a].status = "blocked", ![a].banner = "labour"] ELSE work
    /\ UNCHANGED <<measured, insps, role, calls, site>>

ResolveDispute(a) ==
    /\ disputes[a] > 0
    /\ disputes' = [disputes EXCEPT ![a] = @ - 1]
    /\ work' = IF disputes[a] = 1 /\ work[a].status = "blocked" /\ work[a].banner = "labour"
               THEN [work EXCEPT ![a].status = Resumed(work[a]), ![a].banner = ""] ELSE work
    /\ UNCHANGED <<measured, insps, role, calls, site>>

------------------------------------------------------------------------------
ReviewNext ==
    \/ \E a \in Activities : Create(a) \/ Start(a) \/ Issue(a) \/ Measure(a) \/ \E u \in People : Complete(a, u)
    \/ \E i \in DOMAIN insps : Approve(i) \/ \E p \in People : PrepareSubmit(i, p) \/ Reject(i, p)
    \/ \E c \in calls : ApplySubmit(c) \/ Abandon(c)
    \/ \E p \in People : ChangeMember(p)

DisputeNext ==
    \/ StartLog
    \/ \E d \in Decisions : AddMaterial(d) \/ FlagMismatch(d) \/ \E k \in DOMAIN site : ResolveMismatch(k, d)
    \/ \E a \in Activities : Update(a) \/ RecordDispute(a) \/ ResolveDispute(a)

Next == ReviewNext \/ DisputeNext

Spec == Init /\ [][Next]_vars

------------------------------------------------------------------------------
(* An activity that waits for its sign-off has a closing inspection that   *)
(* can still give it: blocks, releases and decisions on older closings     *)
(* leave no claim that nobody can decide.                                  *)
ClaimHasReview ==
    \A a \in Activities : work[a].status = "awaiting_signoff" =>
        \E i \in InspectionsOf(a) : insps[i].closing /\ insps[i].state = "submitted"

(* A rejected inspection has exactly one re-inspection, of the same        *)
(* activity and itself no sign-off, and no other inspection has any.       *)
OneRecheck ==
    \A i \in DOMAIN insps :
        /\ Cardinality(ChildrenOf(i)) = (IF insps[i].state = "rejected" THEN 1 ELSE 0)
        /\ \A j \in ChildrenOf(i) : insps[j].activity = insps[i].activity /\ ~insps[j].closing

(* Reviews stand: every claim of completion can still be decided, and every *)
(* rejection has its one re-inspection.                                    *)
ReviewsStand == TypeOK /\ ClaimHasReview /\ OneRecheck

(* Work measured for a bill stays accepted work, whatever happens to the   *)
(* material or the closing inspections of its activity.                    *)
MeasuredStaysDone == \A a \in measured : work[a].status = "done"

(* Blocks and releases in any order forget no progress: an activity is at  *)
(* its start exactly when nobody has started it.                           *)
ProgressRemembered ==
    \A a \in Activities : /\ work[a].status \in {"in_progress", "awaiting_signoff", "done"} => work[a].started
                          /\ work[a].status = "not_started" => ~work[a].started

(* Progress is kept: what began, and what was measured, is never undone by *)
(* disputes and reviews, in whatever order they are settled.               *)
ProgressIsKept == ProgressRemembered /\ MeasuredStaysDone

(* A re-inspection is submitted by its assignee, unless that person has    *)
(* lost the standing to do the work by the time the submission commits.    *)
SubmitterHoldsWork ==
    [][\A i \in DOMAIN insps : insps[i].state = "open" /\ insps'[i].state # "open"
          => ~BindsOthers(insps[i].assignee, insps'[i].by)]_vars

(* No step releases a blocked activity while a dispute over its crew is    *)
(* unresolved after it.                                                    *)
LabourStillHeld ==
    [][\A a \in Activities : work[a].status = "blocked" /\ work'[a].status # "blocked" => disputes'[a] = 0]_vars

(* Work is done by the approval of the closing inspection of its latest    *)
(* claim.                                                                  *)
SignedOffByItsClaim ==
    \A a \in Activities : work[a].status = "done" =>
        insps[Max({i \in InspectionsOf(a) : insps[i].closing})].state = "approved"
==============================================================================

----------------------------- MODULE Decisions -----------------------------
(* A project's decisions and the people who hold them: a decision is       *)
(* issued to a holder (a role, or a named member), approved, reopened and  *)
(* re-approved, and while the project has an architect every approval      *)
(* waits for the architect's countersign.  Members come, change role and   *)
(* leave under the same decisions, and a sign-in can retire an account.    *)
(*                                                                         *)
(* Every command commits under the project's readiness lock and judges     *)
(* again what it read before, so each is one action; only an approval      *)
(* rests on an earlier read of which the commit compares no more than the  *)
(* status, the holder and the standing.  Options, costs, consultations,    *)
(* records (decisions that ask nothing) and the author of a draft are left *)
(* out.  ChainOpen is the rollout register of the architect's role.        *)
EXTENDS Integers, Sequences, FiniteSets, SequencesExt

CONSTANTS
    Users, Subjects,
    OrgAdmins,      \* owners and admins of the owning company: pmc where they hold no seat
    ChainOpen,
    MaxRevisions, MaxRequests, MaxReads, MaxRetired

RoleKinds == {"client", "pmc", "architect"}
MemberRoles == RoleKinds \cup {"engineer"}

ASSUME DecisionsAssumption ==
    /\ OrgAdmins \subseteq Users /\ ChainOpen \in BOOLEAN
    /\ Users \cap MemberRoles = {}
    /\ {MaxRevisions, MaxRequests, MaxReads, MaxRetired} \subseteq Nat

VARIABLES
    seat,       \* a person's active membership: its role, or "none"
    retired,    \* accounts nobody can sign in as any more
    status,     \* decision -> where it stands
    holder,     \* decision -> the role, or the member, it waits for
    revs,       \* decision -> its approval revisions: how each became final, if it did
    requests,   \* decision -> its change requests, in order
    reads       \* approvals read and not yet committed

decisionVars == <<seat, retired, status, holder, revs, requests, reads>>

Open == {"pending", "change"}
Unapproved == {"none", "draft", "pending", "withdrawn"}
DecisionStatuses == Unapproved \cup {"awaiting", "approved", "change"}
Designations == RoleKinds \cup Users
Final == {"direct", "countersigned", "completed"}
Requests == [origin: {"standard", "rejection"}, revision: Nat, by: Users,
             state: {"open", "withdrawn", "reapproved"}]

DecisionTypeOK ==
    /\ seat \in [Users -> MemberRoles \cup {"none"}]
    /\ retired \subseteq Users
    /\ status \in [Subjects -> DecisionStatuses]
    /\ holder \in [Subjects -> Designations]
    /\ revs \in [Subjects -> Seq(Final \cup {"provisional"})]
    /\ requests \in [Subjects -> Seq(Requests)]
    /\ reads \subseteq [by: Users, role: MemberRoles, subject: Subjects, prior: Open, holder: Designations]

DecisionInit ==
    /\ seat \in [Users -> {"none"}] /\ retired = {}
    /\ status = [d \in Subjects |-> "none"] /\ holder = [d \in Subjects |-> "pmc"]
    /\ revs = [d \in Subjects |-> <<>>] /\ requests = [d \in Subjects |-> <<>>]
    /\ reads = {}

------------------------------------------------------------------------------
(* Standing.  It is a function of the seats, so that a command may judge    *)
(* the seats it is about to write.                                          *)

\* An active membership decides; without one, an org admin acts as pmc.
RoleIn(s, p) == IF s[p] = "none" /\ p \in OrgAdmins THEN "pmc" ELSE s[p]

HoldersIn(s, r) == {p \in Users : RoleIn(s, p) = r}
LiveIn(s, r) == HoldersIn(s, r) \ retired

RoleOf(p) == RoleIn(seat, p)
ChainActive == HoldersIn(seat, "architect") # {}

CanAct(p, roles) == p \notin retired /\ RoleOf(p) \in roles

Present(h) == IF h \in Users THEN seat[h] # "none" ELSE HoldersIn(seat, h) # {}
Live(h) == IF h \in Users THEN seat[h] # "none" /\ h \notin retired ELSE LiveIn(seat, h) # {}

\* Who may be handed an open question.  The architect is counted raw here.
MayHold(h) == IF h = "architect" THEN Present(h) ELSE Live(h)

\* A rejection that names no new holder only asks that the old one is not retired.
Retained(h) == IF h \in Users THEN h \notin retired ELSE Present(h) => Live(h)

------------------------------------------------------------------------------
(* Drafts.                                                                  *)

Nameable(h) == (h \in Users => Present(h)) /\ (h = "architect" => ChainOpen)

CreateDecision(p, d, h, publish) ==
    /\ CanAct(p, {"pmc"}) /\ status[d] = "none" /\ Nameable(h)
    /\ publish => MayHold(h)
    /\ status' = [status EXCEPT ![d] = IF publish THEN "pending" ELSE "draft"]
    /\ holder' = [holder EXCEPT ![d] = h]
    /\ UNCHANGED <<seat, retired, revs, requests, reads>>

UpdateDraft(d, h) ==
    /\ status[d] = "draft" /\ Nameable(h)
    /\ holder' = [holder EXCEPT ![d] = h]
    /\ UNCHANGED <<seat, retired, status, revs, requests, reads>>

Publish(p, d) ==
    /\ CanAct(p, {"pmc"}) /\ status[d] = "draft" /\ MayHold(holder[d])
    /\ status' = [status EXCEPT ![d] = "pending"]
    /\ UNCHANGED <<seat, retired, holder, revs, requests, reads>>

\* Only an active member can withdraw, and only what was never approved.
Withdraw(p, d) ==
    /\ CanAct(p, {"pmc"}) /\ seat[p] # "none"
    /\ status[d] = "pending" /\ revs[d] = <<>>
    /\ status' = [status EXCEPT ![d] = "withdrawn"]
    /\ UNCHANGED <<seat, retired, holder, revs, requests, reads>>

------------------------------------------------------------------------------
(* Approval.                                                                *)

OpenRequests(d) == {i \in DOMAIN requests[d] : requests[d][i].state = "open"}

Closed(q, how) == [i \in DOMAIN q |-> IF q[i].state = "open" THEN [q[i] EXCEPT !.state = how] ELSE q[i]]

ReadForApproval(p, d) ==
    /\ CanAct(p, MemberRoles) /\ status[d] \in Open
    /\ holder[d] \in {p, RoleOf(p)} \/ RoleOf(p) = "pmc"
    /\ Cardinality(reads) < MaxReads
    /\ reads' = reads \cup {[by |-> p, role |-> RoleOf(p), subject |-> d, prior |-> status[d], holder |-> holder[d]]}
    /\ UNCHANGED <<seat, retired, status, holder, revs, requests>>

\* Variant: the caller's role is trusted as it was read.
StandsAsRead(c) == c.holder \in Users => Present(c.holder)

\* The caller's role still stands, and a named holder is still a member.
StillStands(c) == RoleOf(c.by) = c.role /\ (c.holder \in Users => Present(c.holder))

Unmoved(c) == status[c.subject] = c.prior /\ holder[c.subject] = c.holder

ApproveDecision(c) ==
    LET d == c.subject IN
    /\ StillStands(c) /\ Unmoved(c) /\ Len(revs[d]) < MaxRevisions
    /\ c.prior = "change" => Cardinality(OpenRequests(d)) = 1
    /\ status' = [status EXCEPT ![d] = IF ChainActive THEN "awaiting" ELSE "approved"]
    /\ revs' = [revs EXCEPT ![d] = Append(@, IF ChainActive THEN "provisional" ELSE "direct")]
    /\ requests' = [requests EXCEPT ![d] = IF c.prior = "change" THEN Closed(@, "reapproved") ELSE @]
    /\ reads' = reads \ {c}
    /\ UNCHANGED <<seat, retired, holder>>

\* A commit that finds anything moved is refused, and a process may die.
Refuse(c) == reads' = reads \ {c} /\ UNCHANGED <<seat, retired, status, holder, revs, requests>>

------------------------------------------------------------------------------
(* The holder moves.                                                        *)

MayForward(p, d) == holder[d] \in {p, RoleOf(p)} \/ RoleOf(p) \in {"pmc", "architect"}

Forward(p, d, h) ==
    /\ ChainOpen /\ CanAct(p, MemberRoles) /\ status[d] \in Open
    /\ MayForward(p, d) /\ (holder[d] \in Users => Present(holder[d]))
    /\ h # holder[d] /\ Live(h)
    /\ holder' = [holder EXCEPT ![d] = h]
    /\ UNCHANGED <<seat, retired, status, revs, requests, reads>>

------------------------------------------------------------------------------
(* The countersign and its absence.                                         *)

\* The open provisional approval: the highest revision, not yet final.
ProvisionalHead(d) == status[d] = "awaiting" /\ revs[d] # <<>> /\ Last(revs[d]) = "provisional"

Finalize(d, how) ==
    /\ revs' = [revs EXCEPT ![d][Len(revs[d])] = how]
    /\ status' = [status EXCEPT ![d] = "approved"]
    /\ UNCHANGED <<seat, retired, holder, requests, reads>>

Countersign(p, d) == CanAct(p, {"architect"}) /\ ProvisionalHead(d) /\ Finalize(d, "countersigned")

NewRequest(origin, revision, p) == [origin |-> origin, revision |-> revision, by |-> p, state |-> "open"]

\* Back to its holder, or on to a live one; the request names what it rejects.
RejectApproval(p, d, h) ==
    /\ ProvisionalHead(d) /\ Len(requests[d]) < MaxRequests
    /\ IF h = holder[d] THEN Retained(h) ELSE Live(h)
    /\ status' = [status EXCEPT ![d] = "change"]
    /\ holder' = [holder EXCEPT ![d] = h]
    /\ requests' = [requests EXCEPT ![d] = Append(@, NewRequest("rejection", Len(revs[d]), p))]
    /\ UNCHANGED <<seat, retired, revs, reads>>

Disagree(p, d, h) == CanAct(p, {"architect"}) /\ RejectApproval(p, d, h)

\* Variant: the pmc settles it whether or not an architect is left.
ResolveAnyTime(p, d) == CanAct(p, {"pmc"}) /\ ProvisionalHead(d) /\ Finalize(d, "completed")

\* The pmc settles what no architect is left to countersign.
ResolveCompleted(p, d) ==
    CanAct(p, {"pmc"}) /\ ~ChainActive /\ ProvisionalHead(d) /\ Finalize(d, "completed")

ResolveReturned(p, d, h) ==
    /\ CanAct(p, {"pmc"}) /\ ~ChainActive
    /\ h = holder[d] => Live(h)
    /\ RejectApproval(p, d, h)

------------------------------------------------------------------------------
(* Reopening.                                                               *)

RequestChange(p, d) ==
    /\ CanAct(p, {"pmc", "client"}) /\ status[d] = "approved"
    /\ MayHold(holder[d])
    /\ OpenRequests(d) = {} /\ Len(requests[d]) < MaxRequests
    /\ status' = [status EXCEPT ![d] = "change"]
    /\ requests' = [requests EXCEPT ![d] = Append(@, NewRequest("standard", 0, p))]
    /\ UNCHANGED <<seat, retired, holder, revs, reads>>

\* Variant: the reopening made by a rejection is withdrawn like any request.
WithdrawableAny(p, r) == r.state = "open" /\ (RoleOf(p) = "pmc" \/ r.by = p)

Withdrawable(p, r) == r.state = "open" /\ r.origin = "standard" /\ (RoleOf(p) = "pmc" \/ r.by = p)

WithdrawChange(p, d) ==
    /\ CanAct(p, MemberRoles) /\ status[d] = "change"
    /\ \E i \in DOMAIN requests[d] :
          /\ Withdrawable(p, requests[d][i])
          /\ requests' = [requests EXCEPT ![d][i].state = "withdrawn"]
    /\ status' = [status EXCEPT ![d] = "approved"]
    /\ UNCHANGED <<seat, retired, holder, revs, reads>>

------------------------------------------------------------------------------
(* The team.  Every command judges the seats it leaves.                     *)

CanManage(p) == p \notin retired /\ (RoleOf(p) = "pmc" \/ p \in OrgAdmins)

Awaiting(h) == \E d \in Subjects : status[d] = "awaiting" /\ holder[d] = h
Asked(h) == \E d \in Subjects : status[d] \in Open /\ holder[d] = h

\* No open decision loses its last live holder, and none that awaits a
\* countersign does, but for the last architect's departure.
KeepsHolders(s, lost) ==
    Asked(lost) \/ (Awaiting(lost) /\ lost # "architect") => LiveIn(s, lost) # {}

KeepsNamed(s, p) ==
    Awaiting(p) => seat[p] = "architect" /\ HoldersIn(s, "architect") = {}

Reserved(r) == r = "architect" /\ ~ChainOpen

\* Variant: the re-seated org admin is not looked at.
DisplacedNone(p, r) == {}

\* An org admin who is seated in another role stops acting as pmc.
Displaced(p, r) == IF p \in OrgAdmins /\ r # "pmc" THEN {"pmc"} ELSE {}

AddMember(p, r) ==
    /\ \E q \in Users : CanManage(q)
    /\ seat[p] = "none" /\ p \notin retired /\ ~Reserved(r)
    /\ LET s == [seat EXCEPT ![p] = r]
       IN  (\A lost \in Displaced(p, r) : KeepsHolders(s, lost)) /\ seat' = s
    /\ UNCHANGED <<retired, status, holder, revs, requests, reads>>

UpdateRole(p, r) ==
    /\ \E q \in Users : CanManage(q)
    /\ seat[p] \notin {"none", r} /\ ~Reserved(r)
    /\ LET s == [seat EXCEPT ![p] = r]
       IN  KeepsHolders(s, seat[p]) /\ KeepsNamed(s, p) /\ seat' = s
    /\ UNCHANGED <<retired, status, holder, revs, requests, reads>>

RemoveMember(p) ==
    /\ \E q \in Users \ {p} : CanManage(q)
    /\ seat[p] # "none" /\ ~Asked(p)
    /\ LET s == [seat EXCEPT ![p] = "none"]
       IN  KeepsHolders(s, seat[p]) /\ KeepsNamed(s, p) /\ seat' = s
    /\ UNCHANGED <<retired, status, holder, revs, requests, reads>>

\* A person's first sign-in with a new identity; it takes no project's lock.
Retire(p) ==
    /\ Cardinality(retired) < MaxRetired /\ retired' = retired \cup {p} /\ p \notin retired
    /\ UNCHANGED <<seat, status, holder, revs, requests, reads>>

------------------------------------------------------------------------------

ActBy(p, d) ==
    \/ \E h \in Designations, publish \in BOOLEAN : CreateDecision(p, d, h, publish)
    \/ Publish(p, d) \/ Withdraw(p, d) \/ ReadForApproval(p, d)
    \/ \E h \in Designations : Forward(p, d, h) \/ Disagree(p, d, h) \/ ResolveReturned(p, d, h)
    \/ Countersign(p, d) \/ ResolveCompleted(p, d)
    \/ RequestChange(p, d) \/ WithdrawChange(p, d)

TeamStep ==
    \/ \E p \in Users, r \in MemberRoles : AddMember(p, r) \/ UpdateRole(p, r)
    \/ \E p \in Users : RemoveMember(p)

DecisionNext ==
    \/ \E p \in Users, d \in Subjects : ActBy(p, d)
    \/ \E d \in Subjects, h \in Designations : UpdateDraft(d, h)
    \/ \E c \in reads : ApproveDecision(c) \/ Refuse(c)
    \/ TeamStep
    \/ \E p \in Users : Retire(p)

DecisionSpec == DecisionInit /\ [][DecisionNext]_decisionVars

------------------------------------------------------------------------------
(* Properties.                                                              *)

\* An approved decision's latest approval is final: what an architect has
\* rejected is not locked again by withdrawing the rejection.
ApprovedIsFinal ==
    \A d \in Subjects :
        /\ status[d] \in Unapproved => revs[d] = <<>>
        /\ status[d] = "approved" => revs[d] # <<>> /\ Last(revs[d]) \in Final

\* At most one approval is open, the head that a countersign or a resolution
\* can still act on: every other one is final or named by its rejection.
OneOpenApproval ==
    \A d \in Subjects : \A i \in DOMAIN revs[d] :
        revs[d][i] = "provisional" =>
            \/ i = Len(revs[d]) /\ status[d] = "awaiting"
            \/ \E j \in DOMAIN requests[d] : requests[d][j].revision = i

\* A decision is reopened by exactly one request, and no request outlives
\* the reopening it stands for.
ReopenedByOne ==
    \A d \in Subjects :
        /\ status[d] = "change" <=> OpenRequests(d) # {}
        /\ \A i, j \in OpenRequests(d) : i = j

\* The register is coherent: an approved decision is final, and a decision has
\* one open approval or one open request at most.
RegisterIsCoherent == DecisionTypeOK /\ ApprovedIsFinal /\ OneOpenApproval /\ ReopenedByOne

\* Whether the decision has someone to act on it, as the seals count.
Held(d) == MayHold(holder[d])

\* Only a retirement, or the last architect's departure while a countersign
\* is awaited, takes the last holder of a decision that waits for one.
HoldersKept ==
    [][\A d \in Subjects :
          status'[d] \in Open \cup {"awaiting"} /\ ~Held(d)' =>
              \/ retired' # retired
              \/ status[d] \in Open \cup {"awaiting"} /\ ~Held(d)
              \/ status[d] = "awaiting" /\ ChainActive /\ ~ChainActive']_decisionVars

\* An approval enters the register by the authority of the moment it commits:
\* the holder's, or the pmc's for the holder, whatever the caller's token said.
DecidedByAuthority ==
    [][\A d \in Subjects :
          Len(revs'[d]) > Len(revs[d]) =>
              \E c \in reads \ reads' :
                  /\ c.subject = d
                  /\ \/ RoleOf(c.by) \in {"pmc", holder[d]}
                     \/ c.by = holder[d] /\ seat[c.by] # "none"]_decisionVars

\* While the project has an architect a decision is locked by the architect's
\* countersign, or goes back to an approval that was final before.
NoneAroundTheArchitect ==
    [][\A d \in Subjects :
          status[d] # "approved" /\ status'[d] = "approved" /\ ChainActive =>
              revs'[d] = revs[d] \/ Last(revs'[d]) = "countersigned"]_decisionVars

\* What a `change` decision's commit is said to be judged by: its designation
\* has an active holder.
OpenIsHeld == \A d \in Subjects : status[d] \in Open => Present(holder[d])

==============================================================================

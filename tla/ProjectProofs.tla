---------------------------- MODULE ProjectProofs ---------------------------
(***************************************************************************)
(* What a project keeps about its decisions and about the work on site,    *)
(* for any number of people, decisions, activities, inspections, logs and  *)
(* disputes.  The two halves are separate components: nothing of the one   *)
(* is used in the other.                                                   *)
(***************************************************************************)
EXTENDS Decisions, SiteWork, SequenceTheorems, FiniteSetTheorems, TLAPS

------------------------------------------------------------------------------
(* The register of decisions.  An approved decision is final, one approval *)
(* is open at a time and one request at a time.  The holder and the team   *)
(* play no part in that: the invariant is about one decision's status,     *)
(* approvals and requests, and each of its moves is a lemma about those    *)
(* three alone.                                                            *)

Kinds == Final \cup {"provisional"}

OpenIn(q) == {i \in DOMAIN q : q[i].state = "open"}

Sound(st, rv, rq) ==
    /\ st \in Unapproved => rv = <<>>
    /\ st \in {"approved", "awaiting"} => rv # <<>>
    /\ st = "approved" => Last(rv) \in Final
    /\ st = "awaiting" => Last(rv) = "provisional"
    /\ \A i \in DOMAIN rv :
          rv[i] = "provisional" =>
              (i = Len(rv) /\ st = "awaiting") \/ \E j \in DOMAIN rq : rq[j].revision = i
    /\ st = "change" <=> OpenIn(rq) # {}
    /\ \A i, j \in OpenIn(rq) : i = j
    \* what withdrawing a request would lock again was final before it
    /\ \A i \in OpenIn(rq) : rq[i].origin = "standard" => rv # <<>> /\ Last(rv) \in Final

Shaped ==
    /\ status \in [Subjects -> DecisionStatuses]
    /\ revs \in [Subjects -> Seq(Kinds)]
    /\ requests \in [Subjects -> Seq(Requests)]
    /\ \A c \in reads : c.subject \in Subjects /\ c.prior \in Open

DecisionInv == Shaped /\ \A d \in Subjects : Sound(status[d], revs[d], requests[d])

------------------------------------------------------------------------------
(* The moves of one decision.                                               *)

LEMMA ClosedShape ==
    ASSUME NEW q \in Seq(Requests), NEW how \in {"withdrawn", "reapproved"}
    PROVE  /\ Closed(q, how) \in Seq(Requests)
           /\ DOMAIN Closed(q, how) = DOMAIN q
           /\ OpenIn(Closed(q, how)) = {}
           /\ \A i \in DOMAIN q : Closed(q, how)[i].revision = q[i].revision
  <1>1. Len(q) \in Nat /\ DOMAIN q = 1..Len(q) /\ \A i \in 1..Len(q) : q[i] \in Requests
    BY LenProperties, ElementOfSeq
  <1>2. \A i \in DOMAIN q : /\ Closed(q, how)[i] \in Requests
                            /\ Closed(q, how)[i].state # "open"
                            /\ Closed(q, how)[i].revision = q[i].revision
    BY <1>1 DEF Closed, Requests
  <1>3. DOMAIN Closed(q, how) = DOMAIN q
    BY DEF Closed
  <1>4. Closed(q, how) \in [1..Len(q) -> Requests]
    BY <1>1, <1>2 DEF Closed
  <1>5. Closed(q, how) \in Seq(Requests)
    BY <1>1, <1>4, SeqDef
  <1> QED BY <1>2, <1>3, <1>5 DEF OpenIn

\* An approval adds a revision; the reopening it answers is over.
LEMMA ApproveSound ==
    ASSUME NEW st \in Open, NEW rv \in Seq(Kinds), NEW rq \in Seq(Requests), Sound(st, rv, rq),
           NEW chain \in BOOLEAN
    PROVE  Sound(IF chain THEN "awaiting" ELSE "approved",
                 Append(rv, IF chain THEN "provisional" ELSE "direct"),
                 IF st = "change" THEN Closed(rq, "reapproved") ELSE rq)
  <1> DEFINE kind == IF chain THEN "provisional" ELSE "direct"
             st2 == IF chain THEN "awaiting" ELSE "approved"
             rv2 == Append(rv, kind)
             rq2 == IF st = "change" THEN Closed(rq, "reapproved") ELSE rq
  <1>1. kind \in Kinds
    BY DEF Kinds, Final
  <1>2. /\ rv2 # <<>> /\ Len(rv) \in Nat /\ Len(rv2) = Len(rv) + 1 /\ rv2 \in Seq(Kinds)
        /\ \A i \in 1..Len(rv) : rv2[i] = rv[i]
        /\ rv2[Len(rv) + 1] = kind
    BY <1>1, AppendProperties, LenProperties
  <1>3. DOMAIN rv = 1..Len(rv) /\ DOMAIN rv2 = 1..(Len(rv) + 1)
    BY <1>2, LenProperties
  <1>4. Last(rv2) = kind
    BY <1>2 DEF Last
  <1>5. OpenIn(rq2) = {} /\ DOMAIN rq2 = DOMAIN rq /\ \A j \in DOMAIN rq : rq2[j].revision = rq[j].revision
    BY ClosedShape DEF Sound, Open
  <1>6. ASSUME NEW i \in DOMAIN rv2, rv2[i] = "provisional"
        PROVE  (i = Len(rv2) /\ st2 = "awaiting") \/ \E j \in DOMAIN rq2 : rq2[j].revision = i
    <2>1. CASE i = Len(rv) + 1
      BY <2>1, <1>2, <1>6
    <2>2. CASE i \in 1..Len(rv)
      <3>1. rv[i] = "provisional" /\ i \in DOMAIN rv
        BY <2>2, <1>2, <1>3, <1>6
      <3>2. \E j \in DOMAIN rq : rq[j].revision = i
        BY <3>1 DEF Sound, Open
      <3> QED BY <3>2, <1>5
    <2> QED BY <2>1, <2>2, <1>2, <1>3, <1>6
  <1>7. /\ st2 \notin Unapproved /\ st2 # "change"
        /\ st2 = "approved" => kind \in Final
        /\ st2 = "awaiting" => kind = "provisional"
    BY DEF Unapproved, Final
  <1> HIDE DEF kind, st2, rv2, rq2
  <1>8. Sound(st2, rv2, rq2)
    BY <1>2, <1>4, <1>5, <1>6, <1>7 DEF Sound
  <1> QED BY <1>8 DEF kind, st2, rv2, rq2

\* A countersign or a resolution makes the open approval final.
LEMMA FinalizeSound ==
    ASSUME NEW rv \in Seq(Kinds), NEW rq, Sound("awaiting", rv, rq), NEW how \in Final
    PROVE  Sound("approved", [rv EXCEPT ![Len(rv)] = how], rq) /\ [rv EXCEPT ![Len(rv)] = how] \in Seq(Kinds)
  <1> DEFINE rv2 == [rv EXCEPT ![Len(rv)] = how]
  <1>1. rv # <<>> /\ Len(rv) \in 1..Len(rv) /\ how \in Kinds
    BY EmptySeq DEF Sound, Kinds
  <1>2. /\ rv2 \in Seq(Kinds) /\ Len(rv2) = Len(rv)
        /\ \A j \in 1..Len(rv) : rv2[j] = IF j = Len(rv) THEN how ELSE rv[j]
    BY <1>1, ExceptSeq
  <1>3. DOMAIN rv = 1..Len(rv) /\ DOMAIN rv2 = 1..Len(rv)
    BY <1>2, LenProperties
  <1>4. Last(rv2) = how /\ rv2 # <<>>
    BY <1>1, <1>2, EmptySeq DEF Last
  <1>5. how # "provisional"
    BY DEF Final
  <1>6. \A i \in DOMAIN rv2 : rv2[i] = "provisional" => \E j \in DOMAIN rq : rq[j].revision = i
    BY <1>2, <1>3, <1>5 DEF Sound
  <1>7. OpenIn(rq) = {}
    BY DEF Sound
  <1> HIDE DEF rv2
  <1>8. Sound("approved", rv2, rq)
    BY <1>4, <1>6, <1>7 DEF Sound, Unapproved
  <1> QED BY <1>2, <1>8 DEF rv2

\* A request is added where none is open: a rejection that names the approval,
\* or one that reopens what is approved.
LEMMA ReopenSound ==
    ASSUME NEW st \in {"awaiting", "approved"}, NEW rv \in Seq(Kinds), NEW rq \in Seq(Requests), Sound(st, rv, rq),
           NEW r \in Requests, r.state = "open",
           st = "awaiting" => r.origin = "rejection" /\ r.revision = Len(rv)
    PROVE  Sound("change", rv, Append(rq, r)) /\ Append(rq, r) \in Seq(Requests)
  <1> DEFINE rq2 == Append(rq, r)
  <1>1. /\ rq2 \in Seq(Requests) /\ Len(rq) \in Nat /\ Len(rq2) = Len(rq) + 1
        /\ \A i \in 1..Len(rq) : rq2[i] = rq[i]
        /\ rq2[Len(rq) + 1] = r
    BY AppendProperties, LenProperties
  <1>2. DOMAIN rq = 1..Len(rq) /\ DOMAIN rq2 = 1..(Len(rq) + 1)
    BY <1>1, LenProperties
  <1>3. OpenIn(rq) = {}
    BY DEF Sound
  <1>4. OpenIn(rq2) = {Len(rq) + 1}
    BY <1>1, <1>2, <1>3 DEF OpenIn
  <1>5. ASSUME NEW i \in DOMAIN rv, rv[i] = "provisional"
        PROVE  \E j \in DOMAIN rq2 : rq2[j].revision = i
    <2>1. CASE i = Len(rv) /\ st = "awaiting"
      BY <2>1, <1>1, <1>2
    <2>2. CASE \E j \in DOMAIN rq : rq[j].revision = i
      BY <2>2, <1>1, <1>2
    <2> QED BY <2>1, <2>2, <1>5 DEF Sound
  <1>6. rv # <<>> /\ (r.origin = "standard" => Last(rv) \in Final)
    BY DEF Sound, Requests
  <1>7. \A i \in OpenIn(rq2) : rq2[i].origin = "standard" => rv # <<>> /\ Last(rv) \in Final
    BY <1>1, <1>4, <1>6
  <1> HIDE DEF rq2
  <1>8. Sound("change", rv, rq2)
    BY <1>4, <1>5, <1>7 DEF Sound, Unapproved
  <1> QED BY <1>1, <1>8 DEF rq2

\* Withdrawing the open request, one that rejects nothing, locks the decision again.
LEMMA WithdrawSound ==
    ASSUME NEW rv \in Seq(Kinds), NEW rq \in Seq(Requests), Sound("change", rv, rq),
           NEW i \in DOMAIN rq, rq[i].state = "open", rq[i].origin = "standard"
    PROVE  /\ Sound("approved", rv, [rq EXCEPT ![i].state = "withdrawn"])
           /\ [rq EXCEPT ![i].state = "withdrawn"] \in Seq(Requests)
  <1> DEFINE r == [rq[i] EXCEPT !.state = "withdrawn"]
             rq2 == [rq EXCEPT ![i] = r]
  <1>1. DOMAIN rq = 1..Len(rq) /\ rq[i] \in Requests
    BY LenProperties, ElementOfSeq
  <1>2. r \in Requests /\ r.revision = rq[i].revision /\ r.state = "withdrawn"
    BY <1>1 DEF Requests
  <1>3. /\ rq2 \in Seq(Requests) /\ Len(rq2) = Len(rq)
        /\ \A j \in 1..Len(rq) : rq2[j] = IF j = i THEN r ELSE rq[j]
    BY <1>1, <1>2, ExceptSeq
  <1>4. DOMAIN rq2 = DOMAIN rq /\ \A j \in DOMAIN rq : rq2[j].revision = rq[j].revision
    BY <1>1, <1>2, <1>3, LenProperties
  <1>5. \A j \in OpenIn(rq) : j = i
    BY DEF Sound, OpenIn
  <1>6. OpenIn(rq2) = {}
    BY <1>1, <1>2, <1>3, <1>4, <1>5 DEF OpenIn
  <1>7. rv # <<>> /\ Last(rv) \in Final
    BY DEF Sound, OpenIn
  <1>8. \A j \in DOMAIN rv : rv[j] = "provisional" => \E k \in DOMAIN rq2 : rq2[k].revision = j
    BY <1>4 DEF Sound
  <1> HIDE DEF rq2
  <1>9. Sound("approved", rv, rq2)
    BY <1>6, <1>7, <1>8 DEF Sound, Unapproved
  <1> QED BY <1>3, <1>9 DEF rq2

------------------------------------------------------------------------------
(* The steps.                                                               *)

LEMMA DecisionInitHolds == DecisionInit => DecisionInv
  <1> SUFFICES ASSUME DecisionInit PROVE DecisionInv
    OBVIOUS
  <1>1. <<>> \in Seq(Kinds) /\ <<>> \in Seq(Requests) /\ DOMAIN <<>> = {}
    BY EmptySeq, LenProperties
  <1>2. Shaped
    BY <1>1 DEF DecisionInit, Shaped, DecisionStatuses, Unapproved
  <1>3. \A d \in Subjects : status[d] = "none" /\ revs[d] = <<>> /\ requests[d] = <<>>
    BY DEF DecisionInit
  <1>4. Sound("none", <<>>, <<>>)
    BY <1>1 DEF Sound, OpenIn
  <1> QED BY <1>2, <1>3, <1>4 DEF DecisionInv

\* A step that moves one decision soundly keeps the invariant.
LEMMA OneMoves ==
    ASSUME DecisionInv, NEW d \in Subjects,
           NEW st \in DecisionStatuses, NEW rv \in Seq(Kinds), NEW rq \in Seq(Requests), Sound(st, rv, rq),
           status' = [status EXCEPT ![d] = st],
           revs' = [revs EXCEPT ![d] = rv],
           requests' = [requests EXCEPT ![d] = rq],
           \A c \in reads' : c.subject \in Subjects /\ c.prior \in Open
    PROVE  DecisionInv'
  <1>1. Shaped'
    BY DEF DecisionInv, Shaped
  <1>2. ASSUME NEW e \in Subjects PROVE Sound(status'[e], revs'[e], requests'[e])
    <2>1. CASE e = d
      <3>1. status'[e] = st /\ revs'[e] = rv /\ requests'[e] = rq
        BY <2>1 DEF DecisionInv, Shaped
      <3> QED BY <3>1
    <2>2. CASE e # d
      <3>1. status'[e] = status[e] /\ revs'[e] = revs[e] /\ requests'[e] = requests[e]
        BY <2>2 DEF DecisionInv, Shaped
      <3> QED BY <3>1 DEF DecisionInv
    <2> QED BY <2>1, <2>2
  <1>3. (\A e \in Subjects : Sound(status[e], revs[e], requests[e]))'
    BY <1>2
  <1> QED BY <1>1, <1>3 DEF DecisionInv

LEMMA Typed ==
    ASSUME DecisionInv, NEW d \in Subjects
    PROVE  /\ status[d] \in DecisionStatuses /\ revs[d] \in Seq(Kinds) /\ requests[d] \in Seq(Requests)
           /\ Sound(status[d], revs[d], requests[d])
           /\ revs = [revs EXCEPT ![d] = revs[d]] /\ requests = [requests EXCEPT ![d] = requests[d]]
           /\ \A c \in reads : c.subject \in Subjects /\ c.prior \in Open
  BY DEF DecisionInv, Shaped

\* No approval yet: a draft, an issue or its withdrawal changes the status alone.
LEMMA UnapprovedMoves ==
    ASSUME DecisionInv, NEW d \in Subjects, status[d] \in Unapproved, NEW st \in Unapproved,
           status' = [status EXCEPT ![d] = st], UNCHANGED <<revs, requests, reads>>
    PROVE  DecisionInv'
  <1>1. Sound(st, revs[d], requests[d])
    BY Typed DEF Sound, Unapproved
  <1>2. st \in DecisionStatuses
    BY DEF DecisionStatuses
  <1> QED BY <1>1, <1>2, Typed, OneMoves

LEMMA ApproveStep ==
    ASSUME DecisionInv, NEW c \in reads, ApproveDecision(c)
    PROVE  DecisionInv'
  <1> DEFINE d == c.subject
             st == IF ChainActive THEN "awaiting" ELSE "approved"
             rv == Append(revs[d], IF ChainActive THEN "provisional" ELSE "direct")
             rq == IF status[d] = "change" THEN Closed(requests[d], "reapproved") ELSE requests[d]
  <1>1. d \in Subjects /\ c.prior = status[d] /\ status[d] \in Open
    BY Typed DEF ApproveDecision, Unmoved, DecisionInv, Shaped
  <1>2. ChainActive \in BOOLEAN
    BY DEF ChainActive
  <1>3. Sound(st, rv, rq)
    BY <1>1, <1>2, Typed, ApproveSound
  <1>4. st \in DecisionStatuses /\ (IF ChainActive THEN "provisional" ELSE "direct") \in Kinds
    BY DEF DecisionStatuses, Kinds, Final
  <1>5. rv \in Seq(Kinds)
    BY <1>1, <1>4, Typed, AppendProperties
  <1>6. rq \in Seq(Requests)
    BY <1>1, Typed, ClosedShape
  <1>7. /\ status' = [status EXCEPT ![d] = st]
        /\ revs' = [revs EXCEPT ![d] = rv]
        /\ requests' = [requests EXCEPT ![d] = rq]
        /\ \A x \in reads' : x \in reads
    BY <1>1 DEF ApproveDecision
  <1> HIDE DEF st, rv, rq
  <1> QED BY <1>1, <1>3, <1>4, <1>5, <1>6, <1>7, Typed, OneMoves DEF st

LEMMA FinalizeStep ==
    ASSUME DecisionInv, NEW d \in Subjects, NEW how \in Final, status[d] = "awaiting", Finalize(d, how)
    PROVE  DecisionInv'
  <1> DEFINE rv == [revs[d] EXCEPT ![Len(revs[d])] = how]
  <1>1. Sound("approved", rv, requests[d]) /\ rv \in Seq(Kinds)
    BY Typed, FinalizeSound
  <1>2. revs' = [revs EXCEPT ![d] = rv]
    BY DEF Finalize
  <1>3. "approved" \in DecisionStatuses
    BY DEF DecisionStatuses
  <1>4. status' = [status EXCEPT ![d] = "approved"] /\ UNCHANGED <<requests, reads>>
    BY DEF Finalize
  <1> HIDE DEF rv
  <1> QED BY <1>1, <1>2, <1>3, <1>4, Typed, OneMoves

\* A rejection, and a request for a change.
LEMMA ReopenStep ==
    ASSUME DecisionInv, NEW d \in Subjects, NEW origin \in {"standard", "rejection"}, NEW n \in Nat, NEW p \in Users,
           IF origin = "rejection" THEN status[d] = "awaiting" /\ n = Len(revs[d]) ELSE status[d] = "approved",
           status' = [status EXCEPT ![d] = "change"],
           requests' = [requests EXCEPT ![d] = Append(@, NewRequest(origin, n, p))],
           UNCHANGED <<revs, reads>>
    PROVE  DecisionInv'
  <1> DEFINE r == NewRequest(origin, n, p)
             rq == Append(requests[d], r)
  <1>1. r \in Requests /\ r.state = "open" /\ r.origin = origin /\ r.revision = n
    BY DEF NewRequest, Requests
  <1> HIDE DEF r
  <1>2. Sound("change", revs[d], rq) /\ rq \in Seq(Requests)
    <2>1. CASE origin = "rejection"
      BY <2>1, <1>1, Typed, ReopenSound
    <2>2. CASE origin = "standard"
      BY <2>2, <1>1, Typed, ReopenSound
    <2> QED BY <2>1, <2>2
  <1>3. requests' = [requests EXCEPT ![d] = rq]
    BY DEF Shaped, DecisionInv, r
  <1>4. "change" \in DecisionStatuses
    BY DEF DecisionStatuses
  <1> HIDE DEF rq
  <1> QED BY <1>2, <1>3, <1>4, Typed, OneMoves

LEMMA WithdrawChangeStep ==
    ASSUME DecisionInv, NEW d \in Subjects, NEW p \in Users, WithdrawChange(p, d)
    PROVE  DecisionInv'
  <1>1. PICK i \in DOMAIN requests[d] :
            Withdrawable(p, requests[d][i]) /\ requests' = [requests EXCEPT ![d][i].state = "withdrawn"]
    BY DEF WithdrawChange
  <1> DEFINE rq == [requests[d] EXCEPT ![i].state = "withdrawn"]
  <1>2. requests[d][i].state = "open" /\ requests[d][i].origin = "standard"
    BY <1>1 DEF Withdrawable
  <1>3. status[d] = "change" /\ status' = [status EXCEPT ![d] = "approved"] /\ UNCHANGED <<revs, reads>>
    BY DEF WithdrawChange
  <1>4. Sound("approved", revs[d], rq) /\ rq \in Seq(Requests)
    <2> DEFINE q == requests[d]
               rv == revs[d]
    <2>1. rv \in Seq(Kinds) /\ q \in Seq(Requests) /\ Sound("change", rv, q)
      BY <1>3, Typed
    <2>2. i \in DOMAIN q /\ q[i].state = "open" /\ q[i].origin = "standard"
      BY <1>2
    <2> HIDE DEF q, rv
    <2>3. Sound("approved", rv, [q EXCEPT ![i].state = "withdrawn"]) /\ [q EXCEPT ![i].state = "withdrawn"] \in Seq(Requests)
      BY <2>1, <2>2, WithdrawSound
    <2> QED BY <2>3 DEF q, rv
  <1>5. requests' = [requests EXCEPT ![d] = rq]
    BY <1>1
  <1>6. "approved" \in DecisionStatuses
    BY DEF DecisionStatuses
  <1> HIDE DEF rq
  <1> QED BY <1>3, <1>4, <1>5, <1>6, Typed, OneMoves

\* The holder, the team and the reads leave every approval and request alone.
LEMMA OthersKeep ==
    ASSUME DecisionInv, UNCHANGED <<status, revs, requests>>,
           \A c \in reads' : c.subject \in Subjects /\ c.prior \in Open
    PROVE  DecisionInv'
  BY DEF DecisionInv, Shaped

LEMMA ActKeeps ==
    ASSUME DecisionInv, NEW p \in Users, NEW d \in Subjects, ActBy(p, d)
    PROVE  DecisionInv'
  <1>1. ASSUME NEW h \in Designations, NEW publish \in BOOLEAN, CreateDecision(p, d, h, publish) PROVE DecisionInv'
    BY <1>1, UnapprovedMoves DEF CreateDecision, Unapproved
  <1>2. CASE Publish(p, d)
    BY <1>2, UnapprovedMoves DEF Publish, Unapproved
  <1>3. CASE Withdraw(p, d)
    BY <1>3, UnapprovedMoves DEF Withdraw, Unapproved
  <1>4. CASE ReadForApproval(p, d)
    BY <1>4, Typed, OthersKeep DEF ReadForApproval
  <1>5. ASSUME NEW h \in Designations, Forward(p, d, h) PROVE DecisionInv'
    BY <1>5, Typed, OthersKeep DEF Forward
  <1>6. ASSUME NEW h \in Designations, RejectApproval(p, d, h) PROVE DecisionInv'
    <2>1. status[d] = "awaiting" /\ Len(revs[d]) \in Nat
      BY <1>6, Typed, LenProperties DEF RejectApproval, ProvisionalHead
    <2> QED BY <1>6, <2>1, ReopenStep DEF RejectApproval
  <1>7. CASE Countersign(p, d)
    BY <1>7, FinalizeStep DEF Countersign, ProvisionalHead, Final
  <1>8. CASE ResolveCompleted(p, d)
    BY <1>8, FinalizeStep DEF ResolveCompleted, ProvisionalHead, Final
  <1>9. CASE RequestChange(p, d)
    BY <1>9, ReopenStep DEF RequestChange
  <1>10. CASE WithdrawChange(p, d)
    BY <1>10, WithdrawChangeStep
  <1> QED BY <1>1, <1>2, <1>3, <1>4, <1>5, <1>6, <1>7, <1>8, <1>9, <1>10 DEF ActBy, Disagree, ResolveReturned

LEMMA StepHolds == DecisionInv /\ [DecisionNext]_decisionVars => DecisionInv'
  <1> SUFFICES ASSUME DecisionInv, [DecisionNext]_decisionVars PROVE DecisionInv'
    OBVIOUS
  <1>1. ASSUME NEW p \in Users, NEW d \in Subjects, ActBy(p, d) PROVE DecisionInv'
    BY <1>1, ActKeeps
  <1>2. ASSUME NEW d \in Subjects, NEW h \in Designations, UpdateDraft(d, h) PROVE DecisionInv'
    BY <1>2, OthersKeep DEF UpdateDraft, DecisionInv, Shaped
  <1>3. ASSUME NEW c \in reads, ApproveDecision(c) PROVE DecisionInv'
    BY <1>3, ApproveStep
  <1>4. ASSUME NEW c \in reads, Refuse(c) PROVE DecisionInv'
    BY <1>4, OthersKeep DEF Refuse, DecisionInv, Shaped
  <1>5. CASE TeamStep
    <2>1. UNCHANGED <<status, revs, requests, reads>>
      BY <1>5 DEF TeamStep, AddMember, UpdateRole, RemoveMember
    <2> QED BY <2>1, OthersKeep DEF DecisionInv, Shaped
  <1>6. ASSUME NEW p \in Users, Retire(p) PROVE DecisionInv'
    BY <1>6, OthersKeep DEF Retire, DecisionInv, Shaped
  <1>7. CASE UNCHANGED decisionVars
    BY <1>7, OthersKeep DEF decisionVars, DecisionInv, Shaped
  <1> QED BY <1>1, <1>2, <1>3, <1>4, <1>5, <1>6, <1>7 DEF DecisionNext

LEMMA InvariantHolds == DecisionSpec => []DecisionInv
  BY DecisionInitHolds, StepHolds, PTL DEF DecisionSpec

------------------------------------------------------------------------------
(* The people and the calls under way keep their types beside it.           *)

Peopled ==
    /\ seat \in [Users -> MemberRoles \cup {"none"}]
    /\ retired \subseteq Users
    /\ holder \in [Subjects -> Designations]
    /\ reads \subseteq [by: Users, role: MemberRoles, subject: Subjects, prior: Open, holder: Designations]

LEMMA ActPeopled ==
    ASSUME Peopled, NEW p \in Users, NEW d \in Subjects, ActBy(p, d)
    PROVE  Peopled'
  <1> USE DEF Peopled
  <1>1. ASSUME NEW h \in Designations, NEW publish \in BOOLEAN, CreateDecision(p, d, h, publish) PROVE Peopled'
    BY <1>1 DEF CreateDecision
  <1>2. CASE Publish(p, d) \/ Withdraw(p, d) \/ RequestChange(p, d) \/ WithdrawChange(p, d)
    BY <1>2 DEF Publish, Withdraw, RequestChange, WithdrawChange
  <1>3. CASE ReadForApproval(p, d)
    <2> DEFINE c == [by |-> p, role |-> RoleOf(p), subject |-> d, prior |-> status[d], holder |-> holder[d]]
    <2>1. c \in [by: Users, role: MemberRoles, subject: Subjects, prior: Open, holder: Designations]
      BY <1>3 DEF ReadForApproval, CanAct
    <2>2. reads' = reads \cup {c} /\ UNCHANGED <<seat, retired, holder>>
      BY <1>3 DEF ReadForApproval
    <2> QED BY <2>1, <2>2
  <1>4. ASSUME NEW h \in Designations, Forward(p, d, h) \/ RejectApproval(p, d, h) PROVE Peopled'
    BY <1>4 DEF Forward, RejectApproval
  <1>5. CASE Countersign(p, d) \/ ResolveCompleted(p, d)
    BY <1>5 DEF Countersign, ResolveCompleted, Finalize
  <1> QED BY <1>1, <1>2, <1>3, <1>4, <1>5 DEF ActBy, Disagree, ResolveReturned

LEMMA StepPeopled == Peopled /\ [DecisionNext]_decisionVars => Peopled'
  <1> SUFFICES ASSUME Peopled, [DecisionNext]_decisionVars PROVE Peopled'
    OBVIOUS
  <1>1. ASSUME NEW p \in Users, NEW d \in Subjects, ActBy(p, d) PROVE Peopled'
    BY <1>1, ActPeopled
  <1>2. ASSUME NEW d \in Subjects, NEW h \in Designations, UpdateDraft(d, h) PROVE Peopled'
    BY <1>2 DEF UpdateDraft, Peopled
  <1>3. ASSUME NEW c \in reads, ApproveDecision(c) \/ Refuse(c) PROVE Peopled'
    BY <1>3 DEF ApproveDecision, Refuse, Peopled
  <1>4. ASSUME NEW p \in Users, NEW r \in MemberRoles, AddMember(p, r) \/ UpdateRole(p, r) \/ RemoveMember(p)
        PROVE  Peopled'
    BY <1>4 DEF AddMember, UpdateRole, RemoveMember, Peopled
  <1>5. ASSUME NEW p \in Users, RemoveMember(p) \/ Retire(p) PROVE Peopled'
    BY <1>5 DEF RemoveMember, Retire, Peopled
  <1>6. CASE UNCHANGED decisionVars
    BY <1>6 DEF decisionVars, Peopled
  <1> QED BY <1>1, <1>2, <1>3, <1>4, <1>5, <1>6 DEF DecisionNext, TeamStep

LEMMA PeopledHolds == DecisionSpec => []Peopled
  <1>1. DecisionInit => Peopled
    BY DEF DecisionInit, Peopled, Designations, RoleKinds
  <1> QED BY <1>1, StepPeopled, PTL DEF DecisionSpec

------------------------------------------------------------------------------
(* The theorem.                                                             *)

\* No order of approvals, rejections, withdrawals and resolutions locks a
\* decision the architect has rejected, leaves a second approval for a
\* countersign to act on, or a request beside the one that reopened it.
THEOREM RegisterHolds == DecisionSpec => []RegisterIsCoherent
  <1>2. DecisionSpec => []Peopled
    BY PeopledHolds
  <1>3. DecisionInv => ApprovedIsFinal
    BY DEF DecisionInv, Sound, ApprovedIsFinal
  <1>4. DecisionInv => OneOpenApproval
    BY DEF DecisionInv, Sound, OneOpenApproval
  <1>5. DecisionInv => ReopenedByOne
    BY DEF DecisionInv, Sound, ReopenedByOne, OpenRequests, OpenIn
  <1>6. DecisionInv /\ Peopled => DecisionTypeOK
    BY DEF DecisionInv, Shaped, Kinds, Peopled, DecisionTypeOK
  <1>7. DecisionInv /\ Peopled => RegisterIsCoherent
    BY <1>3, <1>4, <1>5, <1>6 DEF RegisterIsCoherent
  <1> QED BY <1>2, <1>7, InvariantHolds, PTL

------------------------------------------------------------------------------
(* Who holds a decision that waits.                                         *)

Waits(d) == status[d] \in Open \cup {"awaiting"}

\* Where the seats and the accounts stand still, so does who may hold what.
LEMMA SameStanding ==
    ASSUME UNCHANGED <<seat, retired>>, NEW h
    PROVE  /\ MayHold(h)' <=> MayHold(h)
           /\ Live(h) => MayHold(h)
           /\ ChainActive' <=> ChainActive
  <1>1. \A s, r : HoldersIn(s, r)' = HoldersIn(s, r)
    BY DEF HoldersIn, RoleIn
  <1>2. Present(h)' <=> Present(h)
    BY <1>1 DEF Present, HoldersIn, RoleIn
  <1>3. Live(h)' <=> Live(h)
    BY <1>1 DEF Live, LiveIn, HoldersIn, RoleIn
  <1>4. Live(h) => Present(h)
    BY DEF Live, Present, LiveIn
  <1>5. ChainActive' <=> ChainActive
    BY DEF ChainActive, HoldersIn, RoleIn
  <1> QED BY <1>2, <1>3, <1>4, <1>5 DEF MayHold

\* A person's new seat moves no other person's role.
LEMMA RoleMoves ==
    ASSUME Peopled, NEW p \in Users, NEW r \in MemberRoles \cup {"none"}, seat' = [seat EXCEPT ![p] = r],
           UNCHANGED retired, NEW k, ~(RoleIn(seat, p) = k /\ RoleIn(seat', p) # k)
    PROVE  HoldersIn(seat, k) \subseteq HoldersIn(seat', k) /\ LiveIn(seat, k) \subseteq LiveIn(seat', k)
  <1>1. \A q \in Users : q # p => seat'[q] = seat[q]
    BY DEF Peopled
  <1>2. \A q \in Users : q # p => RoleIn(seat', q) = RoleIn(seat, q)
    BY <1>1 DEF RoleIn
  <1> QED BY <1>2 DEF HoldersIn, LiveIn

\* What a change of one seat takes away: the member's own seat, or the role the
\* member leaves, whose holders every command of the team looks at.
LEMMA SeatKeeps ==
    ASSUME Peopled, NEW p \in Users, NEW r \in MemberRoles \cup {"none"}, seat' = [seat EXCEPT ![p] = r],
           UNCHANGED <<retired, status, holder>>,
           NEW d \in Subjects, Waits(d), Held(d), ~Held(d)',
           \A k \in RoleKinds : RoleIn(seat, p) = k /\ RoleIn(seat', p) # k => KeepsHolders(seat', k),
           r = "none" => ~Asked(p) /\ KeepsNamed(seat', p)
    PROVE  status[d] = "awaiting" /\ ChainActive /\ ~ChainActive'
  <1>0. PICK h : h = holder[d]
    OBVIOUS
  <1>1. h \in RoleKinds \cup Users /\ holder'[d] = h /\ seat'[p] = r /\ \A q \in Users : q # p => seat'[q] = seat[q]
    BY <1>0 DEF Peopled, Designations
  <1>2. RoleKinds \cap Users = {} /\ "architect" \notin Users /\ "none" \notin MemberRoles
    BY DecisionsAssumption DEF DecisionsAssumption, MemberRoles, RoleKinds
  <1>3. CASE h \in Users
    <2>1. seat[h] # "none" /\ h \notin retired /\ ~(seat'[h] # "none")
      BY <1>0, <1>1, <1>2, <1>3 DEF Held, MayHold, Live
    <2>2. h = p /\ r = "none"
      BY <1>1, <1>3, <2>1
    <2>3. status[d] = "awaiting"
      BY <1>0, <2>2 DEF Waits, Asked
    <2>4. seat[p] = "architect" /\ HoldersIn(seat', "architect") = {}
      BY <1>0, <2>2, <2>3 DEF KeepsNamed, Awaiting
    <2>5. p \in HoldersIn(seat, "architect")
      BY <2>4 DEF HoldersIn, RoleIn
    <2> QED BY <2>3, <2>4, <2>5 DEF ChainActive
  <1>4. CASE h \in RoleKinds
    <2>1. h \notin Users
      BY <1>2, <1>4
    <2>2. CASE h = "architect"
      <3>1. HoldersIn(seat, h) # {} /\ HoldersIn(seat', h) = {}
        BY <1>0, <1>1, <2>1, <2>2 DEF Held, MayHold, Present
      <3>2. RoleIn(seat, p) = h /\ RoleIn(seat', p) # h
        BY <3>1, RoleMoves
      <3>3. LiveIn(seat', h) = {}
        BY <3>1 DEF LiveIn
      <3>4. ~Asked(h)
        BY <1>4, <3>2, <3>3 DEF KeepsHolders
      <3>5. status[d] = "awaiting"
        BY <1>0, <3>4 DEF Waits, Asked
      <3> QED BY <2>2, <3>1, <3>5 DEF ChainActive
    <2>3. CASE h # "architect"
      <3>1. LiveIn(seat, h) # {} /\ LiveIn(seat', h) = {}
        BY <1>0, <1>1, <2>1, <2>3 DEF Held, MayHold, Live, LiveIn
      <3>2. RoleIn(seat, p) = h /\ RoleIn(seat', p) # h
        BY <3>1, RoleMoves
      <3>3. LiveIn(seat', h) # {}
        BY <1>0, <1>4, <2>3, <3>2 DEF KeepsHolders, Waits, Asked, Awaiting
      <3> QED BY <3>1, <3>3
    <2> QED BY <2>2, <2>3
  <1> QED BY <1>1, <1>3, <1>4

HoldersStep ==
    \A d \in Subjects :
        status'[d] \in Open \cup {"awaiting"} /\ ~Held(d)' =>
            \/ retired' # retired
            \/ status[d] \in Open \cup {"awaiting"} /\ ~Held(d)
            \/ status[d] = "awaiting" /\ ChainActive /\ ~ChainActive'

\* A step that moves one decision with the team as it is.
LEMMA DecisionHeld ==
    ASSUME DecisionInv, Peopled, UNCHANGED <<seat, retired>>, NEW d \in Subjects,
           NEW st, status' = [status EXCEPT ![d] = st], NEW h, holder' = [holder EXCEPT ![d] = h],
           \/ st \notin Open \cup {"awaiting"}
           \/ MayHold(h)
           \/ Waits(d) /\ h = holder[d]
    PROVE  HoldersStep
  <1> SUFFICES ASSUME NEW e \in Subjects, Waits(e)', ~Held(e)'
               PROVE  Waits(e) /\ ~Held(e)
    BY DEF HoldersStep, Waits
  <1>1. status \in [Subjects -> DecisionStatuses] /\ holder \in [Subjects -> Designations]
    BY DEF DecisionInv, Shaped, Peopled
  <1>2. \A x : MayHold(x)' <=> MayHold(x)
    BY SameStanding
  <1>3. CASE e = d
    <2>1. status'[d] = st /\ holder'[d] = h
      BY <1>1
    <2> QED BY <1>2, <1>3, <2>1 DEF Waits, Held
  <1>4. CASE e # d
    <2>1. status'[e] = status[e] /\ holder'[e] = holder[e]
      BY <1>1, <1>4
    <2> QED BY <1>2, <2>1 DEF Waits, Held
  <1> QED BY <1>3, <1>4

LEMMA HoldersKeep ==
    ASSUME DecisionInv, Peopled, [DecisionNext]_decisionVars
    PROVE  HoldersStep
  <1>1. status \in [Subjects -> DecisionStatuses] /\ holder \in [Subjects -> Designations]
    BY DEF DecisionInv, Shaped, Peopled
  <1>2. \A d \in Subjects : holder = [holder EXCEPT ![d] = holder[d]] /\ status = [status EXCEPT ![d] = status[d]]
    BY <1>1
  <1>3. \A st \in {"draft", "withdrawn", "approved"} : st \notin Open \cup {"awaiting"}
    BY DEF Open
  <1>4. ASSUME UNCHANGED <<seat, retired, status, holder>> PROVE HoldersStep
    BY <1>4, SameStanding DEF HoldersStep, Held
  <1>5. ASSUME NEW p \in Users, NEW d \in Subjects, ActBy(p, d) PROVE HoldersStep
    <2>1. ASSUME NEW h \in Designations, NEW publish \in BOOLEAN, CreateDecision(p, d, h, publish) PROVE HoldersStep
      <3>1. CASE publish
        BY <2>1, <3>1, DecisionHeld DEF CreateDecision
      <3>2. CASE ~publish
        BY <1>3, <2>1, <3>2, DecisionHeld DEF CreateDecision
      <3> QED BY <3>1, <3>2
    <2>2. CASE Publish(p, d)
      BY <1>2, <2>2, DecisionHeld DEF Publish
    <2>3. CASE Withdraw(p, d) \/ WithdrawChange(p, d)
      <3>1. CASE Withdraw(p, d)
        <4>1. status' = [status EXCEPT ![d] = "withdrawn"] /\ UNCHANGED <<seat, retired, holder>>
          BY <3>1 DEF Withdraw
        <4> QED BY <1>2, <1>3, <4>1, DecisionHeld
      <3>2. CASE WithdrawChange(p, d)
        <4>1. status' = [status EXCEPT ![d] = "approved"] /\ UNCHANGED <<seat, retired, holder>>
          BY <3>2 DEF WithdrawChange
        <4> QED BY <1>2, <1>3, <4>1, DecisionHeld
      <3> QED BY <2>3, <3>1, <3>2
    <2>4. CASE ReadForApproval(p, d)
      BY <1>4, <2>4 DEF ReadForApproval
    <2>5. ASSUME NEW h \in Designations, Forward(p, d, h) PROVE HoldersStep
      BY <1>2, <2>5, SameStanding, DecisionHeld DEF Forward
    <2>6. ASSUME NEW h \in Designations, RejectApproval(p, d, h) PROVE HoldersStep
      <3>1. UNCHANGED <<seat, retired>> /\ Waits(d)
        BY <2>6 DEF RejectApproval, ProvisionalHead, Waits
      <3> QED BY <2>6, <3>1, SameStanding, DecisionHeld DEF RejectApproval
    <2>7. CASE Countersign(p, d) \/ ResolveCompleted(p, d)
      <3>1. status' = [status EXCEPT ![d] = "approved"] /\ UNCHANGED <<seat, retired, holder>>
        BY <2>7 DEF Countersign, ResolveCompleted, Finalize
      <3> QED BY <1>2, <1>3, <3>1, DecisionHeld
    <2>8. CASE RequestChange(p, d)
      BY <1>2, <2>8, DecisionHeld DEF RequestChange
    <2> QED BY <1>5, <2>1, <2>2, <2>3, <2>4, <2>5, <2>6, <2>7, <2>8 DEF ActBy, Disagree, ResolveReturned
  <1>6. ASSUME NEW d \in Subjects, NEW h \in Designations, UpdateDraft(d, h) PROVE HoldersStep
    BY <1>2, <1>6, DecisionHeld DEF UpdateDraft, Open
  <1>7. ASSUME NEW c \in reads, ApproveDecision(c) PROVE HoldersStep
    <2>1. c.subject \in Subjects /\ c.prior \in Open /\ status[c.subject] = c.prior
      BY <1>7 DEF DecisionInv, Shaped, ApproveDecision, Unmoved
    <2>2. Waits(c.subject) /\ UNCHANGED <<seat, retired, holder>>
          /\ status' = [status EXCEPT ![c.subject] = IF ChainActive THEN "awaiting" ELSE "approved"]
      BY <1>7, <2>1 DEF ApproveDecision, Waits
    <2> QED BY <1>2, <2>1, <2>2, DecisionHeld
  <1>8. ASSUME NEW c \in reads, Refuse(c) PROVE HoldersStep
    BY <1>4, <1>8 DEF Refuse
  <1>9. ASSUME NEW p \in Users, NEW r \in MemberRoles \cup {"none"}, seat' = [seat EXCEPT ![p] = r],
               UNCHANGED <<retired, status, holder>>,
               \A k \in RoleKinds : RoleIn(seat, p) = k /\ RoleIn(seat', p) # k => KeepsHolders(seat', k),
               r = "none" => ~Asked(p) /\ KeepsNamed(seat', p)
        PROVE  HoldersStep
    <2> SUFFICES ASSUME NEW d \in Subjects, Waits(d)', ~Held(d)', Held(d)
                 PROVE  status[d] = "awaiting" /\ ChainActive /\ ~ChainActive'
      BY <1>9 DEF HoldersStep, Waits
    <2>1. Waits(d)
      BY <1>9 DEF Waits
    <2> QED BY <1>9, <2>1, SeatKeeps
  <1>10. ASSUME NEW p \in Users, NEW r \in MemberRoles, AddMember(p, r) PROVE HoldersStep
    <2>1. /\ seat[p] = "none" /\ seat' = [seat EXCEPT ![p] = r] /\ UNCHANGED <<retired, status, holder>>
          /\ \A lost \in Displaced(p, r) : KeepsHolders(seat', lost)
      BY <1>10 DEF AddMember
    <2>2. seat'[p] = r /\ r # "none" /\ "none" \notin RoleKinds
      BY <2>1 DEF Peopled, MemberRoles, RoleKinds
    <2>3. ASSUME NEW k \in RoleKinds, RoleIn(seat, p) = k, RoleIn(seat', p) # k PROVE KeepsHolders(seat', k)
      <3>1. CASE p \in OrgAdmins
        BY <2>1, <2>2, <2>3, <3>1 DEF RoleIn, Displaced
      <3>2. CASE p \notin OrgAdmins
        BY <2>1, <2>2, <2>3, <3>2 DEF RoleIn
      <3> QED BY <3>1, <3>2
    <2> QED BY <1>9, <2>1, <2>2, <2>3
  <1>11. ASSUME NEW p \in Users, NEW r \in MemberRoles, UpdateRole(p, r) PROVE HoldersStep
    <2>1. /\ seat[p] # "none" /\ seat' = [seat EXCEPT ![p] = r] /\ UNCHANGED <<retired, status, holder>>
          /\ KeepsHolders(seat', seat[p])
      BY <1>11 DEF UpdateRole
    <2>2. RoleIn(seat, p) = seat[p] /\ r # "none"
      BY <2>1 DEF RoleIn, MemberRoles, RoleKinds
    <2> QED BY <1>9, <2>1, <2>2
  <1>12. ASSUME NEW p \in Users, RemoveMember(p) PROVE HoldersStep
    <2>1. /\ seat[p] # "none" /\ seat' = [seat EXCEPT ![p] = "none"] /\ UNCHANGED <<retired, status, holder>>
          /\ KeepsHolders(seat', seat[p]) /\ ~Asked(p) /\ KeepsNamed(seat', p)
      BY <1>12 DEF RemoveMember
    <2>2. RoleIn(seat, p) = seat[p]
      BY <2>1 DEF RoleIn
    <2> QED BY <1>9, <2>1, <2>2
  <1>13. ASSUME NEW p \in Users, Retire(p) PROVE HoldersStep
    BY <1>13 DEF Retire, HoldersStep
  <1>14. CASE UNCHANGED decisionVars
    BY <1>4, <1>14 DEF decisionVars
  <1> QED BY <1>5, <1>6, <1>7, <1>8, <1>10, <1>11, <1>12, <1>13, <1>14 DEF DecisionNext, TeamStep

------------------------------------------------------------------------------
(* On whose authority an approval enters the register.                      *)

\* An approval under way was read by who may decide.
CallsInv == \A c \in reads : c.holder \in {c.by, c.role} \/ c.role = "pmc"

LEMMA CallsStep == CallsInv /\ [DecisionNext]_decisionVars => CallsInv'
  <1> SUFFICES ASSUME CallsInv, [DecisionNext]_decisionVars PROVE CallsInv'
    OBVIOUS
  <1>1. ASSUME NEW p \in Users, NEW d \in Subjects, ReadForApproval(p, d) PROVE CallsInv'
    BY <1>1 DEF ReadForApproval, CallsInv
  <1>2. ASSUME reads' \subseteq reads PROVE CallsInv'
    BY <1>2 DEF CallsInv
  <1>3. ASSUME NEW p \in Users, NEW d \in Subjects, ActBy(p, d), ~ReadForApproval(p, d) PROVE reads' = reads
    BY <1>3 DEF ActBy, CreateDecision, Publish, Withdraw, Forward, Disagree, ResolveReturned, RejectApproval, Countersign,
       ResolveCompleted, Finalize, RequestChange, WithdrawChange
  <1>4. ASSUME NEW d \in Subjects, NEW h \in Designations, UpdateDraft(d, h) PROVE reads' = reads
    BY <1>4 DEF UpdateDraft
  <1>5. ASSUME NEW c \in reads, ApproveDecision(c) \/ Refuse(c) PROVE reads' \subseteq reads
    BY <1>5 DEF ApproveDecision, Refuse
  <1>6. CASE TeamStep
    BY <1>2, <1>6 DEF TeamStep, AddMember, UpdateRole, RemoveMember
  <1>7. ASSUME NEW p \in Users, Retire(p) PROVE reads' = reads
    BY <1>7 DEF Retire
  <1> QED BY <1>1, <1>2, <1>3, <1>4, <1>5, <1>6, <1>7 DEF DecisionNext, decisionVars

\* Only an approval adds a revision.
LEMMA RevisionAdded ==
    ASSUME DecisionInv, [DecisionNext]_decisionVars, NEW d \in Subjects, Len(revs'[d]) > Len(revs[d])
    PROVE  \E c \in reads : ApproveDecision(c) /\ c.subject = d
  <1>1. /\ revs \in [Subjects -> Seq(Kinds)] /\ revs[d] \in Seq(Kinds) /\ Len(revs[d]) \in Nat
        /\ revs'[d] # revs[d]
    BY LenProperties DEF DecisionInv, Shaped
  <1>2. ASSUME NEW e \in Subjects, NEW how, Finalize(e, how), e = d, how \in Final, status[d] = "awaiting"
        PROVE  FALSE
    <2> DEFINE n == Len(revs[d])
    <2>1. n \in 1..n /\ how \in Kinds
      BY <1>1, <1>2, Typed, EmptySeq DEF Sound, Kinds
    <2>2. Len([revs[d] EXCEPT ![n] = how]) = n
      BY <1>1, <2>1, ExceptSeq
    <2>3. revs'[d] = [revs[d] EXCEPT ![n] = how]
      BY <1>1, <1>2 DEF Finalize
    <2> QED BY <1>1, <2>2, <2>3
  <1>3. ASSUME NEW p \in Users, NEW e \in Subjects, ActBy(p, e)
        PROVE  FALSE
    <2>1. CASE Countersign(p, e) \/ ResolveCompleted(p, e)
      <3>1. PICK how \in Final : Finalize(e, how)
        BY <2>1 DEF Countersign, ResolveCompleted, Final
      <3>2. e = d
        BY <1>1, <3>1 DEF Finalize
      <3>3. status[d] = "awaiting"
        BY <2>1, <3>2 DEF Countersign, ResolveCompleted, ProvisionalHead
      <3> QED BY <1>2, <3>1, <3>2, <3>3
    <2>2. CASE revs' = revs
      BY <1>1, <2>2
    <2> QED BY <1>3, <2>1, <2>2 DEF ActBy, CreateDecision, Publish, Withdraw, ReadForApproval, Forward, Disagree, ResolveReturned,
            RejectApproval, RequestChange, WithdrawChange
  <1>4. ASSUME NEW c \in reads, ApproveDecision(c)
        PROVE  c.subject = d
    BY <1>1, <1>4 DEF ApproveDecision
  <1>5. CASE revs' = revs
    BY <1>1, <1>5
  <1> QED BY <1>3, <1>4, <1>5 DEF DecisionNext, UpdateDraft, Refuse, TeamStep, AddMember, UpdateRole, RemoveMember, Retire, decisionVars

AuthorityStep ==
    \A d \in Subjects :
        Len(revs'[d]) > Len(revs[d]) =>
            \E c \in reads \ reads' :
                /\ c.subject = d
                /\ \/ RoleOf(c.by) \in {"pmc", holder[d]}
                   \/ c.by = holder[d] /\ seat[c.by] # "none"

LEMMA AuthorityHolds ==
    ASSUME DecisionInv, Peopled, CallsInv, [DecisionNext]_decisionVars
    PROVE  AuthorityStep
  <1> SUFFICES ASSUME NEW d \in Subjects, Len(revs'[d]) > Len(revs[d])
               PROVE  \E c \in reads \ reads' :
                        /\ c.subject = d
                        /\ \/ RoleOf(c.by) \in {"pmc", holder[d]}
                           \/ c.by = holder[d] /\ seat[c.by] # "none"
    BY DEF AuthorityStep
  <1>1. PICK c \in reads : ApproveDecision(c) /\ c.subject = d
    BY RevisionAdded
  <1>2. c \notin reads'
    BY <1>1 DEF ApproveDecision
  <1>3. /\ RoleOf(c.by) = c.role /\ holder[d] = c.holder /\ c.by \in Users
        /\ c.holder \in Users => Present(c.holder)
    BY <1>1 DEF ApproveDecision, StillStands, Unmoved, Peopled
  <1>4. c.holder \in {c.by, c.role} \/ c.role = "pmc"
    BY DEF CallsInv
  <1>5. c.holder = c.by => seat[c.by] # "none"
    BY <1>3 DEF Present
  <1> QED BY <1>1, <1>2, <1>3, <1>4, <1>5

------------------------------------------------------------------------------
(* How a decision comes to be locked.                                       *)

LockStep ==
    \A d \in Subjects :
        status[d] # "approved" /\ status'[d] = "approved" /\ ChainActive =>
            revs'[d] = revs[d] \/ Last(revs'[d]) = "countersigned"

LEMMA LockHolds ==
    ASSUME DecisionInv, [DecisionNext]_decisionVars
    PROVE  LockStep
  <1> SUFFICES ASSUME NEW d \in Subjects, status[d] # "approved", status'[d] = "approved", ChainActive,
                      revs'[d] # revs[d]
               PROVE  Last(revs'[d]) = "countersigned"
    BY DEF LockStep
  <1>1. revs \in [Subjects -> Seq(Kinds)] /\ status \in [Subjects -> DecisionStatuses]
    BY DEF DecisionInv, Shaped
  <1>2. ASSUME NEW c \in reads, ApproveDecision(c)
        PROVE  FALSE
    BY <1>1, <1>2 DEF ApproveDecision, DecisionInv, Shaped
  <1>3. ASSUME NEW p \in Users, NEW e \in Subjects, Countersign(p, e)
        PROVE  Last(revs'[d]) = "countersigned"
    <2> DEFINE n == Len(revs[d])
    <2>1. e = d /\ status[d] = "awaiting" /\ revs' = [revs EXCEPT ![e][Len(revs[e])] = "countersigned"]
      BY <1>1, <1>3 DEF Countersign, ProvisionalHead, Finalize
    <2>2. n \in 1..n /\ "countersigned" \in Kinds
      BY <1>1, <2>1, Typed, EmptySeq, LenProperties DEF Sound, Kinds, Final
    <2>3. revs'[d] = [revs[d] EXCEPT ![n] = "countersigned"]
      BY <1>1, <2>1
    <2>4. Len(revs'[d]) = n /\ revs'[d][n] = "countersigned"
      BY <1>1, <2>2, <2>3, ExceptSeq
    <2> QED BY <2>4 DEF Last
  <1>4. ASSUME NEW p \in Users, NEW e \in Subjects, ActBy(p, e)
        PROVE  Last(revs'[d]) = "countersigned"
    BY <1>3, <1>4 DEF ActBy, CreateDecision, Publish, Withdraw, ReadForApproval, Forward, Disagree, ResolveReturned,
       ResolveCompleted, RejectApproval, RequestChange, WithdrawChange
  <1>5. CASE revs' = revs
    BY <1>5
  <1> QED BY <1>2, <1>4, <1>5 DEF DecisionNext, UpdateDraft, Refuse, TeamStep, AddMember, UpdateRole, RemoveMember, Retire, decisionVars

------------------------------------------------------------------------------
(* What a step may never do.                                                *)

\* No command of the team, no hand-over and no rejection leaves a decision that
\* waits without anyone who can act on it, but for the departure of the last
\* architect and the retirement of an account.
THEOREM HoldersStay == DecisionSpec => HoldersKept
  <1>1. DecisionInv /\ Peopled /\ [DecisionNext]_decisionVars => [HoldersStep]_decisionVars
    BY HoldersKeep
  <1> QED BY <1>1, InvariantHolds, PeopledHolds, PTL DEF DecisionSpec, HoldersKept, HoldersStep

\* An approval enters the register by the authority the caller has when it
\* commits, whatever was read before.
THEOREM ApprovedByAuthority == DecisionSpec => DecidedByAuthority
  <1>1. DecisionInit => CallsInv
    BY DEF DecisionInit, CallsInv
  <1>2. DecisionInv /\ Peopled /\ CallsInv /\ [DecisionNext]_decisionVars => [AuthorityStep]_decisionVars
    BY AuthorityHolds
  <1> QED BY <1>1, <1>2, CallsStep, InvariantHolds, PeopledHolds, PTL DEF DecisionSpec, DecidedByAuthority, AuthorityStep

\* While the project has an architect nothing is locked without the architect's
\* countersign, but what was final before.
THEOREM LockedByCountersign == DecisionSpec => NoneAroundTheArchitect
  <1>1. DecisionInv /\ [DecisionNext]_decisionVars => [LockStep]_decisionVars
    BY LockHolds
  <1> QED BY <1>1, InvariantHolds, PTL DEF DecisionSpec, NoneAroundTheArchitect, LockStep

------------------------------------------------------------------------------
(* The work on site.  The activities come first: their invariant needs     *)
(* nothing of the inspections, because a decision moves an activity only   *)
(* between two statuses that both count as begun.  The inspections follow, *)
(* as what each command does to their sequence.                            *)

WorkTyped == /\ work \in [Activities -> ActivityRecords]
             /\ measured \subseteq Activities
             /\ disputes \in [Activities -> Nat]

\* An activity that is not planned yet has not begun.
Unbegun == \A a \in Activities : work[a].status = "none" => ~work[a].started

ActivityInv == WorkTyped /\ ProgressRemembered /\ MeasuredStaysDone /\ Unbegun

\* What ClearedFor does to one activity.
Kept(before, after, left) ==
    \/ after.status = before.status
    \/ before.status = "blocked" /\ left = 0 /\ after.status = Resumed(before)

LEMMA InitHolds == Init => ActivityInv
  <1> SUFFICES ASSUME Init PROVE ActivityInv
    OBVIOUS
  <1>1. [status |-> "none", started |-> FALSE, gate |-> "wait", decision |-> NoDecision, banner |-> ""] \in ActivityRecords
    BY DEF ActivityRecords, Statuses
  <1>2. WorkTyped
    BY <1>1 DEF Init, WorkTyped
  <1>3. ProgressRemembered /\ MeasuredStaysDone /\ Unbegun
    BY DEF Init, ProgressRemembered, MeasuredStaysDone, Unbegun
  <1> QED BY <1>2, <1>3 DEF ActivityInv

LEMMA MarkedTyped ==
    ASSUME NEW w \in ActivityRecords, NEW s \in Statuses, NEW g \in {"ok", "wait", "fail"}, NEW b \in {"", "material", "labour"}
    PROVE  Marked(w, s, g, b) \in ActivityRecords /\ Marked(w, s, g, b).started = w.started /\ Marked(w, s, g, b).status = s
  BY DEF Marked, ActivityRecords

\* A mismatch leaves an activity as it was or blocks it, and never one that is done.
LEMMA BlockKeeps ==
    ASSUME WorkTyped, NEW d \in Decisions, NEW a \in Activities
    PROVE  /\ BlockedFor(d)[a] \in ActivityRecords
           /\ BlockedFor(d)[a].started = work[a].started
           /\ BlockedFor(d)[a].status \in {work[a].status, "blocked"}
           /\ work[a].status = "done" => BlockedFor(d)[a].status = "done"
  <1>1. work[a] \in ActivityRecords
    BY DEF WorkTyped
  <1> DEFINE s == IF work[a].status = "done" THEN "done" ELSE "blocked"
  <1>2. s \in Statuses
    BY DEF Statuses
  <1>3. BlockedFor(d)[a] = IF work[a].decision # d THEN work[a] ELSE Marked(work[a], s, "fail", "material")
    BY DEF BlockedFor
  <1>4. /\ Marked(work[a], s, "fail", "material") \in ActivityRecords
        /\ Marked(work[a], s, "fail", "material").started = work[a].started
        /\ Marked(work[a], s, "fail", "material").status = s
    BY <1>1, <1>2, MarkedTyped
  <1> QED BY <1>1, <1>3, <1>4

\* Its release touches only blocked activities, and resumes them only without a crew's dispute.
LEMMA ClearKeeps ==
    ASSUME WorkTyped, NEW d \in Decisions, NEW a \in Activities
    PROVE  /\ ClearedFor(d)[a] \in ActivityRecords
           /\ ClearedFor(d)[a].started = work[a].started
           /\ Kept(work[a], ClearedFor(d)[a], disputes[a])
  <1>1. work[a] \in ActivityRecords /\ disputes[a] \in Nat
    BY DEF WorkTyped
  <1>2. CASE ~MaterialBlocked(a, d)
    <2>1. ClearedFor(d)[a] = work[a]
      BY <1>2 DEF ClearedFor
    <2> QED BY <1>1, <2>1 DEF Kept
  <1>3. CASE MaterialBlocked(a, d) /\ disputes[a] > 0
    <2>1. ClearedFor(d)[a] = Marked(work[a], "blocked", "wait", "labour")
      BY <1>3 DEF ClearedFor
    <2>2. work[a].status = "blocked" /\ "blocked" \in Statuses
      BY <1>3 DEF MaterialBlocked, Statuses
    <2>3. /\ Marked(work[a], "blocked", "wait", "labour") \in ActivityRecords
          /\ Marked(work[a], "blocked", "wait", "labour").started = work[a].started
          /\ Marked(work[a], "blocked", "wait", "labour").status = "blocked"
      BY <1>1, <2>2, MarkedTyped
    <2> QED BY <2>1, <2>2, <2>3 DEF Kept
  <1>4. CASE MaterialBlocked(a, d) /\ ~(disputes[a] > 0)
    <2>1. ClearedFor(d)[a] = Marked(work[a], Resumed(work[a]), "wait", "")
      BY <1>4 DEF ClearedFor
    <2>2. work[a].status = "blocked" /\ disputes[a] = 0 /\ Resumed(work[a]) \in Statuses
      BY <1>1, <1>4 DEF MaterialBlocked, Statuses, Running, Resumed
    <2>3. /\ Marked(work[a], Resumed(work[a]), "wait", "") \in ActivityRecords
          /\ Marked(work[a], Resumed(work[a]), "wait", "").started = work[a].started
          /\ Marked(work[a], Resumed(work[a]), "wait", "").status = Resumed(work[a])
      BY <1>1, <2>2, MarkedTyped
    <2> QED BY <2>1, <2>2, <2>3 DEF Kept
  <1> QED BY <1>2, <1>3, <1>4


\* What a step must do to the activities: keep the invariant and LabourStillHeld.
HeldStep == \A a \in Activities : work[a].status = "blocked" /\ work'[a].status # "blocked" => disputes'[a] = 0

GoodStep == ActivityInv' /\ HeldStep

\* What one activity's new record must be, given its old one.
GoodRecord(a) ==
    /\ work'[a].status \in {"in_progress", "awaiting_signoff", "done"} => work'[a].started
    /\ work'[a].status \in {"none", "not_started"} => ~work'[a].started
    /\ a \in measured => work'[a].status = "done"
    /\ work[a].status = "blocked" /\ work'[a].status # "blocked" => disputes'[a] = 0

LEMMA EachActivity ==
    ASSUME ActivityInv, work' \in [Activities -> ActivityRecords], disputes' \in [Activities -> Nat],
           measured' = measured, \A a \in Activities : work'[a] = work[a] \/ GoodRecord(a)
    PROVE  GoodStep
  <1>1. WorkTyped /\ ProgressRemembered /\ MeasuredStaysDone /\ Unbegun
    BY DEF ActivityInv
  <1>2. WorkTyped'
    BY <1>1 DEF WorkTyped
  <1>3. ProgressRemembered' /\ Unbegun'
    BY <1>1 DEF ProgressRemembered, Unbegun, GoodRecord
  <1>4. MeasuredStaysDone'
    BY <1>1 DEF MeasuredStaysDone, WorkTyped, GoodRecord
  <1>5. HeldStep
    BY DEF HeldStep, GoodRecord
  <1> QED BY <1>2, <1>3, <1>4, <1>5 DEF GoodStep, ActivityInv

\* An activity given a new record leaves the register typed.
LEMMA Rewritten ==
    ASSUME WorkTyped, NEW a \in Activities, NEW r \in ActivityRecords, work' = [work EXCEPT ![a] = r]
    PROVE  work' \in [Activities -> ActivityRecords]
  BY DEF WorkTyped

LEMMA SameWork ==
    ASSUME ActivityInv, UNCHANGED <<work, measured, disputes>>
    PROVE  GoodStep
  BY DEF ActivityInv, WorkTyped, ProgressRemembered, MeasuredStaysDone, Unbegun, GoodStep, HeldStep

\* The steps that plan, execute, sign off and send back one activity.
LEMMA ExecutionGood ==
    ASSUME ActivityInv, NEW a \in Activities,
           \/ Create(a) \/ Update(a) \/ Start(a) \/ \E u \in People : Complete(a, u)
           \/ (Revert(a) \/ SignOff(a)) /\ UNCHANGED <<measured, disputes>>
    PROVE  GoodStep
  <1>1. WorkTyped /\ ProgressRemembered /\ MeasuredStaysDone /\ Unbegun
    BY DEF ActivityInv
  <1>2. work[a] \in ActivityRecords /\ disputes \in [Activities -> Nat]
    BY <1>1 DEF WorkTyped
  <1>3. CASE Create(a)
    <2>1. PICK d \in Decisions \cup {NoDecision} : work' = [work EXCEPT ![a].status = "not_started", ![a].decision = d]
      BY <1>3 DEF Create
    <2>2. work' \in [Activities -> ActivityRecords]
      <3> DEFINE r == [work[a] EXCEPT !.status = "not_started", !.decision = d]
      <3>1. r \in ActivityRecords
        BY <1>2 DEF ActivityRecords, Statuses, Running
      <3>2. work' = [work EXCEPT ![a] = r]
        BY <2>1
      <3> QED BY <1>1, <3>1, <3>2, Rewritten
    <2>3. work'[a].status = "not_started" /\ work'[a].started = work[a].started /\ ~work[a].started
      BY <1>1, <1>2, <1>3, <2>1 DEF WorkTyped, ActivityRecords, Create, Unbegun
    <2>4. a \notin measured /\ \A b \in Activities \ {a} : work'[b] = work[b]
      BY <1>1, <1>3, <2>1 DEF Create, WorkTyped, MeasuredStaysDone
    <2>5. GoodRecord(a)
      BY <1>3, <2>3, <2>4 DEF GoodRecord, Create
    <2> QED BY <1>2, <1>3, <2>2, <2>4, <2>5, EachActivity DEF Create
  <1>4. CASE Update(a)
    <2>1. PICK d \in Decisions \cup {NoDecision}, g \in {"ok", "wait", "fail"} :
             work' = [work EXCEPT ![a].decision = d, ![a].gate = g]
      BY <1>4 DEF Update
    <2>2. work' \in [Activities -> ActivityRecords]
      <3> DEFINE r == [work[a] EXCEPT !.decision = d, !.gate = g]
      <3>1. r \in ActivityRecords
        BY <1>2 DEF ActivityRecords
      <3>2. work' = [work EXCEPT ![a] = r]
        BY <2>1
      <3> QED BY <1>1, <3>1, <3>2, Rewritten
    <2>3. work'[a].status = work[a].status /\ work'[a].started = work[a].started
      BY <1>1, <1>2, <2>1 DEF WorkTyped, ActivityRecords
    <2>4. \A b \in Activities \ {a} : work'[b] = work[b]
      BY <1>1, <2>1 DEF WorkTyped
    <2>5. GoodRecord(a)
      BY <1>1, <2>3 DEF GoodRecord, ProgressRemembered, MeasuredStaysDone, Unbegun
    <2> QED BY <1>2, <1>4, <2>2, <2>4, <2>5, EachActivity DEF Update
  <1>5. CASE Start(a)
    <2>1. work[a].status = "not_started" /\ work' = [work EXCEPT ![a].status = "in_progress", ![a].started = TRUE]
      BY <1>5 DEF Start
    <2>2. work' \in [Activities -> ActivityRecords]
      <3> DEFINE r == [work[a] EXCEPT !.status = "in_progress", !.started = TRUE]
      <3>1. r \in ActivityRecords
        BY <1>2 DEF ActivityRecords, Statuses, Running
      <3>2. work' = [work EXCEPT ![a] = r]
        BY <2>1
      <3> QED BY <1>1, <3>1, <3>2, Rewritten
    <2>3. work'[a].status = "in_progress" /\ work'[a].started
      BY <1>1, <1>2, <2>1 DEF WorkTyped, ActivityRecords
    <2>4. a \notin measured /\ \A b \in Activities \ {a} : work'[b] = work[b]
      BY <1>1, <2>1 DEF WorkTyped, MeasuredStaysDone
    <2>5. GoodRecord(a)
      BY <2>1, <2>3, <2>4 DEF GoodRecord
    <2> QED BY <1>2, <1>5, <2>2, <2>4, <2>5, EachActivity DEF Start
  <1>6. CASE \E u \in People : Complete(a, u)
    <2>1. /\ work[a].status = "in_progress" /\ work' = [work EXCEPT ![a].status = "awaiting_signoff"]
          /\ UNCHANGED <<measured, disputes>>
      BY <1>6 DEF Complete
    <2>2. work' \in [Activities -> ActivityRecords]
      <3> DEFINE r == [work[a] EXCEPT !.status = "awaiting_signoff"]
      <3>1. r \in ActivityRecords
        BY <1>2 DEF ActivityRecords, Statuses, Running
      <3>2. work' = [work EXCEPT ![a] = r]
        BY <2>1
      <3> QED BY <1>1, <3>1, <3>2, Rewritten
    <2>3. GoodRecord(a) /\ \A b \in Activities \ {a} : work'[b] = work[b]
      BY <1>1, <2>1 DEF WorkTyped, ActivityRecords, GoodRecord, MeasuredStaysDone, ProgressRemembered
    <2> QED BY <1>2, <2>1, <2>2, <2>3, EachActivity
  <1>7. CASE Revert(a) /\ UNCHANGED <<measured, disputes>>
    <2>1. work' \in [Activities -> ActivityRecords]
      <3> DEFINE r == [work[a] EXCEPT !.status = "in_progress"]
      <3>1. r \in ActivityRecords
        BY <1>2 DEF ActivityRecords, Statuses, Running
      <3>2. work' = [work EXCEPT ![a] = r]
        BY <1>7 DEF Revert
      <3> QED BY <1>1, <3>1, <3>2, Rewritten
    <2>2. GoodRecord(a) /\ \A b \in Activities \ {a} : work'[b] = work[b]
      BY <1>1, <1>7 DEF Revert, WorkTyped, ActivityRecords, GoodRecord, ProgressRemembered
    <2> QED BY <1>2, <1>7, <2>1, <2>2, EachActivity
  <1>8. CASE SignOff(a) /\ UNCHANGED <<measured, disputes>>
    <2>1. work' \in [Activities -> ActivityRecords]
      <3> DEFINE r == [work[a] EXCEPT !.status = "done"]
      <3>1. r \in ActivityRecords
        BY <1>2 DEF ActivityRecords, Statuses, Running
      <3>2. work' = [work EXCEPT ![a] = r]
        BY <1>8 DEF SignOff
      <3> QED BY <1>1, <3>1, <3>2, Rewritten
    <2>2. GoodRecord(a) /\ \A b \in Activities \ {a} : work'[b] = work[b]
      BY <1>1, <1>8 DEF SignOff, WorkTyped, ActivityRecords, GoodRecord, ProgressRemembered
    <2> QED BY <1>2, <1>8, <2>1, <2>2, EachActivity
  <1> QED BY <1>3, <1>4, <1>5, <1>6, <1>7, <1>8

\* Measuring takes only accepted work, and leaves every activity as it is.
LEMMA MeasureGood ==
    ASSUME ActivityInv, NEW a \in Activities, Measure(a)
    PROVE  GoodStep
  BY DEF Measure, ActivityInv, WorkTyped, ProgressRemembered, MeasuredStaysDone, Unbegun, GoodStep, HeldStep

\* Deliveries: BlockKeeps and ClearKeeps say what happens to each activity.
LEMMA FlagGood ==
    ASSUME ActivityInv, NEW d \in Decisions, FlagMismatch(d)
    PROVE  GoodStep
  <1>1. WorkTyped /\ ProgressRemembered /\ MeasuredStaysDone /\ Unbegun
    BY DEF ActivityInv
  <1>2. work' = BlockedFor(d) /\ UNCHANGED <<measured, disputes>>
    BY DEF FlagMismatch
  <1>3. work' \in [Activities -> ActivityRecords]
    BY <1>1, <1>2, BlockKeeps DEF BlockedFor
  <1>4. ASSUME NEW a \in Activities PROVE GoodRecord(a)
    <2>1. /\ work'[a].started = work[a].started
          /\ work'[a].status \in {work[a].status, "blocked"}
          /\ work[a].status = "done" => work'[a].status = "done"
      BY <1>1, <1>2, BlockKeeps
    <2> QED BY <1>1, <2>1 DEF GoodRecord, ProgressRemembered, MeasuredStaysDone, Unbegun
  <1> QED BY <1>1, <1>2, <1>3, <1>4, EachActivity DEF WorkTyped

LEMMA ReleaseGood ==
    ASSUME ActivityInv, NEW d \in Decisions, work' = ClearedFor(d), UNCHANGED <<measured, disputes>>
    PROVE  GoodStep
  <1>1. WorkTyped /\ ProgressRemembered /\ MeasuredStaysDone /\ Unbegun
    BY DEF ActivityInv
  <1>2. work' \in [Activities -> ActivityRecords]
    BY <1>1, ClearKeeps DEF ClearedFor
  <1>3. ASSUME NEW a \in Activities PROVE GoodRecord(a)
    <2>1. work'[a].started = work[a].started /\ Kept(work[a], work'[a], disputes[a])
      BY <1>1, ClearKeeps
    <2> QED BY <1>1, <2>1 DEF GoodRecord, Kept, Resumed, ProgressRemembered, MeasuredStaysDone, Unbegun
  <1> QED BY <1>1, <1>2, <1>3, EachActivity DEF WorkTyped

\* A crew's dispute blocks work that could run, and its resolution resumes it.
LEMMA DisputeGood ==
    ASSUME ActivityInv, NEW a \in Activities, RecordDispute(a) \/ ResolveDispute(a)
    PROVE  GoodStep
  <1>1. WorkTyped /\ ProgressRemembered /\ MeasuredStaysDone /\ Unbegun
    BY DEF ActivityInv
  <1>2. work[a] \in ActivityRecords /\ disputes[a] \in Nat /\ disputes \in [Activities -> Nat]
    BY <1>1 DEF WorkTyped
  <1>3. disputes' \in [Activities -> Nat] /\ measured' = measured
    <2>1. CASE RecordDispute(a)
      BY <1>2, <2>1 DEF RecordDispute
    <2>2. CASE ResolveDispute(a)
      <3>1. disputes' = [disputes EXCEPT ![a] = disputes[a] - 1] /\ disputes[a] > 0 /\ measured' = measured
        BY <2>2 DEF ResolveDispute
      <3>2. disputes[a] - 1 \in Nat
        BY <1>2, <3>1
      <3> QED BY <1>2, <3>1, <3>2
    <2> QED BY <2>1, <2>2
  <1>4. CASE RecordDispute(a)
    <2>1. CASE work[a].status \in Running
      <3>1. work' = [work EXCEPT ![a].status = "blocked", ![a].banner = "labour"]
        BY <1>4, <2>1 DEF RecordDispute
      <3>2. work' \in [Activities -> ActivityRecords]
        <4> DEFINE x == [work[a] EXCEPT !.status = "blocked", !.banner = "labour"]
        <4>1. x \in ActivityRecords
          BY <1>1 DEF WorkTyped, ActivityRecords, Statuses
        <4>2. work' = [work EXCEPT ![a] = x] /\ work \in [Activities -> ActivityRecords]
          BY <1>1, <3>1 DEF WorkTyped
        <4> HIDE DEF x
        <4> QED BY <4>1, <4>2
      <3>3. work'[a].status = "blocked" /\ \A b \in Activities \ {a} : work'[b] = work[b]
        BY <1>1, <1>2, <3>1 DEF WorkTyped, ActivityRecords
      <3>4. GoodRecord(a)
        BY <1>1, <2>1, <3>3 DEF GoodRecord, MeasuredStaysDone, Running
      <3> QED BY <1>3, <3>2, <3>3, <3>4, EachActivity
    <2>2. CASE work[a].status \notin Running
      BY <1>1, <1>3, <1>4, <2>2, EachActivity DEF RecordDispute, WorkTyped
    <2> QED BY <2>1, <2>2
  <1>5. CASE ResolveDispute(a)
    <2>1. CASE disputes[a] = 1 /\ work[a].status = "blocked" /\ work[a].banner = "labour"
      <3>1. work' = [work EXCEPT ![a].status = Resumed(work[a]), ![a].banner = ""]
        BY <1>5, <2>1 DEF ResolveDispute
      <3>6. disputes'[a] = 0
        <4>1. disputes' = [disputes EXCEPT ![a] = disputes[a] - 1]
          BY <1>5 DEF ResolveDispute
        <4> QED BY <1>2, <2>1, <4>1
      <3>2. Resumed(work[a]) \in Running
        BY DEF Resumed, Running
      <3>3. work' \in [Activities -> ActivityRecords]
        <4> DEFINE st == Resumed(work[a])
        <4>1. st \in Statuses /\ work' = [work EXCEPT ![a].status = st, ![a].banner = ""]
          BY <3>1, <3>2 DEF Running, Statuses
        <4> HIDE DEF st
        <4> DEFINE x == [work[a] EXCEPT !.status = st, !.banner = ""]
        <4>2. x \in ActivityRecords
          BY <1>1, <4>1 DEF WorkTyped, ActivityRecords
        <4>3. work' = [work EXCEPT ![a] = x] /\ work \in [Activities -> ActivityRecords]
          BY <1>1, <4>1 DEF WorkTyped
        <4> HIDE DEF x
        <4> QED BY <4>2, <4>3
      <3>4. /\ work'[a].status = Resumed(work[a]) /\ work'[a].started = work[a].started
            /\ \A b \in Activities \ {a} : work'[b] = work[b]
        BY <1>1, <1>2, <3>1 DEF WorkTyped, ActivityRecords
      <3>5. GoodRecord(a)
        BY <1>1, <1>2, <2>1, <3>4, <3>6 DEF GoodRecord, MeasuredStaysDone, Resumed, ActivityRecords
      <3> QED BY <1>3, <3>3, <3>4, <3>5, EachActivity
    <2>2. CASE ~(disputes[a] = 1 /\ work[a].status = "blocked" /\ work[a].banner = "labour")
      BY <1>1, <1>3, <1>5, <2>2, EachActivity DEF ResolveDispute, WorkTyped
    <2> QED BY <2>1, <2>2
  <1> QED BY <1>4, <1>5

\* Deciding an inspection moves the activity it closes, or leaves all of them.
LEMMA DecisionGood ==
    ASSUME ActivityInv, NEW i \in DOMAIN insps, Approve(i) \/ \E p \in People : Reject(i, p)
    PROVE  GoodStep
  <1> DEFINE a == insps[i].activity
  <1>1. UNCHANGED <<measured, disputes>> /\ (SignOff(a) \/ Revert(a) \/ UNCHANGED work)
    BY DEF Approve, Reject
  <1>2. CASE a \notin Activities
    <2>1. UNCHANGED work
      BY <1>1, <1>2 DEF SignOff, Revert, ActivityInv, WorkTyped
    <2> QED BY <1>1, <2>1, SameWork
  <1>3. CASE a \in Activities
    BY <1>1, <1>3, ExecutionGood, SameWork
  <1> QED BY <1>2, <1>3

LEMMA StepGood == ActivityInv /\ [Next]_vars => GoodStep
  <1> SUFFICES ASSUME ActivityInv, [Next]_vars PROVE GoodStep
    OBVIOUS
  <1>1. CASE UNCHANGED vars
    BY <1>1, SameWork DEF vars
  <1>2. CASE ReviewNext
    <2>1. ASSUME NEW a \in Activities,
                 Create(a) \/ Start(a) \/ Issue(a) \/ Measure(a) \/ \E u \in People : Complete(a, u)
          PROVE  GoodStep
      BY <2>1, ExecutionGood, MeasureGood, SameWork DEF Issue
    <2>2. ASSUME NEW i \in DOMAIN insps, Approve(i) \/ \E p \in People : PrepareSubmit(i, p) \/ Reject(i, p)
          PROVE  GoodStep
      BY <2>2, DecisionGood, SameWork DEF PrepareSubmit
    <2>3. ASSUME NEW c \in calls, ApplySubmit(c) \/ Abandon(c)
          PROVE  GoodStep
      BY <2>3, SameWork DEF ApplySubmit, Abandon
    <2>4. ASSUME NEW p \in People, ChangeMember(p)
          PROVE  GoodStep
      BY <2>4, SameWork DEF ChangeMember
    <2> QED BY <1>2, <2>1, <2>2, <2>3, <2>4 DEF ReviewNext
  <1>3. CASE DisputeNext
    <2>1. ASSUME StartLog \/ \E d \in Decisions : AddMaterial(d)
          PROVE  GoodStep
      BY <2>1, SameWork DEF StartLog, AddMaterial
    <2>2. ASSUME NEW d \in Decisions, FlagMismatch(d) \/ \E k \in DOMAIN site : ResolveMismatch(k, d)
          PROVE  GoodStep
      <3>1. CASE FlagMismatch(d)
        BY <3>1, FlagGood
      <3>2. CASE \E k \in DOMAIN site : ResolveMismatch(k, d)
        <4>1. UNCHANGED <<measured, disputes>> /\ (UNCHANGED work \/ work' = ClearedFor(d))
          BY <3>2 DEF ResolveMismatch
        <4> QED BY <4>1, SameWork, ReleaseGood
      <3> QED BY <2>2, <3>1, <3>2
    <2>3. ASSUME NEW a \in Activities, Update(a) \/ RecordDispute(a) \/ ResolveDispute(a)
          PROVE  GoodStep
      BY <2>3, ExecutionGood, DisputeGood
    <2> QED BY <1>3, <2>1, <2>2, <2>3 DEF DisputeNext
  <1> QED BY <1>1, <1>2, <1>3 DEF Next

(* Whatever blocks it and whatever releases it, an activity is at its start *)
(* exactly when nobody has started it, and measured work stays accepted.    *)
THEOREM WorkRemembered == Spec => []ProgressIsKept
  <1>1. Init => ActivityInv
    BY InitHolds
  <1>2. ActivityInv /\ [Next]_vars => ActivityInv'
    BY StepGood DEF GoodStep
  <1>3. ActivityInv => ProgressIsKept
    BY DEF ActivityInv, ProgressIsKept
  <1> QED BY <1>1, <1>2, <1>3, PTL DEF Spec

(* A blocked activity is never released over an unresolved crew dispute.    *)
THEOREM DisputeHolds == Spec => LabourStillHeld
  <1>1. Init => ActivityInv
    BY InitHolds
  <1>2. ActivityInv /\ [Next]_vars => ActivityInv'
    BY StepGood DEF GoodStep
  <1>3. ActivityInv /\ [Next]_vars
        => [\A a \in Activities : work[a].status = "blocked" /\ work'[a].status # "blocked" => disputes'[a] = 0]_vars
    BY StepGood DEF GoodStep, HeldStep
  <1> QED BY <1>1, <1>2, <1>3, PTL DEF Spec, LabourStillHeld
------------------------------------------------------------------------------
(* The inspections: what a command does to their sequence, one inspection   *)
(* at a time, and what that does to the claims that wait for one.           *)

InspectionRecords ==
    [activity: Activities, closing: BOOLEAN, parent: 0 .. MaxInspections,
     assignee: People \cup {Nobody}, by: People \cup {Nobody},
     state: {"open", "submitted", "approved", "rejected"}]

\* A parent is a rejected inspection of the same activity; each rejected one has a child,
\* and no two inspections have the same parent.
Follows(q, j) ==
    LET i == q[j].parent
    IN  i \in DOMAIN q /\ q[i].state = "rejected" /\ q[i].activity = q[j].activity /\ ~q[j].closing

Rechecked(q) ==
    /\ \A j \in DOMAIN q : q[j].parent # 0 => Follows(q, j)
    /\ \A i \in DOMAIN q : q[i].state = "rejected" => \E j \in DOMAIN q : q[j].parent = i
    /\ \A j, k \in DOMAIN q : q[j].parent # 0 /\ q[j].parent = q[k].parent => j = k

\* Nothing is removed, and an inspection keeps its activity and its kind.
Extends(q, r) ==
    \A i \in DOMAIN q : i \in DOMAIN r /\ r[i].activity = q[i].activity /\ r[i].closing = q[i].closing

\* An inspection is added that nobody asked for by a rejection.
LEMMA AddedHolds ==
    ASSUME NEW q \in Seq(InspectionRecords), Rechecked(q),
           NEW x \in InspectionRecords, x.parent = 0, x.state # "rejected"
    PROVE  /\ Append(q, x) \in Seq(InspectionRecords) /\ Rechecked(Append(q, x)) /\ Extends(q, Append(q, x))
           /\ \A i \in DOMAIN q : Append(q, x)[i] = q[i]
           /\ Len(q) + 1 \in DOMAIN Append(q, x) /\ Append(q, x)[Len(q) + 1] = x
  <1> DEFINE n == Len(q) + 1
             r == Append(q, x)
  <1>1. /\ r \in Seq(InspectionRecords) /\ Len(r) = n /\ Len(q) \in Nat
        /\ DOMAIN q = 1 .. Len(q) /\ DOMAIN r = 1 .. n
        /\ r[n] = x /\ \A i \in DOMAIN q : r[i] = q[i]
    BY AppendProperties, LenProperties
  <1> HIDE DEF r
  <1>2. n \in DOMAIN r /\ n \notin DOMAIN q /\ \A i \in DOMAIN r : i \in DOMAIN q \/ i = n
    BY <1>1
  <1>3. DOMAIN q \subseteq DOMAIN r
    BY <1>1
  <1> HIDE DEF n
  <1>4. ASSUME NEW j \in DOMAIN r, r[j].parent # 0 PROVE Follows(r, j)
    <2>1. j \in DOMAIN q /\ r[j] = q[j]
      BY <1>1, <1>2, <1>4
    <2>2. Follows(q, j)
      BY <2>1, <1>4 DEF Rechecked
    <2> QED BY <1>1, <1>3, <2>1, <2>2 DEF Follows
  <1>5. ASSUME NEW i \in DOMAIN r, r[i].state = "rejected" PROVE \E j \in DOMAIN r : r[j].parent = i
    <2>1. i \in DOMAIN q /\ r[i] = q[i]
      BY <1>1, <1>2, <1>5
    <2>2. PICK j \in DOMAIN q : q[j].parent = i
      BY <2>1, <1>5 DEF Rechecked
    <2> QED BY <1>1, <1>3, <2>2
  <1>6. ASSUME NEW j \in DOMAIN r, NEW k \in DOMAIN r, r[j].parent # 0, r[j].parent = r[k].parent PROVE j = k
    <2>1. j \in DOMAIN q /\ r[j] = q[j] /\ k \in DOMAIN q /\ r[k] = q[k]
      BY <1>1, <1>2, <1>6
    <2> QED BY <2>1, <1>6 DEF Rechecked
  <1>7. Rechecked(r)
    BY <1>4, <1>5, <1>6 DEF Rechecked
  <1>8. Extends(q, r)
    BY <1>1, <1>3 DEF Extends
  <1> QED BY <1>1, <1>2, <1>7, <1>8 DEF r, n

\* An inspection that is not rejected is submitted, approved or signed by someone.
LEMMA SettledHolds ==
    ASSUME NEW q \in Seq(InspectionRecords), Rechecked(q), NEW i \in DOMAIN q, q[i].state # "rejected",
           NEW x \in InspectionRecords, x.state # "rejected",
           x.activity = q[i].activity, x.closing = q[i].closing, x.parent = q[i].parent
    PROVE  /\ [q EXCEPT ![i] = x] \in Seq(InspectionRecords) /\ Rechecked([q EXCEPT ![i] = x])
           /\ Extends(q, [q EXCEPT ![i] = x]) /\ DOMAIN [q EXCEPT ![i] = x] = DOMAIN q
           /\ Len([q EXCEPT ![i] = x]) = Len(q)
           /\ \A j \in DOMAIN q : [q EXCEPT ![i] = x][j] = IF j = i THEN x ELSE q[j]
  <1> DEFINE r == [q EXCEPT ![i] = x]
  <1>1. DOMAIN q = 1 .. Len(q)
    BY LenProperties
  <1>2. /\ r \in Seq(InspectionRecords) /\ DOMAIN r = DOMAIN q /\ Len(r) = Len(q)
        /\ \A j \in DOMAIN q : r[j] = IF j = i THEN x ELSE q[j]
    BY <1>1, ExceptSeq
  <1> HIDE DEF r
  <1>3. \A j \in DOMAIN q : r[j].parent = q[j].parent /\ r[j].activity = q[j].activity /\ r[j].closing = q[j].closing
    BY <1>2
  <1>4. \A j \in DOMAIN q : r[j].state = "rejected" <=> q[j].state = "rejected"
    BY <1>2
  <1>5. ASSUME NEW j \in DOMAIN r, r[j].parent # 0 PROVE Follows(r, j)
    <2>1. Follows(q, j)
      BY <1>2, <1>3, <1>5 DEF Rechecked
    <2> QED BY <1>2, <1>3, <1>4, <2>1 DEF Follows
  <1>6. Rechecked(r)
    BY <1>2, <1>3, <1>4, <1>5 DEF Rechecked
  <1>7. Extends(q, r)
    BY <1>2, <1>3 DEF Extends
  <1> QED BY <1>2, <1>6, <1>7 DEF r

\* A rejection adds the one re-inspection of the inspection it rejects.
LEMMA RejectionHolds ==
    ASSUME NEW q \in Seq(InspectionRecords), Rechecked(q), NEW i \in DOMAIN q, q[i].state # "rejected",
           NEW x \in InspectionRecords, x.state = "rejected",
           x.activity = q[i].activity, x.closing = q[i].closing, x.parent = q[i].parent,
           NEW y \in InspectionRecords, y.activity = q[i].activity, y.parent = i, ~y.closing, y.state # "rejected"
    PROVE  LET r == Append([q EXCEPT ![i] = x], y)
           IN  /\ r \in Seq(InspectionRecords) /\ Rechecked(r) /\ Extends(q, r)
               /\ \A j \in DOMAIN q : r[j] = IF j = i THEN x ELSE q[j]
  <1> DEFINE n == Len(q) + 1
             s == [q EXCEPT ![i] = x]
             r == Append(s, y)
  <1>1. DOMAIN q = 1 .. Len(q) /\ Len(q) \in Nat
    BY LenProperties
  <1>2. s \in Seq(InspectionRecords) /\ Len(s) = Len(q) /\ \A j \in DOMAIN q : s[j] = IF j = i THEN x ELSE q[j]
    BY <1>1, ExceptSeq
  <1> HIDE DEF s
  <1>3. /\ r \in Seq(InspectionRecords) /\ Len(r) = n /\ r[n] = y
        /\ \A j \in DOMAIN q : r[j] = s[j]
    <2>1. /\ r \in Seq(InspectionRecords) /\ Len(r) = Len(s) + 1 /\ r[Len(s) + 1] = y
          /\ \A j \in 1 .. Len(s) : r[j] = s[j]
      BY <1>2, AppendProperties
    <2> QED BY <1>1, <1>2, <2>1
  <1>4. DOMAIN r = 1 .. n
    BY <1>3, LenProperties
  <1> HIDE DEF r
  <1>5. n \in DOMAIN r /\ n \notin DOMAIN q /\ DOMAIN q \subseteq DOMAIN r /\ \A j \in DOMAIN r : j \in DOMAIN q \/ j = n
    BY <1>1, <1>4
  <1>6. i # 0
    BY <1>1
  <1> HIDE DEF n
  <1>8. \A j \in DOMAIN q : r[j] = IF j = i THEN x ELSE q[j]
    BY <1>2, <1>3
  <1>9. \A j \in DOMAIN q : r[j].parent = q[j].parent /\ r[j].activity = q[j].activity /\ r[j].closing = q[j].closing
    BY <1>8
  <1>10. \A j \in DOMAIN q : q[j].state = "rejected" => r[j].state = "rejected"
    BY <1>8
  <1>11. \A j \in DOMAIN q : q[j].parent # i
    <2> SUFFICES ASSUME NEW j \in DOMAIN q, q[j].parent = i PROVE FALSE
      OBVIOUS
    <2>1. Follows(q, j)
      BY <1>6 DEF Rechecked
    <2> QED BY <2>1 DEF Follows
  <1>12. ASSUME NEW j \in DOMAIN r, r[j].parent # 0 PROVE Follows(r, j)
    <2>1. CASE j \in DOMAIN q
      <3>1. Follows(q, j)
        BY <1>9, <1>12, <2>1 DEF Rechecked
      <3> QED BY <1>5, <1>9, <1>10, <2>1, <3>1 DEF Follows
    <2>2. CASE j = n
      <3>1. r[i].state = "rejected" /\ r[i].activity = q[i].activity /\ i \in DOMAIN r
        BY <1>5, <1>8
      <3> QED BY <1>3, <2>2, <3>1 DEF Follows
    <2> QED BY <1>5, <2>1, <2>2
  <1>13. ASSUME NEW j \in DOMAIN r, r[j].state = "rejected" PROVE \E k \in DOMAIN r : r[k].parent = j
    <2>1. CASE j = i
      BY <1>3, <1>5, <2>1
    <2>2. CASE j # i
      <3>1. j \in DOMAIN q /\ q[j].state = "rejected"
        BY <1>3, <1>5, <1>8, <1>13, <2>2
      <3>2. PICK k \in DOMAIN q : q[k].parent = j
        BY <3>1 DEF Rechecked
      <3> QED BY <1>5, <1>9, <3>2
    <2> QED BY <2>1, <2>2
  <1>14. ASSUME NEW j \in DOMAIN r, NEW k \in DOMAIN r, r[j].parent # 0, r[j].parent = r[k].parent PROVE j = k
    <2>1. CASE j \in DOMAIN q /\ k \in DOMAIN q
      BY <1>9, <1>14, <2>1 DEF Rechecked
    <2>2. CASE j = n /\ k \in DOMAIN q
      BY <1>3, <1>9, <1>11, <1>14, <2>2
    <2>3. CASE j \in DOMAIN q /\ k = n
      BY <1>3, <1>9, <1>11, <1>14, <2>3
    <2> QED BY <1>5, <2>1, <2>2, <2>3
  <1>15. Rechecked(r)
    BY <1>12, <1>13, <1>14 DEF Rechecked
  <1>16. Extends(q, r)
    BY <1>5, <1>9 DEF Extends
  <1> QED BY <1>3, <1>8, <1>15, <1>16 DEF r, s
CallsPlaced == \A c \in calls : c.insp \in DOMAIN insps

ReviewInv == TypeOK /\ Rechecked(insps) /\ ClaimHasReview /\ CallsPlaced

\* What a step does to the inspections and the claims.
RightSubmitter ==
    \A i \in DOMAIN insps : insps[i].state = "open" /\ insps'[i].state # "open"
        => ~BindsOthers(insps[i].assignee, insps'[i].by)

ReviewStep ==
    /\ insps' \in Seq(InspectionRecords) /\ Rechecked(insps') /\ Extends(insps, insps')
    /\ ClaimHasReview' /\ RightSubmitter

Claimed(a) == work[a].status = "awaiting_signoff"

\* A claim stands as long as nobody decides its closing inspection without moving it.
LEMMA ClaimsStand ==
    ASSUME ClaimHasReview, Extends(insps, insps'),
           \A a \in Activities : Claimed(a)' /\ ~Claimed(a) =>
               \E i \in DOMAIN insps' : insps'[i].activity = a /\ insps'[i].closing /\ insps'[i].state = "submitted",
           \A i \in DOMAIN insps : insps[i].closing /\ insps[i].state = "submitted" =>
               insps'[i].state = "submitted" \/ work'[insps[i].activity].status # "awaiting_signoff"
    PROVE  ClaimHasReview'
  <1> SUFFICES ASSUME NEW a \in Activities, Claimed(a)'
               PROVE  \E i \in InspectionsOf(a)' : insps'[i].closing /\ insps'[i].state = "submitted"
    BY DEF ClaimHasReview, Claimed
  <1>1. CASE ~Claimed(a)
    BY <1>1 DEF InspectionsOf
  <1>2. CASE Claimed(a)
    <2>1. PICK i \in InspectionsOf(a) : insps[i].closing /\ insps[i].state = "submitted"
      BY <1>2 DEF ClaimHasReview, Claimed
    <2>2. i \in DOMAIN insps /\ insps[i].activity = a
      BY <2>1 DEF InspectionsOf
    <2>3. insps'[i].state = "submitted"
      BY <2>1, <2>2 DEF Claimed
    <2>4. i \in InspectionsOf(a)' /\ insps'[i].closing
      BY <2>1, <2>2 DEF Extends, InspectionsOf
    <2> QED BY <2>3, <2>4
  <1> QED BY <1>1, <1>2

\* Steps that leave the inspections alone make no claim.
LEMMA SameInspections ==
    ASSUME ReviewInv, insps' = insps, \A a \in Activities : Claimed(a)' => Claimed(a)
    PROVE  ReviewStep
  <1>1. insps' \in Seq(InspectionRecords) /\ Rechecked(insps')
    BY DEF ReviewInv, TypeOK, InspectionRecords
  <1>2. Extends(insps, insps') /\ RightSubmitter
    BY DEF Extends, RightSubmitter
  <1>3. ClaimHasReview'
    BY <1>2, ClaimsStand DEF ReviewInv
  <1> QED BY <1>1, <1>2, <1>3 DEF ReviewStep

\* A new status for one activity that is no claim.
LEMMA OneStatus ==
    ASSUME WorkTyped, NEW a \in Activities, NEW s \in Statuses, s # "awaiting_signoff",
           work' = [work EXCEPT ![a].status = s]
    PROVE  \A b \in Activities : (Claimed(b)' => Claimed(b)) /\ (b = a => ~Claimed(b)')
  BY DEF WorkTyped, ActivityRecords, Claimed

LEMMA PlanReviews ==
    ASSUME ReviewInv, ActivityInv, NEW a \in Activities,
           Create(a) \/ Update(a) \/ Start(a) \/ RecordDispute(a) \/ ResolveDispute(a)
    PROVE  ReviewStep
  <1>1. work \in [Activities -> ActivityRecords] /\ insps' = insps
    BY DEF ActivityInv, WorkTyped, Create, Update, Start, RecordDispute, ResolveDispute
  <1>3. ASSUME NEW b \in Activities, Claimed(b)' PROVE Claimed(b)
    <2>1. CASE Create(a)
      BY <1>1, <1>3, <2>1 DEF Create, Claimed, ActivityRecords
    <2>2. CASE Update(a)
      <3>1. PICK e \in Decisions \cup {NoDecision}, g \in {"ok", "wait", "fail"} :
               work' = [work EXCEPT ![a].decision = e, ![a].gate = g]
        BY <2>2 DEF Update
      <3>2. work'[b].status = work[b].status
        BY <1>1, <3>1 DEF ActivityRecords
      <3> QED BY <1>3, <3>2 DEF Claimed
    <2>3. CASE Start(a)
      BY <1>1, <1>3, <2>3 DEF Start, Claimed, ActivityRecords
    <2>4. CASE RecordDispute(a)
      BY <1>1, <1>3, <2>4 DEF RecordDispute, Claimed, ActivityRecords
    <2>5. CASE ResolveDispute(a)
      BY <1>1, <1>3, <2>5 DEF ResolveDispute, Claimed, ActivityRecords, Resumed
    <2> QED BY <2>1, <2>2, <2>3, <2>4, <2>5
  <1> QED BY <1>1, <1>3, SameInspections

LEMMA DeliveryReviews ==
    ASSUME ReviewInv, ActivityInv, NEW d \in Decisions,
           FlagMismatch(d) \/ \E k \in DOMAIN site : ResolveMismatch(k, d)
    PROVE  ReviewStep
  <1>1. insps' = insps /\ (work' = work \/ work' = BlockedFor(d) \/ work' = ClearedFor(d)) /\ WorkTyped
    BY DEF FlagMismatch, ResolveMismatch, ActivityInv
  <1>2. ASSUME NEW a \in Activities, Claimed(a)' PROVE Claimed(a)
    <2>1. CASE work' = BlockedFor(d)
      BY <1>1, <1>2, <2>1, BlockKeeps DEF Claimed
    <2>2. CASE work' = ClearedFor(d)
      BY <1>1, <1>2, <2>2, ClearKeeps DEF Claimed, Kept, Resumed
    <2> QED BY <1>1, <1>2, <2>1, <2>2 DEF Claimed
  <1> QED BY <1>1, <1>2, SameInspections

\* A claim of completion brings its closing inspection; an issue brings an open one.
LEMMA AddedReviews ==
    ASSUME ReviewInv, ActivityInv, NEW a \in Activities,
           Issue(a) \/ \E u \in People : Complete(a, u)
    PROVE  ReviewStep
  <1>1. PICK closing \in BOOLEAN, st \in {"open", "submitted"}, u \in People \cup {Nobody} :
           insps' = Append(insps, Inspection(a, closing, 0, Nobody, st, u))
           /\ ((closing /\ st = "submitted") \/ work' = work)
    BY DEF Issue, Complete
  <1> DEFINE x == Inspection(a, closing, 0, Nobody, st, u)
  <1>2. x \in InspectionRecords /\ x.parent = 0 /\ x.state = st /\ x.activity = a /\ x.closing = closing
    <2>1. 0 \in 0 .. MaxInspections
      BY SiteAssumption
    <2> QED BY <2>1 DEF InspectionRecords, Inspection
  <1>3. insps \in Seq(InspectionRecords) /\ Rechecked(insps) /\ ClaimHasReview
    BY DEF ReviewInv, TypeOK, InspectionRecords
  <1> HIDE DEF x
  <1>4. /\ insps' \in Seq(InspectionRecords) /\ Rechecked(insps') /\ Extends(insps, insps')
        /\ \A i \in DOMAIN insps : insps'[i] = insps[i]
        /\ Len(insps) + 1 \in DOMAIN insps' /\ insps'[Len(insps) + 1] = x
    <2>1. insps' = Append(insps, x) /\ x.state # "rejected"
      BY <1>1, <1>2 DEF x
    <2> QED BY <1>2, <1>3, <2>1, AddedHolds
  <1>5. ASSUME NEW b \in Activities, Claimed(b)', ~Claimed(b)
        PROVE  \E i \in DOMAIN insps' : insps'[i].activity = b /\ insps'[i].closing /\ insps'[i].state = "submitted"
    <2>1. work' # work
      BY <1>5 DEF Claimed
    <2>2. closing /\ st = "submitted"
      BY <1>1, <2>1
    <2>3. b = a
      <3>1. PICK v \in People : Complete(a, v)
        BY <2>1 DEF Issue
      <3> QED BY <1>5, <3>1 DEF Complete, ActivityInv, WorkTyped, Claimed
    <2> QED BY <1>2, <1>4, <2>2, <2>3
  <1>6. ClaimHasReview'
    BY <1>3, <1>4, <1>5, ClaimsStand
  <1>7. RightSubmitter
    BY <1>4 DEF RightSubmitter
  <1> QED BY <1>4, <1>6, <1>7 DEF ReviewStep
\* A submission signs the open inspection it read, and may reject it at once.
LEMMA SubmitReviews ==
    ASSUME ReviewInv, NEW c \in calls, ApplySubmit(c)
    PROVE  ReviewStep
  <1> DEFINE i == c.insp
  <1>1. /\ insps \in Seq(InspectionRecords) /\ Rechecked(insps) /\ ClaimHasReview
        /\ i \in DOMAIN insps /\ c.by \in People /\ c.to \in People \cup {Nobody}
    BY DEF ReviewInv, TypeOK, InspectionRecords, CallsPlaced
  <1>2. insps[i].state = "open" /\ insps[i].assignee = c.seen /\ ~BindsOthers(c.seen, c.by) /\ work' = work
    BY DEF ApplySubmit, Submittable
  <1>3. i # 0 /\ DOMAIN insps = 1 .. Len(insps) /\ Len(insps) \in Nat /\ insps[i] \in InspectionRecords
    BY <1>1, LenProperties, ElementOfSeq
  <1> DEFINE x(s) == [insps[i] EXCEPT !.state = s, !.by = c.by]
             done(s) == [insps EXCEPT ![i].state = s, ![i].by = c.by]
  <1>4. ASSUME NEW s \in {"submitted", "approved", "rejected"}
        PROVE  /\ x(s) \in InspectionRecords /\ x(s).activity = insps[i].activity /\ x(s).closing = insps[i].closing
               /\ x(s).parent = insps[i].parent /\ x(s).state = s /\ x(s).by = c.by
               /\ x(s).assignee = insps[i].assignee
    BY <1>1, <1>3 DEF InspectionRecords
  <1>5. \A s : done(s) = [insps EXCEPT ![i] = x(s)]
    BY <1>1
  <1>6. CASE \E s \in {"submitted", "approved"} : insps' = done(s)
    <2>1. PICK s \in {"submitted", "approved"} : insps' = done(s)
      BY <1>6
    <2> DEFINE y == x(s)
    <2>2. /\ y \in InspectionRecords /\ y.state = s /\ y.by = c.by
          /\ y.activity = insps[i].activity /\ y.closing = insps[i].closing /\ y.parent = insps[i].parent
      BY <1>4, <2>1
    <2>3. insps' = [insps EXCEPT ![i] = y]
      BY <1>5, <2>1
    <2> HIDE DEF x, done, y, i
    <2>4. insps[i].state # "rejected" /\ y.state # "rejected"
      BY <1>2, <2>1, <2>2
    <2>5. /\ insps' \in Seq(InspectionRecords) /\ Rechecked(insps') /\ Extends(insps, insps')
          /\ \A j \in DOMAIN insps : insps'[j] = IF j = i THEN y ELSE insps[j]
      BY <1>1, <2>2, <2>3, <2>4, SettledHolds
    <2>6. RightSubmitter
      BY <1>2, <2>2, <2>5 DEF RightSubmitter
    <2>7. \A j \in DOMAIN insps : insps[j].state = "submitted" => insps'[j].state = "submitted"
      BY <1>2, <2>5
    <2>8. ClaimHasReview'
      BY <1>1, <1>2, <2>5, <2>7, ClaimsStand DEF Claimed
    <2> QED BY <2>5, <2>6, <2>8 DEF ReviewStep
  <1>7. CASE Len(insps) < MaxInspections /\ insps' = Rejected(done("submitted"), i, c.to)
    <2> DEFINE q == [insps EXCEPT ![i] = x("submitted")]
               y == Inspection(insps[i].activity, FALSE, i, c.to, "open", Nobody)
               z == x("rejected")
    <2>1. /\ x("submitted") \in InspectionRecords /\ x("submitted").state = "submitted"
          /\ x("submitted").activity = insps[i].activity /\ x("submitted").closing = insps[i].closing
          /\ x("submitted").parent = insps[i].parent
      BY <1>4
    <2>2. z \in InspectionRecords /\ z.state = "rejected" /\ z.activity = insps[i].activity
          /\ z.closing = insps[i].closing /\ z.parent = insps[i].parent /\ z.by = c.by
      BY <1>4
    <2>3. /\ y \in InspectionRecords /\ y.activity = insps[i].activity /\ y.parent = i
          /\ ~y.closing /\ y.state = "open"
      <3>1. i \in 0 .. MaxInspections
        BY <1>1, <1>3, <1>7, SiteAssumption
      <3>2. insps[i].activity \in Activities
        BY <1>3 DEF InspectionRecords
      <3> QED BY <1>1, <3>1, <3>2 DEF InspectionRecords, Inspection
    <2>4. insps' = Append([q EXCEPT ![i] = z], y)
      <3>1. q[i] = x("submitted") /\ q[i].activity = insps[i].activity /\ done("submitted") = q
        BY <1>1, <1>5, <2>1
      <3>2. [x("submitted") EXCEPT !.state = "rejected"] = z
        OBVIOUS
      <3>3. i \in DOMAIN q
        BY <1>1
      <3>4. [q EXCEPT ![i].state = "rejected"] = [q EXCEPT ![i] = z]
        BY <3>1, <3>2, <3>3
      <3> QED BY <1>7, <3>1, <3>4 DEF Rejected
    <2> HIDE DEF x, done, y, z, i
    <2>5. insps[i].state # "rejected" /\ x("submitted").state # "rejected"
      BY <1>2, <2>1
    <2>6. /\ q \in Seq(InspectionRecords) /\ Rechecked(q) /\ Extends(insps, q) /\ DOMAIN q = DOMAIN insps
          /\ \A j \in DOMAIN insps : q[j] = IF j = i THEN x("submitted") ELSE insps[j]
      BY <1>1, <2>1, <2>5, SettledHolds
    <2> HIDE DEF q
    <2>7. q[i].state # "rejected" /\ q[i].activity = insps[i].activity /\ q[i].closing = insps[i].closing
          /\ q[i].parent = insps[i].parent /\ i \in DOMAIN q /\ y.state # "rejected"
      BY <1>1, <2>1, <2>3, <2>5, <2>6
    <2>8. /\ insps' \in Seq(InspectionRecords) /\ Rechecked(insps') /\ Extends(q, insps')
          /\ \A j \in DOMAIN q : insps'[j] = IF j = i THEN z ELSE q[j]
      <3>1. /\ z.activity = q[i].activity /\ z.closing = q[i].closing /\ z.parent = q[i].parent
            /\ y.activity = q[i].activity
        BY <2>2, <2>3, <2>7
      <3>2. z \in InspectionRecords /\ z.state = "rejected"
        BY <2>2
      <3>3. y \in InspectionRecords /\ y.parent = i /\ ~y.closing /\ y.state # "rejected"
        BY <2>3, <2>7
      <3>4. q \in Seq(InspectionRecords) /\ Rechecked(q) /\ i \in DOMAIN q /\ q[i].state # "rejected"
        BY <2>6, <2>7
      <3> QED BY <2>4, <3>1, <3>2, <3>3, <3>4, RejectionHolds
    <2>9. Extends(insps, insps') /\ \A j \in DOMAIN insps : insps'[j] = IF j = i THEN z ELSE insps[j]
      BY <2>6, <2>8 DEF Extends
    <2>10. RightSubmitter
      BY <1>2, <2>2, <2>9 DEF RightSubmitter
    <2>11. \A j \in DOMAIN insps : insps[j].state = "submitted" => insps'[j].state = "submitted"
      BY <1>2, <2>9
    <2>12. ClaimHasReview'
      BY <1>1, <1>2, <2>9, <2>11, ClaimsStand DEF Claimed
    <2> QED BY <2>8, <2>9, <2>10, <2>12 DEF ReviewStep
  <1> QED BY <1>6, <1>7 DEF ApplySubmit

\* A decision on a submitted inspection moves the claim it closes with it.
LEMMA DecidedReviews ==
    ASSUME ReviewInv, ActivityInv, NEW i \in DOMAIN insps, Approve(i) \/ \E p \in People : Reject(i, p)
    PROVE  ReviewStep
  <1>1. insps \in Seq(InspectionRecords) /\ Rechecked(insps) /\ ClaimHasReview /\ WorkTyped
    BY DEF ReviewInv, TypeOK, InspectionRecords, ActivityInv
  <1>2. /\ DOMAIN insps = 1 .. Len(insps) /\ Len(insps) \in Nat /\ insps[i] \in InspectionRecords
        /\ insps[i].activity \in Activities
    <2>1. DOMAIN insps = 1 .. Len(insps) /\ Len(insps) \in Nat /\ insps[i] \in InspectionRecords
      BY <1>1, LenProperties, ElementOfSeq
    <2> QED BY <2>1 DEF InspectionRecords
  <1>3. insps[i].state = "submitted"
    BY DEF Approve, Reject, Decidable
  <1> PICK a \in Activities : a = insps[i].activity
    BY <1>2
  <1>4. PICK s \in {"done", "in_progress"} :
           IF insps[i].closing THEN work' = [work EXCEPT ![a].status = s] ELSE work' = work
    BY DEF Approve, Reject, SignOff, Revert
  <1>5. (insps[i].closing => ~Claimed(a)') /\ \A b \in Activities : Claimed(b)' => Claimed(b)
    <2>1. CASE insps[i].closing
      <3>1. s \in Statuses /\ s # "awaiting_signoff"
        BY DEF Statuses, Running
      <3> QED BY <1>1, <1>2, <1>4, <2>1, <3>1, OneStatus
    <2>2. CASE ~insps[i].closing
      BY <1>4, <2>2 DEF Claimed
    <2> QED BY <2>1, <2>2
  <1>6. CASE Approve(i)
    <2> DEFINE x == [insps[i] EXCEPT !.state = "approved"]
    <2>1. /\ x \in InspectionRecords /\ x.state = "approved"
          /\ x.activity = insps[i].activity /\ x.closing = insps[i].closing /\ x.parent = insps[i].parent
      BY <1>2 DEF InspectionRecords
    <2>2. insps' = [insps EXCEPT ![i] = x]
      BY <1>6 DEF Approve
    <2> HIDE DEF x
    <2>3. x.state # "rejected" /\ insps[i].state # "rejected"
      BY <1>3, <2>1
    <2>4. /\ insps' \in Seq(InspectionRecords) /\ Rechecked(insps') /\ Extends(insps, insps')
          /\ \A j \in DOMAIN insps : insps'[j] = IF j = i THEN x ELSE insps[j]
      BY <1>1, <2>1, <2>2, <2>3, SettledHolds
    <2>5. RightSubmitter
      BY <1>3, <2>4 DEF RightSubmitter
    <2>6. \A j \in DOMAIN insps : insps[j].closing /\ insps[j].state = "submitted" =>
             insps'[j].state = "submitted" \/ work'[insps[j].activity].status # "awaiting_signoff"
      BY <1>5, <2>4 DEF Claimed
    <2>7. ClaimHasReview'
      BY <1>1, <1>5, <2>4, <2>6, ClaimsStand
    <2> QED BY <2>4, <2>5, <2>7 DEF ReviewStep
  <1>7. ASSUME NEW p \in People, Reject(i, p) PROVE ReviewStep
    <2> DEFINE x == [insps[i] EXCEPT !.state = "rejected"]
               y == Inspection(insps[i].activity, FALSE, i, p, "open", Nobody)
    <2>1. /\ x \in InspectionRecords /\ x.state = "rejected"
          /\ x.activity = insps[i].activity /\ x.closing = insps[i].closing /\ x.parent = insps[i].parent
      BY <1>2 DEF InspectionRecords
    <2>2. /\ y \in InspectionRecords /\ y.activity = insps[i].activity /\ y.parent = i
          /\ ~y.closing /\ y.state = "open"
      <3>1. i \in 0 .. MaxInspections
        BY <1>2, <1>7, SiteAssumption DEF Reject
      <3> QED BY <1>2, <3>1 DEF InspectionRecords, Inspection
    <2>3. insps' = Append([insps EXCEPT ![i] = x], y)
      <3>1. [insps EXCEPT ![i].state = "rejected"] = [insps EXCEPT ![i] = x]
        OBVIOUS
      <3> QED BY <1>7, <3>1 DEF Reject, Rejected
    <2> HIDE DEF x, y
    <2>4. insps[i].state # "rejected" /\ y.state # "rejected"
      BY <1>3, <2>2
    <2>5. /\ insps' \in Seq(InspectionRecords) /\ Rechecked(insps') /\ Extends(insps, insps')
          /\ \A j \in DOMAIN insps : insps'[j] = IF j = i THEN x ELSE insps[j]
      <3>1. /\ x \in InspectionRecords /\ x.state = "rejected"
            /\ x.activity = insps[i].activity /\ x.closing = insps[i].closing /\ x.parent = insps[i].parent
        BY <2>1
      <3>2. y \in InspectionRecords /\ y.parent = i /\ ~y.closing /\ y.state # "rejected"
        BY <2>2, <2>4
      <3>3. y.activity = insps[i].activity
        BY <2>2
      <3>4. insps \in Seq(InspectionRecords) /\ Rechecked(insps) /\ insps[i].state # "rejected"
        BY <1>1, <2>4
      <3> QED BY <2>3, <3>1, <3>2, <3>3, <3>4, RejectionHolds
    <2>6. RightSubmitter
      BY <1>3, <2>5 DEF RightSubmitter
    <2>7. \A j \in DOMAIN insps : insps[j].closing /\ insps[j].state = "submitted" =>
             insps'[j].state = "submitted" \/ work'[insps[j].activity].status # "awaiting_signoff"
      BY <1>5, <2>5 DEF Claimed
    <2>8. ClaimHasReview'
      BY <1>1, <1>5, <2>5, <2>7, ClaimsStand
    <2> QED BY <2>5, <2>6, <2>8 DEF ReviewStep
  <1> QED BY <1>6, <1>7
\* The rest of the types: what nobody reviews.
LEMMA OthersTyped ==
    ASSUME TypeOK, [Next]_vars
    PROVE  /\ role' \in [People -> Roles]
           /\ site' \in Seq([Decisions -> {"none", "matched", "flagged", "resolved"}])
           /\ disputes' \in [Activities -> 0 .. MaxDisputes]
           /\ calls' \subseteq [insp: Nat, by: People, seen: People \cup {Nobody},
                                then: {"review", "approve", "reject"}, to: People \cup {Nobody}]
  <1> DEFINE Calls == [insp: Nat, by: People, seen: People \cup {Nobody},
                       then: {"review", "approve", "reject"}, to: People \cup {Nobody}]
             Days == [Decisions -> {"none", "matched", "flagged", "resolved"}]
  <1>1. /\ role \in [People -> Roles] /\ site \in Seq(Days) /\ disputes \in [Activities -> 0 .. MaxDisputes]
        /\ calls \subseteq Calls /\ insps \in Seq(InspectionRecords)
    BY DEF TypeOK, InspectionRecords
  <1>2. role' \in [People -> Roles]
    <2>1. CASE \E p \in People : ChangeMember(p)
      BY <1>1, <2>1 DEF ChangeMember
    <2>2. CASE ~\E p \in People : ChangeMember(p)
      <3>1. role' = role
        BY <2>2 DEF Next, ReviewNext, DisputeNext, vars, Create, Update, Start, Complete, Measure, Issue, PrepareSubmit,
             Abandon, ApplySubmit, Approve, Reject, StartLog, AddMaterial, FlagMismatch, ResolveMismatch,
             RecordDispute, ResolveDispute
      <3> QED BY <1>1, <3>1
    <2> QED BY <2>1, <2>2
  <1>3. calls' \subseteq Calls
    <2>1. CASE \E i \in DOMAIN insps, u \in People : PrepareSubmit(i, u)
      <3>1. PICK i \in DOMAIN insps, u \in People : PrepareSubmit(i, u)
        BY <2>1
      <3>2. PICK c \in [insp: {i}, by: {u}, seen: {insps[i].assignee}, then: {"review", "approve", "reject"},
                        to: People \cup {Nobody}] : calls' = calls \cup {c}
        BY <3>1 DEF PrepareSubmit
      <3>3. i \in Nat /\ insps[i].assignee \in People \cup {Nobody}
        <4>1. DOMAIN insps = 1 .. Len(insps) /\ insps[i] \in InspectionRecords
          BY <1>1, LenProperties, ElementOfSeq
        <4> QED BY <4>1 DEF InspectionRecords
      <3>4. c \in Calls
        BY <3>3
      <3> QED BY <1>1, <3>2, <3>4
    <2>2. CASE ~\E i \in DOMAIN insps, u \in People : PrepareSubmit(i, u)
      <3>1. calls' \subseteq calls
        BY <2>2 DEF Next, ReviewNext, DisputeNext, vars, Create, Update, Start, Complete, Measure, Issue,
             Abandon, ApplySubmit, Approve, Reject, StartLog, AddMaterial, FlagMismatch, ResolveMismatch,
             RecordDispute, ResolveDispute, ChangeMember
      <3> QED BY <1>1, <3>1
    <2> QED BY <2>1, <2>2
  <1>4. disputes' \in [Activities -> 0 .. MaxDisputes]
    <2>1. ASSUME NEW a \in Activities, RecordDispute(a) PROVE disputes' \in [Activities -> 0 .. MaxDisputes]
      <3>1. disputes' = [disputes EXCEPT ![a] = disputes[a] + 1] /\ disputes[a] < MaxDisputes
        BY <2>1 DEF RecordDispute
      <3>2. disputes[a] + 1 \in 0 .. MaxDisputes
        BY <1>1, <3>1, SiteAssumption
      <3> QED BY <1>1, <3>1, <3>2
    <2>2. ASSUME NEW a \in Activities, ResolveDispute(a) PROVE disputes' \in [Activities -> 0 .. MaxDisputes]
      <3>1. disputes' = [disputes EXCEPT ![a] = disputes[a] - 1] /\ disputes[a] > 0
        BY <2>2 DEF ResolveDispute
      <3>2. disputes[a] - 1 \in 0 .. MaxDisputes
        BY <1>1, <3>1, SiteAssumption
      <3> QED BY <1>1, <3>1, <3>2
    <2>3. CASE ~\E a \in Activities : RecordDispute(a) \/ ResolveDispute(a)
      <3>1. disputes' = disputes
        BY <2>3 DEF Next, ReviewNext, DisputeNext, vars, Create, Update, Start, Complete, Measure, Issue, PrepareSubmit,
             Abandon, ApplySubmit, Approve, Reject, StartLog, AddMaterial, FlagMismatch, ResolveMismatch, ChangeMember
      <3> QED BY <1>1, <3>1
    <2> QED BY <2>1, <2>2, <2>3
  <1>5. site' \in Seq(Days)
    <2>1. DOMAIN site = 1 .. Len(site) /\ Len(site) \in Nat /\ (site # <<>> => Len(site) \in DOMAIN site)
      <3>1. DOMAIN site = 1 .. Len(site) /\ Len(site) \in Nat
        BY <1>1, LenProperties
      <3>2. site # <<>> => Len(site) \in Nat \ {0}
        BY <1>1, EmptySeq
      <3> QED BY <3>1, <3>2
    <2>2. ASSUME NEW k \in DOMAIN site, NEW d \in Decisions, NEW v \in {"none", "matched", "flagged", "resolved"},
                 site' = [site EXCEPT ![k][d] = v]
          PROVE  site' \in Seq(Days)
      <3> DEFINE e == [site[k] EXCEPT ![d] = v]
      <3>1. e \in Days
        BY <1>1, <2>1, ElementOfSeq
      <3>2. site' = [site EXCEPT ![k] = e]
        BY <2>2
      <3> HIDE DEF e
      <3> QED BY <1>1, <2>1, <3>1, <3>2, ExceptSeq
    <2>3. CASE StartLog
      <3> DEFINE e == [d \in Decisions |-> "none"]
      <3>1. e \in Days /\ site' = Append(site, e)
        BY <2>3 DEF StartLog
      <3> HIDE DEF e
      <3> QED BY <1>1, <3>1, AppendProperties
    <2>4. ASSUME NEW d \in Decisions, AddMaterial(d) PROVE site' \in Seq(Days)
      BY <2>1, <2>2, <2>4 DEF AddMaterial
    <2>5. ASSUME NEW d \in Decisions, FlagMismatch(d) PROVE site' \in Seq(Days)
      <3>1. site # <<>> /\ Len(site) \in DOMAIN site
        BY <2>1, <2>5 DEF FlagMismatch
      <3>2. site[Len(site)] \in Days
        BY <1>1, <2>1, <3>1, ElementOfSeq
      <3> DEFINE v == IF site[Len(site)][d] = "resolved" THEN site[Len(site)][d] ELSE "flagged"
      <3>3. v \in {"none", "matched", "flagged", "resolved"}
        BY <3>2
      <3>4. site' = [site EXCEPT ![Len(site)][d] = v]
        BY <2>5 DEF FlagMismatch
      <3> HIDE DEF v
      <3> QED BY <2>2, <3>1, <3>3, <3>4
    <2>6. ASSUME NEW d \in Decisions, NEW k \in DOMAIN site, ResolveMismatch(k, d) PROVE site' \in Seq(Days)
      BY <2>2, <2>6 DEF ResolveMismatch
    <2>7. CASE ~(StartLog \/ \E d \in Decisions : AddMaterial(d) \/ FlagMismatch(d)
                              \/ \E k \in DOMAIN site : ResolveMismatch(k, d))
      <3>1. site' = site
        BY <2>7 DEF Next, ReviewNext, DisputeNext, vars, Create, Update, Start, Complete, Measure, Issue, PrepareSubmit,
             Abandon, ApplySubmit, Approve, Reject, ChangeMember, RecordDispute, ResolveDispute
      <3> QED BY <1>1, <3>1
    <2> QED BY <2>3, <2>4, <2>5, <2>6, <2>7
  <1> QED BY <1>2, <1>3, <1>4, <1>5

LEMMA ReviewsMove == ReviewInv /\ ActivityInv /\ [Next]_vars => ReviewStep
  <1> SUFFICES ASSUME ReviewInv, ActivityInv, [Next]_vars PROVE ReviewStep
    OBVIOUS
  <1>1. CASE UNCHANGED vars
    BY <1>1, SameInspections DEF vars, Claimed
  <1>2. CASE ReviewNext
    <2>1. ASSUME NEW a \in Activities,
                 Create(a) \/ Start(a) \/ Issue(a) \/ Measure(a) \/ \E u \in People : Complete(a, u)
          PROVE  ReviewStep
      <3>1. CASE Measure(a)
        BY <3>1, SameInspections DEF Measure, Claimed
      <3> QED BY <2>1, <3>1, PlanReviews, AddedReviews
    <2>2. ASSUME NEW i \in DOMAIN insps, Approve(i) \/ \E p \in People : PrepareSubmit(i, p) \/ Reject(i, p)
          PROVE  ReviewStep
      <3>1. CASE \E p \in People : PrepareSubmit(i, p)
        BY <3>1, SameInspections DEF PrepareSubmit, Claimed
      <3> QED BY <2>2, <3>1, DecidedReviews
    <2>3. ASSUME NEW c \in calls, ApplySubmit(c) \/ Abandon(c)
          PROVE  ReviewStep
      <3>1. CASE Abandon(c)
        BY <3>1, SameInspections DEF Abandon, Claimed
      <3> QED BY <2>3, <3>1, SubmitReviews
    <2>4. ASSUME NEW p \in People, ChangeMember(p)
          PROVE  ReviewStep
      BY <2>4, SameInspections DEF ChangeMember, Claimed
    <2> QED BY <1>2, <2>1, <2>2, <2>3, <2>4 DEF ReviewNext
  <1>3. CASE DisputeNext
    <2>1. ASSUME StartLog \/ \E d \in Decisions : AddMaterial(d)
          PROVE  ReviewStep
      BY <2>1, SameInspections DEF StartLog, AddMaterial, Claimed
    <2>2. ASSUME NEW d \in Decisions, FlagMismatch(d) \/ \E k \in DOMAIN site : ResolveMismatch(k, d)
          PROVE  ReviewStep
      BY <2>2, DeliveryReviews
    <2>3. ASSUME NEW a \in Activities, Update(a) \/ RecordDispute(a) \/ ResolveDispute(a)
          PROVE  ReviewStep
      BY <2>3, PlanReviews
    <2> QED BY <1>3, <2>1, <2>2, <2>3 DEF DisputeNext
  <1> QED BY <1>1, <1>2, <1>3 DEF Next

\* A call names an inspection, and none is ever removed.
LEMMA CallsStayPlaced ==
    ASSUME CallsPlaced, [Next]_vars, Extends(insps, insps')
    PROVE  CallsPlaced'
  <1>1. ASSUME NEW c \in calls', c \notin calls PROVE c.insp \in DOMAIN insps
    <2>1. PICK i \in DOMAIN insps, u \in People : PrepareSubmit(i, u)
      BY <1>1 DEF Next, ReviewNext, DisputeNext, vars, Create, Update, Start, Complete, Measure, Issue,
           Abandon, ApplySubmit, Approve, Reject, StartLog, AddMaterial, FlagMismatch, ResolveMismatch,
           RecordDispute, ResolveDispute, ChangeMember
    <2> QED BY <1>1, <2>1 DEF PrepareSubmit
  <1> QED BY <1>1 DEF CallsPlaced, Extends

LEMMA ReviewsHold == ReviewInv /\ ActivityInv /\ [Next]_vars => ReviewInv'
  <1> SUFFICES ASSUME ReviewInv, ActivityInv, [Next]_vars PROVE ReviewInv'
    OBVIOUS
  <1>1. ReviewStep
    BY ReviewsMove
  <1>2. WorkTyped'
    BY StepGood DEF GoodStep, ActivityInv
  <1>3. TypeOK'
    BY <1>1, <1>2, OthersTyped DEF ReviewInv, TypeOK, WorkTyped, ReviewStep, InspectionRecords
  <1>4. CallsPlaced'
    BY <1>1, CallsStayPlaced DEF ReviewInv, ReviewStep
  <1> QED BY <1>1, <1>3, <1>4 DEF ReviewInv, ReviewStep

LEMMA ReviewInit == Init => ReviewInv
  <1> SUFFICES ASSUME Init PROVE ReviewInv
    OBVIOUS
  <1>1. insps \in Seq(InspectionRecords) /\ DOMAIN insps = {}
    <2>1. insps \in Seq(InspectionRecords) /\ Len(insps) = 0
      BY EmptySeq DEF Init
    <2> QED BY <2>1, LenProperties
  <1>2. TypeOK
    <2>1. [a \in Activities |-> 0] \in [Activities -> 0 .. MaxDisputes]
      <3>1. 0 \in 0 .. MaxDisputes
        BY SiteAssumption
      <3> QED BY <3>1
    <2>2. work \in [Activities -> ActivityRecords]
      BY InitHolds DEF ActivityInv, WorkTyped
    <2>3. site \in Seq([Decisions -> {"none", "matched", "flagged", "resolved"}])
      BY EmptySeq DEF Init
    <2> QED BY <1>1, <2>1, <2>2, <2>3 DEF Init, TypeOK, InspectionRecords
  <1>3. Rechecked(insps)
    BY <1>1 DEF Rechecked
  <1>4. ClaimHasReview /\ CallsPlaced
    BY DEF Init, ClaimHasReview, CallsPlaced
  <1> QED BY <1>2, <1>3, <1>4 DEF ReviewInv

\* One child of each rejected inspection and none of the others, as a number.
LEMMA OneChild ==
    ASSUME insps \in Seq(InspectionRecords), Rechecked(insps)
    PROVE  OneRecheck
  <1> SUFFICES ASSUME NEW i \in DOMAIN insps
               PROVE  /\ Cardinality(ChildrenOf(i)) = (IF insps[i].state = "rejected" THEN 1 ELSE 0)
                      /\ \A j \in ChildrenOf(i) : insps[j].activity = insps[i].activity /\ ~insps[j].closing
    BY DEF OneRecheck
  <1>1. i # 0
    BY LenProperties
  <1>2. ASSUME NEW j \in ChildrenOf(i)
        PROVE  insps[i].state = "rejected" /\ insps[i].activity = insps[j].activity /\ ~insps[j].closing
    <2>1. j \in DOMAIN insps /\ insps[j].parent = i
      BY DEF ChildrenOf
    <2>2. Follows(insps, j)
      BY <1>1, <2>1 DEF Rechecked
    <2> QED BY <2>1, <2>2 DEF Follows
  <1>3. CASE insps[i].state = "rejected"
    <2>1. PICK j \in DOMAIN insps : insps[j].parent = i
      BY <1>3 DEF Rechecked
    <2>2. ChildrenOf(i) = {j}
      <3>1. \A k \in DOMAIN insps : insps[k].parent = i => k = j
        BY <1>1, <2>1 DEF Rechecked
      <3> QED BY <2>1, <3>1 DEF ChildrenOf
    <2>3. Cardinality(ChildrenOf(i)) = 1
      BY <2>2, FS_Singleton
    <2> QED BY <1>2, <1>3, <2>3
  <1>4. CASE insps[i].state # "rejected"
    <2>1. ChildrenOf(i) = {}
      BY <1>2, <1>4
    <2>2. Cardinality(ChildrenOf(i)) = 0
      BY <2>1, FS_EmptySet
    <2> QED BY <1>2, <1>4, <2>2
  <1> QED BY <1>3, <1>4

(* However submissions, decisions, blocks and releases interleave, every     *)
(* claim of completion has a closing inspection somebody can decide, and     *)
(* every rejection has its one re-inspection.                                *)
THEOREM ReviewsHoldUp == Spec => []ReviewsStand
  <1>1. Init => ReviewInv /\ ActivityInv
    BY ReviewInit, InitHolds
  <1>2. ReviewInv /\ ActivityInv /\ [Next]_vars => (ReviewInv /\ ActivityInv)'
    BY ReviewsHold, StepGood DEF GoodStep
  <1>3. ReviewInv => ReviewsStand
    BY OneChild DEF ReviewInv, ReviewsStand, TypeOK, InspectionRecords
  <1> QED BY <1>1, <1>2, <1>3, PTL DEF Spec

(* Whoever was assigned meanwhile, an open inspection is submitted only by   *)
(* a person whom its assignment lets submit when the submission commits.     *)
THEOREM SubmittedByRight == Spec => SubmitterHoldsWork
  <1>1. Init => ReviewInv /\ ActivityInv
    BY ReviewInit, InitHolds
  <1>2. ReviewInv /\ ActivityInv /\ [Next]_vars => (ReviewInv /\ ActivityInv)'
    BY ReviewsHold, StepGood DEF GoodStep
  <1>3. ReviewInv /\ ActivityInv /\ [Next]_vars
        => [\A i \in DOMAIN insps : insps[i].state = "open" /\ insps'[i].state # "open"
              => ~BindsOthers(insps[i].assignee, insps'[i].by)]_vars
    BY ReviewsMove DEF ReviewStep, RightSubmitter
  <1> QED BY <1>1, <1>2, <1>3, PTL DEF Spec, SubmitterHoldsWork

==============================================================================

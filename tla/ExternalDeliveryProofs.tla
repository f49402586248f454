------------------------ MODULE ExternalDeliveryProofs ------------------------
(***************************************************************************)
(* Safety of the external outbox, for any number of rows and workers.      *)
(*                                                                         *)
(* That no row closes unaccounted for, and that a cancellation overtakes a  *)
(* worker once at most, holds however slow the senders are.  That one worker at a time has a row, and that a  *)
(* cancellation is complete, holds while a claimed row is worked off       *)
(* within its lease (~SlowSenders); each theorem names what it assumes.    *)
(***************************************************************************)
EXTENDS ExternalDelivery, TLAPS

\* The variables' types, with no bound on a row's attempts.
AnyRow == [status : Statuses, attempts : Nat, action : {"dispatch", "noop"}, mark : BOOLEAN]

Shaped ==
    /\ emitted \subseteq Deliveries
    /\ row \in [Deliveries -> AnyRow]
    /\ due \subseteq Deliveries /\ expired \subseteq Deliveries /\ aged \subseteq Deliveries
    /\ active \in BOOLEAN
    /\ pc \in [Workers -> PCs]
    /\ queue \in [Workers -> SUBSET Deliveries]
    /\ job \in [Workers -> Deliveries \cup {NoDelivery}]
    /\ seen \in [Workers -> AnyRow]
    /\ loop \in [Workers -> Loop]
    /\ cancel \in CancelSteps
    /\ held \subseteq Family \cap emitted
    /\ live \in BOOLEAN
    /\ offered \subseteq Deliveries /\ nobody \subseteq Deliveries
    /\ late \in [Workers -> Nat]
    /\ bound \in [crashes : 0..MaxCrashes, retries : 0..MaxRetries, toggles : 0..MaxToggles]

\* A worker has a job exactly while dispatchOne runs, and claimed rows only
\* between its claim and the end of its pass.
Dispatching == {"catalog", "neutral", "check", "target", "verdict", "provider", "settle", "fail"}

JobInv ==
    \A w \in Workers :
        /\ job[w] \in Deliveries <=> pc[w] \in Dispatching
        /\ pc[w] \in {"idle", "claiming"} => queue[w] = {}
        /\ pc[w] = "fresh" => \A d, e \in queue[w] : d = e

\* What may be closed: it was offered, dropped on the record, or for nobody.
Accounted(d) == d \in offered \/ row[d].mark \/ d \in nobody

\* What a row's state says of its past: one not yet emitted, or not yet created,
\* is Absent; a no-op is a recorded cancellation; a success is accounted for.
RowHonest(d) ==
    /\ d \notin emitted => row[d].status = "absent"
    /\ row[d].status = "absent" => row[d] = Absent
    /\ row[d].action = "noop" => row[d].mark
    /\ row[d].status = "succeeded" => Accounted(d)

\* What a worker that is about to settle a row knows of it.
WorkerHonest(w) ==
    pc[w] \in Dispatching =>
        /\ row[job[w]].status # "absent"
        /\ seen[w].action = "noop" \/ pc[w] = "neutral" => row[job[w]].mark
        /\ pc[w] = "settle" => Accounted(job[w])
        /\ pc[w] = "verdict" /\ loop[w].told => job[w] \in offered

HonestInv == (\A d \in Deliveries : RowHonest(d)) /\ (\A w \in Workers : WorkerHonest(w))
-----------------------------------------------------------------------------
LEMMA RowTypes ==
    /\ Absent \in AnyRow /\ Fresh \in AnyRow /\ Tombstone \in AnyRow
    /\ \A r \in AnyRow, s \in Statuses, n \in Nat :
          [r EXCEPT !.status = s] \in AnyRow /\ [r EXCEPT !.attempts = n, !.status = s] \in AnyRow
    /\ \A r \in AnyRow, s \in Statuses, n \in Nat : [r EXCEPT !.status = s, !.attempts = n] \in AnyRow
    /\ \A r \in AnyRow, s \in Statuses, a \in {"dispatch", "noop"} : [r EXCEPT !.status = s, !.action = a] \in AnyRow
    /\ \A r \in AnyRow, s \in Statuses, a \in {"dispatch", "noop"} :
          [r EXCEPT !.status = s, !.action = a, !.mark = TRUE] \in AnyRow
    /\ \A r \in AnyRow : [r EXCEPT !.mark = TRUE, !.action = "noop"] \in AnyRow
    /\ \A r \in AnyRow : [r EXCEPT !.mark = TRUE] \in AnyRow
  <1>1. Absent \in AnyRow /\ Fresh \in AnyRow /\ Tombstone \in AnyRow
    BY DEF AnyRow, Absent, Fresh, Tombstone, Statuses
  <1>2. ASSUME NEW r \in AnyRow, NEW s \in Statuses, NEW n \in Nat
        PROVE  [r EXCEPT !.status = s] \in AnyRow /\ [r EXCEPT !.attempts = n, !.status = s] \in AnyRow
    BY DEF AnyRow
  <1>3. ASSUME NEW r \in AnyRow, NEW s \in Statuses, NEW n \in Nat
        PROVE  [r EXCEPT !.status = s, !.attempts = n] \in AnyRow
    BY DEF AnyRow
  <1>4. ASSUME NEW r \in AnyRow, NEW s \in Statuses, NEW a \in {"dispatch", "noop"}
        PROVE  [r EXCEPT !.status = s, !.action = a] \in AnyRow
    BY DEF AnyRow
  <1>5. ASSUME NEW r \in AnyRow, NEW s \in Statuses, NEW a \in {"dispatch", "noop"}
        PROVE  [r EXCEPT !.status = s, !.action = a, !.mark = TRUE] \in AnyRow
    BY DEF AnyRow
  <1>6. ASSUME NEW r \in AnyRow
        PROVE  [r EXCEPT !.mark = TRUE, !.action = "noop"] \in AnyRow /\ [r EXCEPT !.mark = TRUE] \in AnyRow
    BY DEF AnyRow
  <1> QED BY <1>1, <1>2, <1>3, <1>4, <1>5, <1>6

\* A worker offers a push of the family.
Overtakes(w) ==
    /\ pc[w] = "provider" /\ pc' = [pc EXCEPT ![w] = "verdict"]
    /\ job' = job /\ job[w] \in Family
    /\ late' = [late EXCEPT ![w] = IF cancel = "done" THEN @ + 1 ELSE @]

\* A worker's step leaves the events, the catalog and the canceller alone.
LEMMA WorkFrame ==
    ASSUME NEW w \in Workers, Work(w) \/ Crash(w)
    PROVE  /\ emitted' = emitted /\ active' = active
           /\ cancel' = cancel /\ held' = held /\ live' = live
           /\ offered' = offered \/ (pc[w] = "provider" /\ offered' = offered \cup {job[w]})
           /\ nobody' = nobody \/ (pc[w] = "target" /\ nobody' = nobody \cup {job[w]})
           /\ late' = late \/ Overtakes(w)
  <1>1. emitted' = emitted /\ active' = active /\ cancel' = cancel /\ held' = held /\ live' = live
    BY DEF Work, Crash, ClaimOne, BeginPass, Claim, EndPass, LoadRow, ReadCatalog, CheckMark, Neutralize, JudgeTarget,
           Verdict, EndLoop, JudgeFails, CallProvider, Settle, Fail, cancelVars
  <1>2. offered' = offered \/ (pc[w] = "provider" /\ offered' = offered \cup {job[w]})
    BY DEF Work, Crash, ClaimOne, BeginPass, Claim, EndPass, LoadRow, ReadCatalog, CheckMark, Neutralize, JudgeTarget,
           Verdict, EndLoop, JudgeFails, CallProvider, Settle, Fail, history
  <1>3. nobody' = nobody \/ (pc[w] = "target" /\ nobody' = nobody \cup {job[w]})
    BY DEF Work, Crash, ClaimOne, BeginPass, Claim, EndPass, LoadRow, ReadCatalog, CheckMark, Neutralize, JudgeTarget,
           Verdict, EndLoop, JudgeFails, CallProvider, Settle, Fail, history
  <1>4. late' = late \/ Overtakes(w)
    BY DEF Work, Crash, ClaimOne, BeginPass, Claim, EndPass, LoadRow, ReadCatalog, CheckMark, Neutralize, JudgeTarget,
           Verdict, EndLoop, JudgeFails, CallProvider, Settle, Fail, history, Overtakes, Goto
  <1> QED BY <1>1, <1>2, <1>3, <1>4

\* So does a step about one row, which may be its event's commit.
LEMMA RowFrame ==
    ASSUME NEW d \in Deliveries, Emit(d) \/ Retry(d) \/ TimePasses(d) \/ \E w \in Workers : Expand(w, d)
    PROVE  /\ emitted' = emitted \/ (Emit(d) /\ emitted' = emitted \cup {d})
           /\ active' = active /\ cancel' = cancel /\ held' = held /\ live' = live
           /\ UNCHANGED history
           /\ Emit(d) \/ UNCHANGED workVars
  BY DEF Emit, Retry, TimePasses, BackoffElapses, LeaseExpires, Ages, Expand, cancelVars, history

\* The operator and the canceller leave events, workers and history alone.
LEMMA OtherFrame ==
    ASSUME RequestActivation \/ BeginCancel \/ EndCancel \/ RollbackCancel \/ UNCHANGED vars
    PROVE  /\ emitted' = emitted /\ UNCHANGED history /\ UNCHANGED workVars
           /\ live' = live \/ (live' = FALSE /\ CommitCancel)
           /\ cancel' = "done" => cancel = "done" \/ CommitCancel
  BY DEF RequestActivation, BeginCancel, EndCancel, CancelPass, Entomb, Statement, CommitCancel, RollbackCancel,
         cancelVars, history, workVars, vars

LEMMA NextSplit ==
    ASSUME [Next]_vars
    PROVE  \/ \E w \in Workers : Work(w) \/ Crash(w)
           \/ \E d \in Deliveries : Emit(d) \/ Retry(d) \/ TimePasses(d) \/ \E w \in Workers : Expand(w, d)
           \/ RequestActivation \/ BeginCancel \/ EndCancel \/ RollbackCancel \/ UNCHANGED vars
  BY DEF Next

\* A worker's step touches no other worker.
LEMMA WorkerAlone ==
    ASSUME Shaped, NEW w \in Workers, Work(w) \/ Crash(w)
    PROVE  \A v \in Workers \ {w} : /\ pc'[v] = pc[v] /\ job'[v] = job[v]
                                    /\ queue'[v] = queue[v] /\ seen'[v] = seen[v]
                                    /\ loop'[v] = loop[v]
  BY DEF Shaped, Work, Crash, ClaimOne, BeginPass, Claim, EndPass, LoadRow, ReadCatalog, CheckMark,
         Neutralize, JudgeTarget, Verdict, EndLoop, JudgeFails, CallProvider, Settle, Fail, Goto, Forget, EndJob, Drop

\* A row's new value, field by field.
Holds(r, s, n, a, m) == r.status = s /\ r.attempts = n /\ r.action = a /\ r.mark = m
Becomes(d, s, n, a, m) == Holds(row'[d], s, n, a, m)

\* What a worker may write to the row of its job.
WorkerWrite(w) ==
    LET d == job[w]
        r == row[d]
        n == seen[w].attempts + 1 IN
    \/ pc[w] = "catalog" /\ ~active /\ seen[w].status = "leased" /\ Becomes(d, "pending", r.attempts, r.action, r.mark)
    \/ pc[w] = "catalog" /\ active /\ w \in Codeless /\ Becomes(d, "dead", seen[w].attempts, r.action, r.mark)
    \/ pc[w] = "neutral" /\ Becomes(d, "succeeded", r.attempts, "noop", r.mark)
    \/ pc[w] \in {"target", "verdict"} /\ Becomes(d, r.status, r.attempts, "noop", TRUE)
    \/ pc[w] = "settle" /\ Becomes(d, "succeeded", r.attempts, r.action, r.mark)
    \/ pc[w] = "fail" /\ n >= MaxAttempts /\ Becomes(d, "dead", n, r.action, r.mark)
    \/ pc[w] = "fail" /\ ~(n >= MaxAttempts) /\ Becomes(d, "pending", n, r.action, r.mark)

\* What the canceller writes to a row it holds.
CancelWrite(d) ==
    LET r == row[d] IN
    \/ r.status = "absent" /\ row'[d] = Tombstone
    \/ r.status = "pending" /\ Becomes(d, "succeeded", r.attempts, "noop", TRUE)
    \/ r.status \notin {"absent", "pending"} /\ Becomes(d, r.status, r.attempts, r.action, TRUE)

\* Every way in which a step can change a row.
RowMove(d) ==
    LET r == row[d] IN
    \/ row'[d] = r
    \/ d \notin emitted /\ d \in emitted' /\ row'[d] = DeliveryRow
    \/ r.status = "absent" /\ d \notin held /\ d \in emitted /\ active /\ row'[d] = Fresh
    \/ r.status \in {"pending", "leased"} /\ d \notin held /\ Becomes(d, "leased", r.attempts, r.action, r.mark)
    \/ r.status = "dead" /\ d \notin held /\ active /\ Becomes(d, "pending", 0, r.action, r.mark)
    \/ d \in held /\ cancel = "commit" /\ cancel' = "done" /\ CancelWrite(d)
    \/ d \notin held /\ \E w \in Workers : job[w] = d /\ Work(w) /\ WorkerWrite(w)

LEMMA RowMoves ==
    ASSUME Shaped, JobInv, [Next]_vars, NEW d \in Deliveries
    PROVE  RowMove(d)
  <1>0. row \in [Deliveries -> AnyRow] /\ held \subseteq Deliveries /\ row[d] \in AnyRow
    BY DEF Shaped
  <1>1. CASE \E w \in Workers : Work(w) \/ Crash(w)
    <2>1. PICK w \in Workers : Work(w) \/ Crash(w)
      BY <1>1
    <2>2. CASE ClaimOne(w) \/ Claim(w)
      <3>1. \/ row'[d] = row[d]
            \/ row[d].status \in {"pending", "leased"} /\ d \notin held /\ row'[d] = [row[d] EXCEPT !.status = "leased"]
        <4>1. CASE Claim(w)
          BY <1>0, <4>1 DEF Claim, Claimable
        <4>2. CASE ClaimOne(w)
          BY <1>0, <4>2 DEF ClaimOne, Write, Forget, rowVars
        <4> QED BY <2>2, <4>1, <4>2
      <3>2. Holds([row[d] EXCEPT !.status = "leased"], "leased", row[d].attempts, row[d].action, row[d].mark)
        BY <1>0 DEF AnyRow, Holds
      <3> QED BY <3>1, <3>2 DEF RowMove, Becomes
    <2>3. ASSUME ReadCatalog(w) \/ Neutralize(w) \/ JudgeTarget(w) \/ Verdict(w) \/ EndLoop(w) \/ Settle(w) \/ Fail(w)
          PROVE  row' = row \/ (job[w] \notin held /\ WorkerWrite(w) /\ \A e \in Deliveries \ {job[w]} : row'[e] = row[e])
      <3> DEFINE j == job[w]
      <3>1. j \in Deliveries
        BY <2>3 DEF JobInv, Dispatching, ReadCatalog, Neutralize, JudgeTarget, Verdict, EndLoop, Settle, Fail
      <3>2. row[j] \in AnyRow
        BY <1>0, <3>1
      <3>3. ASSUME NEW r, Write(j, r)
            PROVE  j \notin held /\ row'[j] = r /\ \A e \in Deliveries \ {j} : row'[e] = row[e]
        BY <1>0, <3>1, <3>3 DEF Write
      <3> HIDE DEF j
      <3>4. CASE ReadCatalog(w)
        <4>1. CASE Write(j, [row[j] EXCEPT !.status = "pending"]) /\ pc[w] = "catalog" /\ ~active /\ seen[w].status = "leased"
          <5>1. Holds([row[j] EXCEPT !.status = "pending"], "pending", row[j].attempts, row[j].action, row[j].mark)
            BY <3>2 DEF AnyRow, Holds
          <5> QED BY <3>3, <4>1, <5>1 DEF WorkerWrite, Becomes, j
        <4>2. CASE /\ Write(j, [row[j] EXCEPT !.status = "dead", !.attempts = seen[w].attempts])
                   /\ pc[w] = "catalog" /\ active /\ w \in Codeless
          <5>1. Holds([row[j] EXCEPT !.status = "dead", !.attempts = seen[w].attempts],
                      "dead", seen[w].attempts, row[j].action, row[j].mark)
            BY <3>2 DEF AnyRow, Holds
          <5> QED BY <3>3, <4>2, <5>1 DEF WorkerWrite, Becomes, j
        <4> QED BY <3>4, <4>1, <4>2 DEF ReadCatalog, j
      <3>5. CASE Neutralize(w)
        <4>1. Holds([row[j] EXCEPT !.status = "succeeded", !.action = "noop"], "succeeded", row[j].attempts, "noop", row[j].mark)
          BY <3>2 DEF AnyRow, Holds
        <4> QED BY <3>3, <3>5, <4>1 DEF WorkerWrite, Becomes, Neutralize, Settled, j
      <3>6. CASE Settle(w)
        <4>1. Holds([row[j] EXCEPT !.status = "succeeded", !.action = row[j].action],
                    "succeeded", row[j].attempts, row[j].action, row[j].mark)
          BY <3>2 DEF AnyRow, Holds
        <4> QED BY <3>3, <3>6, <4>1 DEF WorkerWrite, Becomes, Settle, Settled, j
      <3>7. CASE JudgeTarget(w) \/ Verdict(w) \/ EndLoop(w)
        <4>1. CASE row' = row
          BY <4>1
        <4>2. CASE Drop(w) /\ pc[w] \in {"target", "verdict"}
          <5>1. Write(j, [row[j] EXCEPT !.mark = TRUE, !.action = "noop"])
            BY <4>2 DEF Drop, j
          <5>2. Holds([row[j] EXCEPT !.mark = TRUE, !.action = "noop"], row[j].status, row[j].attempts, "noop", TRUE)
            BY <3>2 DEF AnyRow, Holds
          <5> QED BY <3>3, <4>2, <5>1, <5>2 DEF WorkerWrite, Becomes, j
        <4> QED BY <3>7, <4>1, <4>2 DEF JudgeTarget, Verdict, EndLoop, rowVars
      <3>8. CASE Fail(w)
        <4> DEFINE n == seen[w].attempts + 1
                   st == IF n >= MaxAttempts THEN "dead" ELSE "pending"
        <4>1. pc[w] = "fail" /\ Write(j, [row[j] EXCEPT !.attempts = n, !.status = st])
          BY <3>8 DEF Fail, j
        <4>2. Becomes(j, st, n, row[j].action, row[j].mark)
          <5> HIDE DEF n, st
          <5>1. Holds([row[j] EXCEPT !.attempts = n, !.status = st], st, n, row[j].action, row[j].mark)
            BY <3>2 DEF AnyRow, Holds
          <5> QED BY <3>3, <4>1, <5>1 DEF Becomes
        <4> QED BY <3>3, <4>1, <4>2 DEF WorkerWrite, j
      <3> QED BY <2>3, <3>4, <3>5, <3>6, <3>7, <3>8 DEF j
    <2>4. CASE BeginPass(w) \/ EndPass(w) \/ LoadRow(w) \/ CheckMark(w) \/ JudgeFails(w) \/ CallProvider(w) \/ Crash(w)
      BY <2>4 DEF RowMove, BeginPass, EndPass, LoadRow, CheckMark, JudgeFails, CallProvider, Crash, rowVars
    <2> QED BY <2>1, <2>2, <2>3, <2>4 DEF Work, RowMove
  <1>2. ASSUME NEW e \in Deliveries, Emit(e) \/ Retry(e) \/ TimePasses(e) \/ \E w \in Workers : Expand(w, e)
        PROVE  RowMove(d)
    <2>1. CASE Emit(e)
      BY <1>0, <2>1 DEF RowMove, Emit
    <2>2. CASE Retry(e)
      <3>1. row'[d] = row[d] \/ (row[d].status = "dead" /\ d \notin held /\ active
                                 /\ row'[d] = [row[d] EXCEPT !.status = "pending", !.attempts = 0])
        BY <1>0, <2>2 DEF Retry, Write
      <3>2. Holds([row[d] EXCEPT !.status = "pending", !.attempts = 0], "pending", 0, row[d].action, row[d].mark)
        BY <1>0 DEF AnyRow, Holds
      <3> QED BY <3>1, <3>2 DEF RowMove, Becomes
    <2>3. CASE TimePasses(e)
      BY <2>3 DEF RowMove, TimePasses, BackoffElapses, LeaseExpires, Ages
    <2>4. CASE \E w \in Workers : Expand(w, e)
      BY <1>0, <2>4 DEF RowMove, Expand, Write
    <2> QED BY <1>2, <2>1, <2>2, <2>3, <2>4
  <1>3. CASE CommitCancel
    <2>1. row'[d] = row[d] \/ (d \in held /\ row'[d] = Cancelled(d))
      BY <1>3 DEF CommitCancel
    <2>2. row'[d] = Cancelled(d) => CancelWrite(d)
      BY <1>0 DEF Cancelled, CancelWrite, Becomes, Holds, AnyRow
    <2> QED BY <1>3, <2>1, <2>2 DEF CommitCancel, RowMove
  <1>4. CASE RequestActivation \/ BeginCancel \/ CancelPass \/ Entomb \/ RollbackCancel \/ UNCHANGED vars
    BY <1>4 DEF RowMove, RequestActivation, BeginCancel, RollbackCancel, CancelPass, Entomb, Statement, rowVars, vars
  <1> QED BY <1>1, <1>2, <1>3, <1>4 DEF Next, EndCancel

\* A worker's position and what it carries keep their types.
LEMMA WorkTyped ==
    ASSUME Shaped, [Next]_vars
    PROVE  /\ pc' \in [Workers -> PCs]
           /\ queue' \in [Workers -> SUBSET Deliveries]
           /\ job' \in [Workers -> Deliveries \cup {NoDelivery}]
           /\ seen' \in [Workers -> AnyRow]
  <1> USE RowTypes DEF Shaped, PCs
  <1>1. ASSUME NEW w \in Workers, Claim(w)
        PROVE  /\ pc' \in [Workers -> PCs] /\ queue' \in [Workers -> SUBSET Deliveries]
               /\ job' = job /\ seen' = seen
    <2>1. Claimable(w) \subseteq Deliveries
      BY DEF Claimable
    <2>2. PICK q \in SUBSET Claimable(w) : queue' = [queue EXCEPT ![w] = q]
      BY <1>1 DEF Claim
    <2>3. q \in SUBSET Deliveries
      BY <2>1, <2>2
    <2>4. pc' = [pc EXCEPT ![w] = "dispatch"] /\ job' = job /\ seen' = seen
      BY <1>1 DEF Claim, Goto
    <2> QED BY <2>2, <2>3, <2>4
  <1>2. ASSUME NEW w \in Workers,
               \/ ClaimOne(w) \/ BeginPass(w) \/ EndPass(w) \/ LoadRow(w) \/ ReadCatalog(w) \/ CheckMark(w)
               \/ Neutralize(w) \/ JudgeTarget(w) \/ Verdict(w) \/ EndLoop(w) \/ JudgeFails(w) \/ CallProvider(w) \/ Settle(w)
               \/ Fail(w) \/ Crash(w)
        PROVE  /\ \E p \in PCs : pc' = [pc EXCEPT ![w] = p]
               /\ \E q \in SUBSET Deliveries : queue' = [queue EXCEPT ![w] = q]
               /\ \E j \in Deliveries \cup {NoDelivery} : job' = [job EXCEPT ![w] = j]
               /\ \E r \in AnyRow : seen' = [seen EXCEPT ![w] = r]
    <2>1. /\ pc = [pc EXCEPT ![w] = pc[w]] /\ queue = [queue EXCEPT ![w] = queue[w]]
          /\ job = [job EXCEPT ![w] = job[w]] /\ seen = [seen EXCEPT ![w] = seen[w]]
      OBVIOUS
    <2>2. /\ pc[w] \in PCs /\ queue[w] \in SUBSET Deliveries /\ job[w] \in Deliveries \cup {NoDelivery}
          /\ seen[w] \in AnyRow
      OBVIOUS
    <2>3. \E p \in PCs : pc' = [pc EXCEPT ![w] = p]
      BY <1>2, <2>1, <2>2 DEF ClaimOne, BeginPass, EndPass, LoadRow, ReadCatalog, CheckMark,
         Neutralize, JudgeTarget, Verdict, EndLoop, JudgeFails, CallProvider, Settle, Fail, Crash, Goto, Forget, EndJob, Drop
    <2>4. \E q \in SUBSET Deliveries : queue' = [queue EXCEPT ![w] = q]
      BY <1>2, <2>1, <2>2 DEF ClaimOne, BeginPass, EndPass, LoadRow, ReadCatalog, CheckMark,
         Neutralize, JudgeTarget, Verdict, EndLoop, JudgeFails, CallProvider, Settle, Fail, Crash, Forget, EndJob
    <2>5. \E j \in Deliveries \cup {NoDelivery} : job' = [job EXCEPT ![w] = j]
      BY <1>2, <2>1, <2>2 DEF ClaimOne, BeginPass, EndPass, LoadRow, ReadCatalog, CheckMark,
         Neutralize, JudgeTarget, Verdict, EndLoop, JudgeFails, CallProvider, Settle, Fail, Crash, Forget, EndJob
    <2>6. \E r \in AnyRow : seen' = [seen EXCEPT ![w] = r]
      BY <1>2, <2>1, <2>2 DEF ClaimOne, BeginPass, EndPass, LoadRow, ReadCatalog, CheckMark,
         Neutralize, JudgeTarget, Verdict, EndLoop, JudgeFails, CallProvider, Settle, Fail, Crash, Forget, EndJob
    <2> QED BY <2>3, <2>4, <2>5, <2>6
  <1>3. ASSUME NEW d \in Deliveries, Emit(d)
        PROVE  /\ pc' \in [Workers -> PCs] /\ queue' \in [Workers -> SUBSET Deliveries]
               /\ job' = job /\ seen' = seen
    <2>1. CASE UNCHANGED workVars
      BY <2>1 DEF workVars
    <2>2. CASE ~UNCHANGED workVars
      <3>1. PICK w \in Dispatchers : pc' = [pc EXCEPT ![w] = "fresh"] /\ queue' = [queue EXCEPT ![w] = {d}]
        BY <1>3, <2>2 DEF Emit, Goto
      <3>2. job' = job /\ seen' = seen
        BY <1>3 DEF Emit, workVars
      <3> QED BY <3>1, <3>2
    <2> QED BY <2>1, <2>2
  <1>4. CASE UNCHANGED workVars
    BY <1>4 DEF workVars
  <1>5. CASE \E w \in Workers : Work(w) \/ Crash(w)
    <2>1. PICK w \in Workers : Work(w) \/ Crash(w)
      BY <1>5
    <2>2. CASE Claim(w)
      BY <1>1, <2>2
    <2>3. CASE ~Claim(w)
      <3> HIDE DEF PCs, Shaped
      <3>0. \/ ClaimOne(w) \/ BeginPass(w) \/ EndPass(w) \/ LoadRow(w) \/ ReadCatalog(w) \/ CheckMark(w)
            \/ Neutralize(w) \/ JudgeTarget(w) \/ Verdict(w) \/ EndLoop(w) \/ JudgeFails(w) \/ CallProvider(w) \/ Settle(w)
            \/ Fail(w) \/ Crash(w)
        BY <2>1, <2>3 DEF Work
      <3>1. /\ \E p \in PCs : pc' = [pc EXCEPT ![w] = p]
            /\ \E q \in SUBSET Deliveries : queue' = [queue EXCEPT ![w] = q]
            /\ \E j \in Deliveries \cup {NoDelivery} : job' = [job EXCEPT ![w] = j]
            /\ \E r \in AnyRow : seen' = [seen EXCEPT ![w] = r]
        BY <1>2, <3>0, Zenon
      <3>2. PICK p \in PCs, q \in SUBSET Deliveries, j \in Deliveries \cup {NoDelivery}, r \in AnyRow :
              /\ pc' = [pc EXCEPT ![w] = p] /\ queue' = [queue EXCEPT ![w] = q]
              /\ job' = [job EXCEPT ![w] = j] /\ seen' = [seen EXCEPT ![w] = r]
        BY <3>1
      <3>3. /\ pc \in [Workers -> PCs] /\ queue \in [Workers -> SUBSET Deliveries]
            /\ job \in [Workers -> Deliveries \cup {NoDelivery}] /\ seen \in [Workers -> AnyRow]
        BY DEF Shaped
      <3> QED BY <3>2, <3>3
    <2> QED BY <2>2, <2>3
  <1>6. CASE ~\E w \in Workers : Work(w) \/ Crash(w)
    BY <1>3, <1>4, <1>6 DEF Next, TimePasses, Retry, BackoffElapses, LeaseExpires, Ages, Expand, RequestActivation,
             BeginCancel, EndCancel, CancelPass, Entomb, Statement, CommitCancel, RollbackCancel, vars, workVars
  <1> QED BY <1>5, <1>6

\* So does the loop over the recipients: Verdict takes one only while there is one.
LEMMA LoopTyped ==
    ASSUME Shaped, [Next]_vars
    PROVE  loop' \in [Workers -> Loop]
  <1> USE DEF Shaped
  <1>0. NoLoop \in Loop
    BY DeliveryAssumption DEF DeliveryAssumption, NoLoop, Loop
  <1>1. ASSUME NEW w \in Workers, Work(w) \/ Crash(w)
        PROVE  loop' \in [Workers -> Loop]
    <2>0. loop[w] \in Loop /\ MaxRecipients \in Nat
      BY DeliveryAssumption DEF DeliveryAssumption
    <2>1. CASE loop' = loop \/ loop' = [loop EXCEPT ![w] = NoLoop]
      BY <1>0, <2>1
    <2>2. CASE JudgeTarget(w)
      <3>1. \A n \in 0..MaxRecipients : [left |-> n, told |-> FALSE] \in Loop
        BY DEF Loop
      <3> QED BY <2>2, <3>1 DEF JudgeTarget
    <2>3. CASE loop[w].left > 0 /\ loop' = [loop EXCEPT ![w].left = @ - 1]
      <3>1. [loop[w] EXCEPT !.left = @ - 1] \in Loop
        BY <2>0, <2>3 DEF Loop
      <3> QED BY <2>3, <3>1
    <2>4. CASE loop' = [loop EXCEPT ![w].told = TRUE]
      <3>1. [loop[w] EXCEPT !.told = TRUE] \in Loop
        BY <2>0 DEF Loop
      <3> QED BY <2>4, <3>1
    <2>5. CASE Verdict(w) \/ EndLoop(w) \/ CallProvider(w)
      BY <2>5, <2>1, <2>3, <2>4 DEF Verdict, EndLoop, CallProvider
    <2>6. ~(JudgeTarget(w) \/ Verdict(w) \/ EndLoop(w) \/ CallProvider(w))
          => loop' = loop \/ loop' = [loop EXCEPT ![w] = NoLoop]
      BY <1>1 DEF Work, Crash, ClaimOne, BeginPass, Claim, EndPass, LoadRow, ReadCatalog, CheckMark, Neutralize,
         JudgeFails, Settle, Fail, Forget, EndJob
    <2> QED BY <2>1, <2>2, <2>5, <2>6
  <1>2. CASE UNCHANGED loop
    BY <1>2
  <1> QED BY <1>1, <1>2, NextSplit, RowFrame, OtherFrame DEF Emit, workVars

\* A row keeps its type.
LEMMA RowTyped ==
    ASSUME Shaped, JobInv, [Next]_vars
    PROVE  row' \in [Deliveries -> AnyRow]
  <1> USE DEF Shaped
  <1>1. ASSUME NEW d \in Deliveries, NEW r \in AnyRow, row' = [row EXCEPT ![d] = r]
        PROVE  row' \in [Deliveries -> AnyRow]
    BY <1>1
  <1>2. ASSUME NEW w \in Workers, ClaimOne(w)
        PROVE  row' \in [Deliveries -> AnyRow]
    <2>1. \A d \in Deliveries : [row[d] EXCEPT !.status = "leased"] \in AnyRow
      BY DEF AnyRow, Statuses
    <2>2. row' = row \/ \E d \in Deliveries : row' = [row EXCEPT ![d] = [row[d] EXCEPT !.status = "leased"]]
      BY <1>2 DEF ClaimOne, Write, rowVars
    <2> QED BY <1>1, <2>1, <2>2
  <1>3. ASSUME NEW w \in Workers, Claim(w)
        PROVE  row' \in [Deliveries -> AnyRow]
    <2>1. \A d \in Deliveries : [row[d] EXCEPT !.status = "leased"] \in AnyRow
      BY DEF AnyRow, Statuses
    <2>2. \E B : row' = [d \in Deliveries |-> IF d \in B THEN [row[d] EXCEPT !.status = "leased"] ELSE row[d]]
      BY <1>3 DEF Claim
    <2> QED BY <2>1, <2>2
  <1>4. ASSUME NEW w \in Workers, ReadCatalog(w) \/ Neutralize(w) \/ JudgeTarget(w) \/ Verdict(w) \/ EndLoop(w) \/ Settle(w) \/ Fail(w)
        PROVE  row' \in [Deliveries -> AnyRow]
    <2>1. job[w] \in Deliveries
      BY <1>4 DEF JobInv, Dispatching, ReadCatalog, Neutralize, JudgeTarget, Verdict, EndLoop, Settle, Fail
    <2>2. /\ row[job[w]] \in AnyRow /\ row[job[w]].action \in {"dispatch", "noop"}
          /\ seen[w].attempts \in Nat /\ seen[w].attempts + 1 \in Nat
      BY <2>1 DEF AnyRow
    <2>3. row' = row \/ \E r \in AnyRow : row' = [row EXCEPT ![job[w]] = r]
      <3> USE DEF Statuses
      <3>1. CASE ReadCatalog(w)
        BY <2>2, <3>1, RowTypes DEF ReadCatalog, Write
      <3>2. CASE Neutralize(w) \/ Settle(w)
        BY <2>2, <3>2, RowTypes DEF Neutralize, Settle, Settled, Write
      <3>3. CASE JudgeTarget(w) \/ Verdict(w) \/ EndLoop(w)
        BY <2>2, <3>3, RowTypes DEF JudgeTarget, Verdict, EndLoop, Drop, Write, rowVars
      <3>4. CASE Fail(w)
        BY <2>2, <3>4, RowTypes DEF Fail, Write
      <3> QED BY <1>4, <3>1, <3>2, <3>3, <3>4
    <2> QED BY <1>1, <2>1, <2>3
  <1>5. ASSUME NEW d \in Deliveries, Emit(d) \/ Retry(d) \/ \E w \in Workers : Expand(w, d)
        PROVE  row' \in [Deliveries -> AnyRow]
    <2>1. Fresh \in AnyRow /\ Absent \in AnyRow
      BY RowTypes
    <2>2. [row[d] EXCEPT !.status = "pending", !.attempts = 0] \in AnyRow
      <3>1. row[d] \in AnyRow /\ 0 \in Nat /\ "pending" \in Statuses
        BY DEF Statuses
      <3> QED BY <3>1 DEF AnyRow
    <2>3. \E r \in {Fresh, Absent, [row[d] EXCEPT !.status = "pending", !.attempts = 0]} : row' = [row EXCEPT ![d] = r]
      BY <1>5 DEF Emit, DeliveryRow, Retry, Expand, Write
    <2> QED BY <1>1, <2>1, <2>2, <2>3
  <1>6. CASE CommitCancel
    <2>1. \A d \in Deliveries : Cancelled(d) \in AnyRow
      BY RowTypes DEF Cancelled, Statuses
    <2> QED BY <1>6, <2>1 DEF CommitCancel
  <1>7. CASE row' = row
    BY <1>7
  <1> QED BY <1>2, <1>3, <1>4, <1>5, <1>6, <1>7 DEF Next, Work, EndCancel, BeginPass, EndPass, LoadRow, CheckMark,
          JudgeFails, CallProvider, Crash, TimePasses, BackoffElapses, LeaseExpires, Ages, RequestActivation,
          BeginCancel, CancelPass, Entomb, Statement, RollbackCancel, rowVars, vars

\* The rest of Shaped.
LEMMA RestTyped ==
    ASSUME Shaped, JobInv, [Next]_vars
    PROVE  /\ emitted' \subseteq Deliveries /\ due' \subseteq Deliveries
           /\ expired' \subseteq Deliveries /\ aged' \subseteq Deliveries
           /\ active' \in BOOLEAN /\ live' \in BOOLEAN /\ cancel' \in CancelSteps
           /\ held' \subseteq Family \cap emitted'
           /\ offered' \subseteq Deliveries /\ nobody' \subseteq Deliveries /\ late' \in [Workers -> Nat]
           /\ bound' \in [crashes : 0..MaxCrashes, retries : 0..MaxRetries, toggles : 0..MaxToggles]
  <1> USE DEF Shaped
  <1>1. emitted' \subseteq Deliveries /\ held' \subseteq Family \cap emitted'
    <2>1. CASE \E w \in Workers : Work(w) \/ Crash(w)
      BY <2>1, WorkFrame
    <2>2. CASE \E d \in Deliveries : Emit(d) \/ Retry(d) \/ TimePasses(d) \/ \E w \in Workers : Expand(w, d)
      BY <2>2, RowFrame
    <2>3. CASE RequestActivation \/ BeginCancel \/ EndCancel \/ RollbackCancel \/ UNCHANGED vars
      BY <2>3 DEF RequestActivation, BeginCancel, EndCancel, CancelPass, Entomb, Statement, Unmarked, CommitCancel,
         RollbackCancel, cancelVars, vars
    <2> QED BY <2>1, <2>2, <2>3, NextSplit
  <1>2. due' \subseteq Deliveries
    <2>1. ASSUME NEW w \in Workers, Work(w) \/ Crash(w)
          PROVE  due' \subseteq due
      BY <2>1 DEF Work, ClaimOne, BeginPass, Claim, EndPass, LoadRow, ReadCatalog, CheckMark, Neutralize, JudgeTarget,
           Verdict, EndLoop, JudgeFails, CallProvider, Settle, Fail, Crash, Drop, rowVars
    <2>2. ASSUME NEW d \in Deliveries, Emit(d) \/ Retry(d) \/ TimePasses(d) \/ \E w \in Workers : Expand(w, d)
          PROVE  due' \subseteq due \cup {d}
      BY <2>2 DEF Emit, Retry, TimePasses, BackoffElapses, LeaseExpires, Ages, Expand
    <2>3. CASE RequestActivation \/ BeginCancel \/ EndCancel \/ RollbackCancel \/ UNCHANGED vars
      BY <2>3 DEF RequestActivation, BeginCancel, EndCancel, CancelPass, Entomb, Statement, CommitCancel,
           RollbackCancel, rowVars, vars
    <2> QED BY <2>1, <2>2, <2>3 DEF Next
  <1>3. expired' \subseteq Deliveries /\ aged' \subseteq Deliveries
    <2>1. ASSUME NEW w \in Workers, Work(w) \/ Crash(w)
          PROVE  expired' \subseteq expired /\ aged' \subseteq aged
      BY <2>1 DEF Work, ClaimOne, BeginPass, Claim, EndPass, LoadRow, ReadCatalog, CheckMark, Neutralize, JudgeTarget,
           Verdict, EndLoop, JudgeFails, CallProvider, Settle, Fail, Crash, Drop, Write, rowVars
    <2>2. ASSUME NEW d \in Deliveries, Emit(d) \/ Retry(d) \/ TimePasses(d) \/ \E w \in Workers : Expand(w, d)
          PROVE  expired' \subseteq expired \cup {d} /\ aged' \subseteq aged \cup {d}
      BY <2>2 DEF Emit, Retry, TimePasses, BackoffElapses, LeaseExpires, Ages, Expand, Write
    <2>3. CASE RequestActivation \/ BeginCancel \/ EndCancel \/ RollbackCancel \/ UNCHANGED vars
      BY <2>3 DEF RequestActivation, BeginCancel, EndCancel, CancelPass, Entomb, Statement, CommitCancel,
           RollbackCancel, rowVars, vars
    <2> QED BY <2>1, <2>2, <2>3 DEF Next
  <1>4. active' \in BOOLEAN /\ live' \in BOOLEAN /\ cancel' \in CancelSteps
    <2>1. CASE \E w \in Workers : Work(w) \/ Crash(w)
      BY <2>1, WorkFrame
    <2>2. CASE \E d \in Deliveries : Emit(d) \/ Retry(d) \/ TimePasses(d) \/ \E w \in Workers : Expand(w, d)
      BY <2>2, RowFrame
    <2>3. CASE RequestActivation \/ BeginCancel \/ EndCancel \/ RollbackCancel \/ UNCHANGED vars
      BY <2>3 DEF RequestActivation, BeginCancel, EndCancel, CancelPass, Entomb, Statement, CommitCancel,
         RollbackCancel, cancelVars, CancelSteps, vars
    <2> QED BY <2>1, <2>2, <2>3, NextSplit
  <1>5. offered' \subseteq Deliveries /\ nobody' \subseteq Deliveries /\ late' \in [Workers -> Nat]
    <2>1. \A w \in Workers : pc[w] \in {"provider", "target"} => job[w] \in Deliveries
      BY DEF JobInv, Dispatching
    <2>2. ASSUME NEW w \in Workers, Work(w) \/ Crash(w)
          PROVE  offered' \subseteq Deliveries /\ nobody' \subseteq Deliveries
      BY <2>1, <2>2, WorkFrame
    <2>3. ASSUME NEW w \in Workers, Work(w) \/ Crash(w)
          PROVE  late' \in [Workers -> Nat]
      <3>1. late[w] \in Nat /\ late[w] + 1 \in Nat
        OBVIOUS
      <3> QED BY <2>3, <3>1, WorkFrame DEF Overtakes
    <2>4. CASE UNCHANGED history
      BY <2>4 DEF history
    <2> QED BY <2>2, <2>3, <2>4, NextSplit, RowFrame, OtherFrame
  <1>6. bound' \in [crashes : 0..MaxCrashes, retries : 0..MaxRetries, toggles : 0..MaxToggles]
    <2>1. \/ bound' = bound
          \/ bound.crashes < MaxCrashes /\ bound' = [bound EXCEPT !.crashes = @ + 1]
          \/ bound.retries < MaxRetries /\ bound' = [bound EXCEPT !.retries = @ + 1]
          \/ bound.toggles < MaxToggles /\ bound' = [bound EXCEPT !.toggles = @ + 1]
      <3>1. CASE \E w \in Workers : Work(w)
        BY <3>1 DEF Work, ClaimOne, BeginPass, Claim, EndPass, LoadRow, ReadCatalog, CheckMark, Neutralize, JudgeTarget,
             Verdict, EndLoop, JudgeFails, CallProvider, Settle, Fail
      <3>2. CASE \E w \in Workers : Crash(w)
        BY <3>2 DEF Crash
      <3>3. CASE \E d \in Deliveries : Emit(d) \/ Retry(d) \/ TimePasses(d) \/ \E w \in Workers : Expand(w, d)
        BY <3>3 DEF Emit, Retry, Expand, TimePasses, BackoffElapses, LeaseExpires, Ages
      <3>4. CASE RequestActivation \/ BeginCancel \/ EndCancel \/ RollbackCancel \/ UNCHANGED vars
        BY <3>4 DEF RequestActivation, BeginCancel, EndCancel, CancelPass, Entomb, Statement, CommitCancel, RollbackCancel,
             vars
      <3> QED BY <3>1, <3>2, <3>3, <3>4, NextSplit
    <2> QED BY <2>1, DeliveryAssumption DEF DeliveryAssumption
  <1> QED BY <1>1, <1>2, <1>3, <1>4, <1>5, <1>6

\* Shaped is kept by every step.
LEMMA ShapedStep ==
    ASSUME Shaped, JobInv, [Next]_vars
    PROVE  Shaped'
  BY WorkTyped, LoopTyped, RowTyped, RestTyped DEF Shaped

\* JobInv is kept: a job begins with LoadRow and ends with EndJob or Forget.
LEMMA JobStep ==
    ASSUME Shaped, JobInv, [Next]_vars
    PROVE  JobInv'
  <1> USE DeliveryAssumption DEF DeliveryAssumption, Dispatching
  <1>1. ASSUME NEW w \in Workers, Work(w) \/ Crash(w)
        PROVE  JobInv'
    <2> SUFFICES /\ job'[w] \in Deliveries <=> pc'[w] \in Dispatching
                 /\ pc'[w] \in {"idle", "claiming"} => queue'[w] = {}
                 /\ pc'[w] # "fresh"
      BY <1>1, WorkerAlone DEF JobInv
    <2>1. CASE LoadRow(w) \/ EndPass(w)
      BY <2>1 DEF JobInv, Shaped, LoadRow, EndPass, Goto, Forget
    <2>2. CASE ClaimOne(w) \/ BeginPass(w) \/ Crash(w)
      <3>1. \/ pc[w] = "fresh" /\ job' = job /\ pc' = [pc EXCEPT ![w] = "dispatch"]
            \/ pc[w] = "idle" /\ job' = job /\ queue' = queue /\ pc' = [pc EXCEPT ![w] = "claiming"]
            \/ Forget(w)
        BY <2>2 DEF ClaimOne, BeginPass, Crash, Goto
      <3> QED BY <3>1 DEF JobInv, Shaped, Goto, Forget
    <2>3. CASE Claim(w)
      <3>1. pc[w] = "claiming" /\ pc' = [pc EXCEPT ![w] = "dispatch"] /\ job' = job
        BY <2>3 DEF Claim, Goto
      <3> QED BY <3>1, <2>3 DEF JobInv, Shaped
    <2>4. CASE ReadCatalog(w)
      BY <2>4 DEF JobInv, Shaped, ReadCatalog, Goto, EndJob
    <2>5. CASE CheckMark(w) \/ JudgeTarget(w) \/ Verdict(w) \/ EndLoop(w) \/ JudgeFails(w) \/ CallProvider(w)
      BY <2>5 DEF JobInv, Shaped, CheckMark, JudgeTarget, Verdict, EndLoop, JudgeFails, CallProvider, Goto, Drop
    <2>6. CASE Neutralize(w) \/ Settle(w) \/ Fail(w)
      BY <2>6 DEF JobInv, Shaped, Neutralize, Settle, Fail, Goto, EndJob
    <2> QED BY <1>1, <2>1, <2>2, <2>3, <2>4, <2>5, <2>6 DEF Work
  <1>2. ASSUME NEW d \in Deliveries, Emit(d)
        PROVE  JobInv'
    BY <1>2 DEF Emit, JobInv, Shaped, Goto, workVars, Workers
  <1>3. CASE UNCHANGED workVars
    BY <1>3 DEF JobInv, workVars
  <1> QED BY <1>1, <1>2, <1>3 DEF Next, TimePasses, Retry, BackoffElapses, LeaseExpires, Ages, Expand, RequestActivation,
             BeginCancel, EndCancel, CancelPass, Entomb, Statement, CommitCancel, RollbackCancel, vars, workVars

\* Marks, once written, stay; a row is not absent again; nothing is taken back or
\* unemitted.
LEMMA Lasting ==
    ASSUME Shaped, JobInv, HonestInv, [Next]_vars
    PROVE  /\ emitted \subseteq emitted' /\ offered \subseteq offered' /\ nobody \subseteq nobody'
           /\ \A d \in Deliveries : /\ row[d].mark => row'[d].mark
                                    /\ row[d].status # "absent" => row'[d].status # "absent"
                                    /\ d \notin emitted' => row'[d] = row[d]
  <1>1. emitted \subseteq emitted' /\ offered \subseteq offered' /\ nobody \subseteq nobody'
    BY NextSplit, WorkFrame, RowFrame, OtherFrame DEF history
  <1>3. ASSUME NEW d \in Deliveries
        PROVE  /\ row[d].mark => row'[d].mark
               /\ row[d].status # "absent" => row'[d].status # "absent"
               /\ d \notin emitted' => row'[d] = row[d]
    <2>1. RowMove(d) /\ RowHonest(d) /\ row[d] \in AnyRow /\ (d \in held => d \in emitted)
      BY RowMoves DEF HonestInv, Shaped
    <2>2. \A w \in Workers : job[w] = d => pc[w] \in Dispatching /\ row[d].status # "absent"
      BY DEF JobInv, HonestInv, WorkerHonest
    <2> USE <1>1, <2>1, <2>2 DEF RowHonest, Becomes, Holds, Absent, Fresh, Tombstone
    <2>3. CASE row'[d] = row[d]
      BY <2>3
    <2>4. CASE d \notin emitted /\ d \in emitted' /\ row'[d] \in {Fresh, Absent}
      BY <2>4
    <2>5. CASE row[d].status = "absent" /\ d \in emitted /\ row'[d] = Fresh
      BY <2>5
    <2>6. CASE row[d].status \in {"pending", "leased", "dead"}
               /\ \E st \in {"leased", "pending"}, n \in Nat : Becomes(d, st, n, row[d].action, row[d].mark)
      BY <2>6
    <2>7. CASE d \in held /\ CancelWrite(d)
      BY <2>7 DEF CancelWrite
    <2>8. CASE \E w \in Workers : job[w] = d /\ WorkerWrite(w)
      <3>1. row[d].status # "absent" /\ d \in emitted
        BY <2>8
      <3> QED BY <2>8, <3>1 DEF WorkerWrite
    <2>9. row[d].attempts \in Nat /\ 0 \in Nat
      BY DEF AnyRow
    <2> QED BY <2>3, <2>4, <2>5, <2>6, <2>7, <2>8, <2>9 DEF RowMove, DeliveryRow
  <1> QED BY <1>1, <1>3

\* No row closes unaccounted for: RowHonest is kept by every step.
LEMMA RowHonestStep ==
    ASSUME Shaped, JobInv, HonestInv, [Next]_vars, NEW d \in Deliveries
    PROVE  RowHonest(d)'
  <1>1. RowMove(d) /\ RowHonest(d) /\ row[d] \in AnyRow /\ (d \in held => d \in emitted)
    BY RowMoves DEF HonestInv, Shaped
  <1>2. \A w \in Workers : job[w] = d => pc[w] \in Dispatching /\ WorkerHonest(w)
    BY DEF JobInv, HonestInv
  <1>3. /\ emitted \subseteq emitted' /\ offered \subseteq offered' /\ nobody \subseteq nobody'
        /\ row[d].mark => row'[d].mark
        /\ row[d].status # "absent" => row'[d].status # "absent"
        /\ d \notin emitted' => row'[d] = row[d]
    BY Lasting
  <1>4. /\ row'[d].status = "absent" => row'[d] = Absent
        /\ row'[d].action = "noop" => row'[d].mark
        /\ row'[d].status = "succeeded" => Accounted(d)'
    <2> USE <1>1, <1>3 DEF RowHonest, Accounted, Becomes, Holds, Absent, Fresh, Tombstone
    <2>3. CASE row'[d] = row[d]
      BY <2>3
    <2>4. CASE row'[d] = Fresh
      BY <2>4
    <2>5. CASE row'[d] = Absent
      BY <2>5
    <2>6. CASE row[d].status \in {"pending", "leased", "dead"}
               /\ \E st \in {"leased", "pending"}, n \in Nat : Becomes(d, st, n, row[d].action, row[d].mark)
      BY <2>6
    <2>7. CASE d \in held /\ CancelWrite(d)
      BY <2>7 DEF CancelWrite
    <2>8. CASE \E w \in Workers : job[w] = d /\ WorkerWrite(w)
      <3>1. PICK w \in Workers : job[w] = d /\ WorkerWrite(w)
        BY <2>8
      <3>2. pc[w] \in Dispatching /\ WorkerHonest(w)
        BY <1>2, <3>1
      <3> QED BY <3>1, <3>2 DEF WorkerWrite, WorkerHonest, Dispatching
    <2>9. row[d].attempts \in Nat /\ 0 \in Nat
      BY DEF AnyRow
    <2> QED BY <2>3, <2>4, <2>5, <2>6, <2>7, <2>8, <2>9 DEF RowMove, DeliveryRow
  <1> QED BY <1>1, <1>3, <1>4 DEF RowHonest

\* A worker settles only what it has offered, found cancelled or found for nobody.
LEMMA WorkerHonestStep ==
    ASSUME Shaped, JobInv, HonestInv, [Next]_vars, NEW w \in Workers
    PROVE  WorkerHonest(w)'
  <1> USE DEF Dispatching
  <1>1. /\ offered \subseteq offered' /\ nobody \subseteq nobody'
        /\ \A d \in Deliveries : (row[d].mark => row'[d].mark) /\ (row[d].status # "absent" => row'[d].status # "absent")
    BY Lasting
  <1>2. CASE pc'[w] = pc[w] /\ job'[w] = job[w] /\ seen'[w] = seen[w] /\ loop'[w] = loop[w]
    BY <1>1, <1>2 DEF WorkerHonest, HonestInv, JobInv, Accounted
  <1>3. CASE Work(w)
    <2>1. CASE LoadRow(w)
      <3>1. PICK d \in queue[w] :
                \/ job'[w] = d /\ seen'[w] = row[d] /\ pc'[w] = "catalog" /\ row[d].status # "absent"
                \/ pc' = pc
        BY <2>1 DEF LoadRow, Goto, Shaped
      <3>2. row' = row /\ d \in Deliveries /\ RowHonest(d)
        BY <2>1, <3>1 DEF LoadRow, rowVars, Shaped, HonestInv
      <3> QED BY <1>1, <2>1, <3>1, <3>2 DEF WorkerHonest, RowHonest, LoadRow
    <2>2. CASE ReadCatalog(w)
      BY <1>1, <2>2 DEF WorkerHonest, HonestInv, JobInv, ReadCatalog, Goto, EndJob, Shaped
    <2>3. CASE CheckMark(w)
      BY <1>1, <2>3 DEF WorkerHonest, HonestInv, JobInv, CheckMark, Goto, Shaped
    <2>4. CASE JudgeTarget(w) \/ Verdict(w) \/ EndLoop(w)
      <3>1. pc[w] \in {"target", "verdict"} /\ job' = job /\ seen' = seen
        BY <2>4 DEF JudgeTarget, Verdict, EndLoop
      <3>2. job[w] \in Deliveries
        BY <3>1 DEF JobInv
      <3>3. [row[job[w]] EXCEPT !.mark = TRUE, !.action = "noop"].mark
        BY <3>2 DEF Shaped, AnyRow
      <3>4. ASSUME Drop(w)
            PROVE  pc'[w] = "settle" /\ row'[job[w]].mark
        BY <3>2, <3>3, <3>4 DEF Drop, Write, Goto, Shaped
      <3>5. /\ row[job[w]].status # "absent" /\ seen[w].action = "noop" => row[job[w]].mark
            /\ pc[w] = "verdict" /\ loop[w].told => job[w] \in offered
        BY <3>1, <3>2 DEF WorkerHonest, HonestInv
      <3>6. CASE JudgeTarget(w)
        <4>1. CASE Drop(w)
          BY <1>1, <3>1, <3>2, <3>4, <3>5, <4>1 DEF WorkerHonest, Accounted, HonestInv
        <4>2. CASE ~Drop(w)
          <5>1. PICK n \in 0..MaxRecipients :
                  /\ loop'[w] = [left |-> n, told |-> FALSE]
                  /\ pc'[w] = IF n = 0 THEN "settle" ELSE "verdict"
                  /\ nobody' = IF n = 0 THEN nobody \cup {job[w]} ELSE nobody
            BY <3>6, <4>2 DEF JudgeTarget, Goto, Shaped
          <5>2. pc'[w] = "settle" => job[w] \in nobody'
            BY <5>1
          <5>3. pc'[w] \in {"settle", "verdict"} /\ ~loop'[w].told
            BY <5>1
          <5> QED BY <1>1, <3>1, <3>2, <5>2, <5>3 DEF WorkerHonest, Accounted, HonestInv
        <4> QED BY <4>1, <4>2
      <3>7. CASE Verdict(w)
        <4>1. CASE Drop(w)
          BY <1>1, <3>1, <3>2, <3>4, <3>5, <4>1 DEF WorkerHonest, Accounted, HonestInv
        <4>2. CASE ~Drop(w)
          <5>1. \/ pc'[w] = "settle" /\ (row[job[w]].mark \/ loop[w].told)
                \/ pc'[w] \in {"verdict", "provider"} /\ loop'[w].told = loop[w].told
            BY <3>7, <4>2 DEF Verdict, Judged, Goto, Shaped, Loop
          <5>2. pc[w] = "verdict"
            BY <3>7 DEF Verdict
          <5> QED BY <1>1, <3>1, <3>2, <3>5, <5>1, <5>2 DEF WorkerHonest, Accounted, HonestInv
        <4> QED BY <4>1, <4>2
      <3>8. CASE EndLoop(w)
        <4>1. pc[w] = "verdict" /\ ((loop[w].told /\ pc'[w] = "settle") \/ Drop(w))
          BY <3>8 DEF EndLoop, Goto, Shaped
        <4> QED BY <1>1, <3>1, <3>2, <3>4, <3>5, <4>1 DEF WorkerHonest, Accounted, HonestInv
      <3> QED BY <2>4, <3>6, <3>7, <3>8
    <2>5. CASE JudgeFails(w)
      BY <1>1, <2>5 DEF WorkerHonest, HonestInv, JobInv, JudgeFails, Goto, Shaped
    <2>7. CASE CallProvider(w)
      <3>1. pc[w] = "provider" /\ job' = job /\ seen' = seen /\ job[w] \in Deliveries
        BY <2>7 DEF CallProvider, JobInv
      <3>2. \/ pc'[w] \in {"settle", "verdict"} /\ job[w] \in offered'
            \/ pc'[w] = "fail"
        BY <2>7 DEF CallProvider, Goto, Shaped
      <3> QED BY <1>1, <3>1, <3>2 DEF WorkerHonest, Accounted, HonestInv
    <2>6. CASE Neutralize(w) \/ Settle(w) \/ Fail(w) \/ BeginPass(w) \/ EndPass(w) \/ ClaimOne(w) \/ Claim(w)
      BY <2>6 DEF WorkerHonest, Neutralize, Settle, Fail, BeginPass, EndPass, ClaimOne, Claim, Goto, EndJob, Forget, Shaped
    <2> QED BY <1>3, <2>1, <2>2, <2>3, <2>4, <2>5, <2>6, <2>7 DEF Work
  <1>4. CASE Crash(w)
    BY <1>4 DEF Crash, Forget, Goto, WorkerHonest, Shaped
  <1>5. ASSUME NEW v \in Workers, v # w, Work(v) \/ Crash(v)
        PROVE  pc'[w] = pc[w] /\ job'[w] = job[w] /\ seen'[w] = seen[w] /\ loop'[w] = loop[w]
    BY <1>5, WorkerAlone
  <1>6. ASSUME NEW d \in Deliveries, Emit(d)
        PROVE  job'[w] = job[w] /\ seen'[w] = seen[w] /\ loop'[w] = loop[w] /\ (pc'[w] = pc[w] \/ pc'[w] = "fresh")
    BY <1>6 DEF Emit, workVars, Goto, Shaped
  <1>7. CASE UNCHANGED workVars
    BY <1>2, <1>7 DEF workVars
  <1> QED BY <1>2, <1>3, <1>4, <1>5, <1>6, <1>7 DEF Next, TimePasses, Retry, BackoffElapses, LeaseExpires, Ages, Expand,
             RequestActivation, BeginCancel, EndCancel, CancelPass, Entomb, Statement, CommitCancel, RollbackCancel, vars,
             workVars, WorkerHonest

\* What has become of the workers when the cancellation has committed: nothing
\* passes a judgement any more, and one that had passed it is each worker's last.
OnItsWay(w) == pc[w] = "provider" /\ job[w] \in Family

LateInv ==
    /\ cancel = "done" => ~live
    /\ \A w \in Workers :
          /\ cancel # "done" => late[w] = 0
          /\ OnItsWay(w) => late[w] = 0
          /\ late[w] <= 1

\* A push is on its way to a recipient only when a judgement has just passed, or
\* it was on its way already.
LEMMA WayBegins ==
    ASSUME Shaped, JobInv, [Next]_vars, NEW w \in Workers, OnItsWay(w)'
    PROVE  OnItsWay(w) \/ (Verdict(w) /\ live)
  <1>1. ASSUME Work(w) \/ Crash(w)
        PROVE  OnItsWay(w) \/ (Verdict(w) /\ live)
    <2>1. pc'[w] = "provider" /\ job'[w] \in Family
      BY DEF OnItsWay
    <2>2. CASE CheckMark(w)
      BY <2>1, <2>2 DEF CheckMark, Goto, Shaped
    <2>3. CASE Verdict(w)
      <3>1. Judged(w) = "fit"
        BY <2>1, <2>3 DEF Verdict, Drop, Goto, Shaped
      <3> QED BY <2>3, <3>1 DEF Judged, Demanded
    <2>4. CASE LoadRow(w) \/ ReadCatalog(w) \/ CallProvider(w) \/ JudgeTarget(w) \/ EndLoop(w) \/ JudgeFails(w)
      BY <2>1, <2>4 DEF LoadRow, ReadCatalog, CallProvider, JudgeTarget, EndLoop, JudgeFails, Drop, Goto, EndJob, Shaped
    <2>5. CASE \/ ClaimOne(w) \/ BeginPass(w) \/ Claim(w) \/ EndPass(w) \/ Neutralize(w) \/ Settle(w)
               \/ Fail(w) \/ Crash(w)
      BY <2>1, <2>5 DEF ClaimOne, BeginPass, Claim, EndPass, Neutralize, Settle, Fail, Crash, Forget, Goto, EndJob, Shaped
    <2> QED BY <1>1, <2>2, <2>3, <2>4, <2>5 DEF Work
  <1>2. ASSUME NEW v \in Workers, v # w, Work(v) \/ Crash(v)
        PROVE  OnItsWay(w)
    BY <1>2, WorkerAlone DEF OnItsWay
  <1>3. ASSUME NEW d \in Deliveries, Emit(d)
        PROVE  OnItsWay(w)
    BY <1>3 DEF Emit, workVars, Goto, Shaped, OnItsWay
  <1>4. CASE UNCHANGED workVars
    BY <1>4 DEF workVars, OnItsWay
  <1> QED BY <1>1, <1>2, <1>3, <1>4, NextSplit, RowFrame, OtherFrame

LEMMA LateStep ==
    ASSUME Shaped, JobInv, LateInv, [Next]_vars
    PROVE  LateInv'
  <1> USE DEF LateInv
  <1>1. cancel' = "done" => ~live'
    <2>1. CASE \E w \in Workers : Work(w) \/ Crash(w)
      BY <2>1, WorkFrame
    <2>2. CASE \E d \in Deliveries : Emit(d) \/ Retry(d) \/ TimePasses(d) \/ \E w \in Workers : Expand(w, d)
      BY <2>2, RowFrame
    <2>3. CASE RequestActivation \/ BeginCancel \/ EndCancel \/ RollbackCancel \/ UNCHANGED vars
      BY <2>3, OtherFrame DEF CommitCancel
    <2> QED BY <2>1, <2>2, <2>3, NextSplit
  <1>2. cancel' # "done" => cancel # "done"
    <2>1. CASE \E w \in Workers : Work(w) \/ Crash(w)
      BY <2>1, WorkFrame
    <2>2. CASE \E d \in Deliveries : Emit(d) \/ Retry(d) \/ TimePasses(d) \/ \E w \in Workers : Expand(w, d)
      BY <2>2, RowFrame
    <2>3. CASE RequestActivation \/ BeginCancel \/ EndCancel \/ RollbackCancel \/ UNCHANGED vars
      BY <2>3 DEF RequestActivation, BeginCancel, EndCancel, CancelPass, Entomb, Statement, CommitCancel,
         RollbackCancel, DecisionLocked, cancelVars, vars
    <2> QED BY <2>1, <2>2, <2>3, NextSplit
  <1>3. ASSUME NEW w \in Workers
        PROVE  /\ cancel' # "done" => late'[w] = 0
               /\ OnItsWay(w)' => late'[w] = 0
               /\ late'[w] <= 1
    <2>0. late \in [Workers -> Nat] /\ pc \in [Workers -> PCs]
      BY DEF Shaped
    <2>1. CASE late'[w] = late[w]
      <3>1. OnItsWay(w)' => late[w] = 0
        BY WayBegins
      <3> QED BY <1>2, <2>1, <3>1
    <2>2. CASE Overtakes(w) /\ cancel' = cancel
      <3>1. late[w] = 0
        BY <2>2 DEF Overtakes, OnItsWay
      <3>2. late'[w] = IF cancel = "done" THEN 1 ELSE 0
        BY <2>0, <2>2, <3>1 DEF Overtakes
      <3>3. pc'[w] = "verdict"
        BY <2>0, <2>2 DEF Overtakes
      <3> QED BY <2>2, <3>2, <3>3 DEF OnItsWay
    <2>3. CASE \E v \in Workers : Work(v) \/ Crash(v)
      <3>1. PICK v \in Workers : Work(v) \/ Crash(v)
        BY <2>3
      <3>2. cancel' = cancel /\ (late' = late \/ Overtakes(v))
        BY <3>1, WorkFrame
      <3>3. v # w /\ Overtakes(v) => late'[w] = late[w]
        BY <2>0 DEF Overtakes
      <3> QED BY <2>1, <2>2, <3>2, <3>3
    <2>4. CASE UNCHANGED history
      BY <2>1, <2>4 DEF history
    <2> QED BY <2>3, <2>4, NextSplit, RowFrame, OtherFrame
  <1> QED BY <1>1, <1>3

DeliveryInv == Shaped /\ JobInv /\ HonestInv /\ LateInv

LEMMA DeliveryStart == Init => DeliveryInv
  <1> SUFFICES ASSUME Init PROVE DeliveryInv
    OBVIOUS
  <1>1. Shaped
    <2>1. Absent \in AnyRow
      BY RowTypes
    <2>2. bound \in [crashes : 0..MaxCrashes, retries : 0..MaxRetries, toggles : 0..MaxToggles]
      BY DeliveryAssumption DEF DeliveryAssumption, Init
    <2>3. emitted \subseteq Deliveries /\ row \in [Deliveries -> AnyRow] /\ seen \in [Workers -> AnyRow]
      BY <2>1 DEF Init
    <2>4. pc \in [Workers -> PCs] /\ queue \in [Workers -> SUBSET Deliveries]
          /\ job \in [Workers -> Deliveries \cup {NoDelivery}]
      BY DEF Init, PCs
    <2>5. loop \in [Workers -> Loop] /\ late \in [Workers -> Nat]
      BY DeliveryAssumption DEF DeliveryAssumption, Init, NoLoop, Loop
    <2> QED BY <2>2, <2>3, <2>4, <2>5 DEF Init, Shaped, CancelSteps
  <1>2. JobInv /\ HonestInv /\ LateInv
    BY DeliveryAssumption DEF DeliveryAssumption, Init, JobInv, Dispatching, HonestInv, RowHonest, WorkerHonest, LateInv,
       OnItsWay, Absent
  <1> QED BY <1>1, <1>2 DEF DeliveryInv

\* DeliveryInv holds in every reachable state, however slow the senders, faulty
\* the reads and busy the operators.
THEOREM DeliveryInvariant == Spec => []DeliveryInv
  <1>1. DeliveryInv /\ [Next]_vars => DeliveryInv'
    BY ShapedStep, JobStep, RowHonestStep, WorkerHonestStep, LateStep DEF DeliveryInv, HonestInv
  <1> QED BY DeliveryStart, <1>1, PTL DEF Spec

\* No row is closed while the handler owes somebody: it was offered to the push
\* service for a recipient, its drop is recorded, or it was for nobody
\* (consumers.ts, handle; relay.service.ts, dispatchExternal).
THEOREM SuccessesAreAccountedFor == Spec => []SuccessIsAccountedFor
  <1>1. DeliveryInv => SuccessIsAccountedFor
    BY DEF DeliveryInv, HonestInv, RowHonest, Accounted, SuccessIsAccountedFor
  <1> QED BY <1>1, DeliveryInvariant, PTL

\* A cancellation overtakes each worker at most once: past its commit, a worker
\* offers no more than the one push it had judged before (consumers.ts,
\* preSendVerdict before each recipient).
THEOREM OvertakenAtMostOnce == Spec => []OvertakenOnce
  <1>1. DeliveryInv => OvertakenOnce
    BY DEF DeliveryInv, LateInv, OvertakenOnce
  <1> QED BY <1>1, DeliveryInvariant, PTL
-----------------------------------------------------------------------------
\* While a claimed row is worked off within its lease: a row a worker has is
\* leased and unexpired, nobody else has it, and a job has left the queue.
Leased(d) == row[d].status = "leased" /\ d \notin expired

SenderInv ==
    /\ \A w \in Workers, d \in Deliveries : WorksOn(w, d) => Leased(d)
    /\ OneActiveSender
    /\ \A w \in Workers : job[w] \notin queue[w]

\* A worker comes to have a row only by claiming one that nobody has.
LEMMA WorkBegins ==
    ASSUME Shaped, JobInv, SenderInv, [Next]_vars, NEW w \in Workers, NEW d \in Deliveries,
           ~WorksOn(w, d), WorksOn(w, d)'
    PROVE  /\ ClaimOne(w) \/ Claim(w)
           /\ Leased(d)'
           /\ ~Leased(d)
  <1> USE DeliveryAssumption DEF DeliveryAssumption
  <1>1. CASE \E v \in Workers : Work(v) \/ Crash(v)
    <2>1. Work(w) \/ Crash(w)
      BY <1>1, WorkerAlone DEF WorksOn
    <2>2. CASE ClaimOne(w)
      <3>1. pc[w] = "fresh" /\ \A e, f \in queue[w] : e = f
        BY <2>2 DEF ClaimOne, JobInv
      <3>2. PICK e \in queue[w] : IF row[e].status = "pending"
                                  THEN /\ Write(e, [row[e] EXCEPT !.status = "leased"])
                                       /\ Goto(w, "dispatch")
                                       /\ UNCHANGED <<due, queue, job, seen>>
                                  ELSE Forget(w) /\ UNCHANGED rowVars
        BY <2>2 DEF ClaimOne
      <3>3. row[e].status = "pending"
        BY <3>2 DEF WorksOn, Forget, Goto, Shaped
      <3>4. d = e
        BY <3>1, <3>2, <3>3 DEF WorksOn
      <3>5. row'[d] = [row[d] EXCEPT !.status = "leased"] /\ d \notin expired'
        BY <3>2, <3>3, <3>4 DEF Write, Shaped
      <3>6. [row[d] EXCEPT !.status = "leased"].status = "leased"
        BY DEF Shaped, AnyRow
      <3> QED BY <2>2, <3>3, <3>4, <3>5, <3>6 DEF Leased
    <2>3. CASE Claim(w)
      <3>1. PICK batch \in SUBSET Claimable(w) :
              /\ row' = [e \in Deliveries |-> IF e \in batch THEN [row[e] EXCEPT !.status = "leased"] ELSE row[e]]
              /\ expired' = expired \ batch /\ queue' = [queue EXCEPT ![w] = batch]
        BY <2>3 DEF Claim
      <3>2. pc[w] = "claiming" /\ job' = job /\ queue[w] = {}
        BY <2>3 DEF Claim, JobInv
      <3>3. d \in batch
        BY <3>1, <3>2 DEF WorksOn, Shaped
      <3>4. ~Leased(d)
        BY <3>1, <3>3 DEF Claimable, Leased
      <3>5. [row[d] EXCEPT !.status = "leased"].status = "leased"
        BY DEF Shaped, AnyRow
      <3> QED BY <2>3, <3>1, <3>3, <3>4, <3>5 DEF Leased
    <2>4. CASE LoadRow(w)
      BY <2>4 DEF LoadRow, WorksOn, Goto, Shaped
    <2>5. CASE BeginPass(w) \/ EndPass(w) \/ Crash(w)
      BY <2>5 DEF BeginPass, EndPass, Crash, Forget, WorksOn, Goto, Shaped, JobInv
    <2>6. CASE ReadCatalog(w) \/ CheckMark(w) \/ JudgeFails(w) \/ CallProvider(w)
      BY <2>6 DEF ReadCatalog, CheckMark, JudgeFails, CallProvider, EndJob, WorksOn, Goto, Shaped
    <2>7. CASE Neutralize(w) \/ Settle(w) \/ Fail(w) \/ JudgeTarget(w) \/ Verdict(w) \/ EndLoop(w)
      BY <2>7 DEF Neutralize, JudgeTarget, Verdict, EndLoop, Settle, Fail, Drop, EndJob, WorksOn, Goto, Shaped
    <2> QED BY <2>1, <2>2, <2>3, <2>4, <2>5, <2>6, <2>7 DEF Work
  <1>2. ASSUME NEW e \in Deliveries, Emit(e)
        PROVE  FALSE
    BY <1>2 DEF Emit, workVars, WorksOn, Goto, Shaped, Workers
  <1>3. CASE UNCHANGED workVars
    BY <1>3 DEF workVars, WorksOn
  <1> QED BY <1>1, <1>2, <1>3, NextSplit, RowFrame, OtherFrame

\* Nobody takes a worker's row from under it.
LEMMA WorkKept ==
    ASSUME ~SlowSenders, Shaped, JobInv, HonestInv, SenderInv, [Next]_vars, NEW w \in Workers, NEW d \in Deliveries,
           WorksOn(w, d), WorksOn(w, d)'
    PROVE  Leased(d)'
  <1>1. row[d].status = "leased" /\ d \notin expired
    BY DEF SenderInv, Leased
  <1>2. d \notin expired'
    <2>1. ASSUME NEW v \in Workers, Work(v) \/ Crash(v)
          PROVE  expired' \subseteq expired
      BY <2>1 DEF Work, ClaimOne, BeginPass, Claim, EndPass, LoadRow, ReadCatalog, CheckMark, Neutralize, JudgeTarget,
           Verdict, EndLoop, JudgeFails, CallProvider, Settle, Fail, Crash, Drop, Write, rowVars
    <2>2. ASSUME NEW e \in Deliveries, Emit(e) \/ Retry(e) \/ TimePasses(e) \/ \E v \in Workers : Expand(v, e)
          PROVE  expired' \subseteq expired \/ (LeaseExpires(e) /\ expired' = expired \cup {e})
      BY <2>2 DEF Emit, Retry, TimePasses, BackoffElapses, LeaseExpires, Ages, Expand, Write
    <2>3. CASE RequestActivation \/ BeginCancel \/ EndCancel \/ RollbackCancel \/ UNCHANGED vars
      BY <1>1, <2>3 DEF RequestActivation, BeginCancel, EndCancel, CancelPass, Entomb, Statement, CommitCancel,
           RollbackCancel, rowVars, vars
    <2> QED BY <1>1, <2>1, <2>2, <2>3, NextSplit DEF LeaseExpires
  <1>3. row'[d].status = "leased"
    <2>1. RowMove(d) /\ row[d] \in AnyRow /\ RowHonest(d)
      BY RowMoves DEF Shaped, HonestInv
    <2>2. CASE \E v \in Workers : job[v] = d /\ Work(v) /\ WorkerWrite(v)
      <3>1. job[w] = d /\ Work(w) /\ WorkerWrite(w)
        BY <2>2 DEF SenderInv, OneActiveSender, WorksOn
      <3>2. d \notin queue[w]
        BY <3>1 DEF SenderInv
      <3>3. ~EndJob(w)
        BY <3>2, DeliveryAssumption DEF EndJob, WorksOn, Shaped, DeliveryAssumption
      <3>4. pc[w] \notin {"neutral", "settle", "fail"}
        BY <3>1, <3>3 DEF Work, ClaimOne, BeginPass, Claim, EndPass, LoadRow, ReadCatalog, CheckMark, Neutralize,
           JudgeTarget, Verdict, EndLoop, JudgeFails, CallProvider, Settle, Fail
      <3>5. pc[w] = "catalog" => ReadCatalog(w)
        BY <3>1 DEF Work, ClaimOne, BeginPass, Claim, EndPass, LoadRow, CheckMark, Neutralize,
           JudgeTarget, Verdict, EndLoop, JudgeFails, CallProvider, Settle, Fail
      <3>6. pc[w] = "catalog" => active /\ w \notin Codeless
        BY <3>3, <3>5 DEF ReadCatalog
      <3> QED BY <1>1, <3>1, <3>4, <3>6 DEF WorkerWrite, Becomes, Holds
    <2> QED BY <1>1, <2>1, <2>2 DEF RowMove, RowHonest, CancelWrite, Becomes, Holds
  <1> QED BY <1>2, <1>3 DEF Leased

LEMMA JobLeftQueue ==
    ASSUME Shaped, JobInv, SenderInv, [Next]_vars, NEW w \in Workers
    PROVE  job'[w] \notin queue'[w]
  <1> USE DeliveryAssumption DEF DeliveryAssumption
  <1>1. job[w] \notin queue[w] /\ queue[w] \subseteq Deliveries
    BY DEF SenderInv, Shaped
  <1>2. ASSUME NEW v \in Workers, Work(v) \/ Crash(v)
        PROVE  job'[w] \notin queue'[w]
    <2>1. CASE v # w
      BY <1>1, <1>2, <2>1, WorkerAlone
    <2>2. CASE v = w /\ LoadRow(w)
      BY <1>1, <2>2 DEF LoadRow, Shaped
    <2>3. CASE v = w /\ Claim(w)
      <3>1. job'[w] \notin Deliveries
        BY <2>3 DEF Claim, JobInv, Dispatching
      <3> QED BY <3>1, <1>2, WorkTyped
    <2>4. CASE v = w /\ (ClaimOne(w) \/ BeginPass(w) \/ EndPass(w) \/ ReadCatalog(w) \/ CheckMark(w)
               \/ Neutralize(w) \/ JudgeTarget(w) \/ Verdict(w) \/ EndLoop(w) \/ JudgeFails(w) \/ CallProvider(w) \/ Settle(w)
               \/ Fail(w) \/ Crash(w))
      <3>1. \/ Forget(w)
            \/ queue' = queue /\ (job' = job \/ job' = [job EXCEPT ![w] = NoDelivery])
        BY <2>4 DEF ClaimOne, BeginPass, EndPass, ReadCatalog, CheckMark, Neutralize, JudgeTarget, Verdict, EndLoop, JudgeFails,
           CallProvider, Settle, Fail, Crash, EndJob
      <3> QED BY <1>1, <3>1 DEF Forget, Shaped
    <2> QED BY <1>2, <2>1, <2>2, <2>3, <2>4 DEF Work
  <1>3. ASSUME NEW d \in Deliveries, Emit(d)
        PROVE  job'[w] \notin queue'[w]
    <2>1. queue'[w] = queue[w] \/ pc[w] = "idle"
      BY <1>3 DEF Emit, Shaped, workVars
    <2>2. job' = job
      BY <1>3 DEF Emit, workVars
    <2>3. pc[w] = "idle" => job[w] \notin Deliveries
      BY DEF JobInv, Dispatching
    <2> QED BY <1>1, <2>1, <2>2, <2>3, <1>3, WorkTyped
  <1>4. CASE UNCHANGED workVars
    BY <1>1, <1>4 DEF workVars
  <1> QED BY <1>2, <1>3, <1>4, NextSplit, RowFrame, OtherFrame

LEMMA SenderStep ==
    ASSUME ~SlowSenders, DeliveryInv, SenderInv, [Next]_vars
    PROVE  SenderInv'
  <1> USE DEF DeliveryInv
  <1>1. ASSUME NEW w \in Workers, NEW d \in Deliveries, WorksOn(w, d)'
        PROVE  Leased(d)'
    BY <1>1, WorkBegins, WorkKept
  <1>2. ASSUME NEW v \in Workers, NEW w \in Workers, NEW d \in Deliveries, WorksOn(v, d)', WorksOn(w, d)'
        PROVE  v = w
    <2>1. CASE WorksOn(v, d) /\ WorksOn(w, d)
      BY <2>1 DEF SenderInv, OneActiveSender
    <2>2. CASE (WorksOn(v, d) /\ ~WorksOn(w, d)) \/ (WorksOn(w, d) /\ ~WorksOn(v, d))
      <3>1. ~Leased(d)
        BY <1>2, <2>2, WorkBegins
      <3> QED BY <2>2, <3>1 DEF SenderInv
    <2>3. CASE ~WorksOn(v, d) /\ ~WorksOn(w, d)
      <3>1. (ClaimOne(v) \/ Claim(v)) /\ (ClaimOne(w) \/ Claim(w))
        BY <1>2, <2>3, WorkBegins
      <3>2. pc[w] \in {"fresh", "claiming"} /\ pc'[w] \notin {"fresh", "claiming"}
        BY <3>1 DEF ClaimOne, Claim, Forget, Goto, Shaped
      <3> QED BY <3>1, <3>2, WorkerAlone DEF Work
    <2> QED BY <2>1, <2>2, <2>3
  <1>3. \A w \in Workers : job'[w] \notin queue'[w]
    BY JobLeftQueue
  <1> QED BY <1>1, <1>2, <1>3 DEF SenderInv, OneActiveSender

LEMMA SenderInvariant ==
    ASSUME ~SlowSenders
    PROVE  Spec => [](DeliveryInv /\ SenderInv)
  <1>1. Init => SenderInv
    BY DeliveryAssumption DEF DeliveryAssumption, Init, SenderInv, OneActiveSender, WorksOn
  <1>2. DeliveryInv /\ SenderInv /\ [Next]_vars => SenderInv'
    BY SenderStep
  <1> QED BY <1>1, <1>2, DeliveryInvariant, PTL DEF Spec

\* While every claimed row is worked off within its lease, no two workers have
\* claimed one row and not finished with it (relay.service.ts, claim).
THEOREM LeasesExclude ==
    ASSUME ~SlowSenders
    PROVE  Spec => []OneActiveSender
  <1>1. SenderInv => OneActiveSender
    BY DEF SenderInv
  <1> QED BY <1>1, SenderInvariant, PTL

LEMMA SettledStep ==
    ASSUME DeliveryInv, SenderInv, [Next]_vars, NEW d \in Deliveries, row[d].status = "succeeded"
    PROVE  row'[d].status = "succeeded" /\ (row[d].mark => row'[d].mark)
  <1>1. row[d].mark => row'[d].mark
    BY Lasting DEF DeliveryInv
  <1>2. RowMove(d) /\ RowHonest(d)
    BY RowMoves DEF DeliveryInv, HonestInv
  <1>3. \A w \in Workers : job[w] # d
    BY DEF SenderInv, WorksOn, Leased
  <1> QED BY <1>1, <1>2, <1>3 DEF RowMove, RowHonest, CancelWrite, Becomes, Holds

\* While every claimed row is worked off within its lease, no late write of a
\* worker, the canceller or the operator reopens a settled row.
THEOREM SettlementStands ==
    ASSUME ~SlowSenders
    PROVE  Spec => SettledStays
  <1>1. DeliveryInv /\ SenderInv /\ [Next]_vars
          => [\A d \in Deliveries :
                row[d].status = "succeeded" =>
                    row'[d].status = "succeeded" /\ (row[d].mark => row'[d].mark)]_vars
    BY SettledStep
  <1> QED BY <1>1, SenderInvariant, PTL DEF Spec, SettledStays
-----------------------------------------------------------------------------
\* Where the canceller's statements leave each announcement.  One is safe when
\* it is held, marked or settled; one not safe was missed by the statements so
\* far, and no sender that could put it back in the queue is working on it.
Safe(d) == d \in held \/ row[d].mark \/ row[d].status = "succeeded"

Quiet(d) == \A w \in Workers : job[w] = d => pc[w] \notin {"provider", "fail"}

Missed == {d \in Family \cap emitted : ~Safe(d)}

StatusesLeft == [entomb |-> {"absent", "pending", "leased"}, neutralize2 |-> {"pending", "leased"},
                 mark2 |-> {"leased"}, commit |-> {}]

CancelInv ==
    /\ active
    /\ cancel \in DOMAIN StatusesLeft =>
          \A d \in Missed : Quiet(d) /\ row[d].status \in StatusesLeft[cancel]
    /\ CancellationComplete

\* A regular fleet: every worker has the handler, its reads do not fail, the
\* consumer stays active, and rows are worked off within their lease.
RegularFleet == ~SlowSenders /\ ~FaultyReads /\ ~MayDeactivate /\ Codeless = {}

\* The announcements of the family are fixed once the cancellation has begun.
LEMMA FamilyFixed ==
    ASSUME [Next]_vars, cancel # "none"
    PROVE  Family \cap emitted' = Family \cap emitted
  <1>1. \A d \in Deliveries : Emit(d) => d \notin Family
    BY DEF Emit
  <1> QED BY <1>1, NextSplit, WorkFrame, RowFrame, OtherFrame

\* Only the canceller's own statements move its phase or what it holds.
LEMMA CancelFrame ==
    ASSUME [Next]_vars
    PROVE  \/ cancel' = cancel /\ held' = held
           \/ BeginCancel \/ CancelPass \/ Entomb \/ CommitCancel \/ RollbackCancel
  <1>1. CASE RequestActivation \/ UNCHANGED vars
    BY <1>1 DEF RequestActivation, cancelVars, vars
  <1> QED BY <1>1, NextSplit, WorkFrame, RowFrame DEF EndCancel

LEMMA SafeStays ==
    ASSUME DeliveryInv, SenderInv, [Next]_vars, NEW d \in Deliveries, Safe(d), held \subseteq held'
    PROVE  Safe(d)'
  BY SettledStep, Lasting DEF Safe, DeliveryInv

LEMMA QuietStays ==
    ASSUME RegularFleet, DeliveryInv, [Next]_vars, NEW d \in Family \cap emitted, Quiet(d), DecisionLocked
    PROVE  Quiet(d)'
  <1> USE DEF Quiet, DeliveryInv
  <1>1. ASSUME NEW w \in Workers, Work(w) \/ Crash(w), job'[w] = d
        PROVE  pc'[w] \notin {"provider", "fail"}
    <2>1. d \in Deliveries /\ d # NoDelivery
      BY DeliveryAssumption DEF DeliveryAssumption
    <2>2. CASE LoadRow(w)
      BY <2>1, <2>2 DEF LoadRow, Goto, Shaped
    <2>3. CASE CheckMark(w)
      BY <1>1, <2>3 DEF CheckMark, Goto, Shaped
    <2>4. CASE CallProvider(w)
      BY <1>1, <2>4 DEF CallProvider
    <2>5. CASE JudgeTarget(w) \/ Verdict(w) \/ JudgeFails(w)
      BY <2>5 DEF JudgeTarget, Verdict, JudgeFails, RegularFleet
    <2>8. CASE EndLoop(w)
      BY <2>8 DEF EndLoop, Drop, Goto, Shaped
    <2>6. CASE ReadCatalog(w) \/ ClaimOne(w) \/ BeginPass(w) \/ Claim(w) \/ EndPass(w)
      BY <2>6 DEF ReadCatalog, ClaimOne, BeginPass, Claim, EndPass, Goto, EndJob, Forget, Shaped
    <2>7. CASE Neutralize(w) \/ Settle(w) \/ Fail(w) \/ Crash(w)
      BY <2>7 DEF Neutralize, Settle, Fail, Crash, Goto, EndJob, Forget, Shaped
    <2> QED BY <1>1, <2>2, <2>3, <2>4, <2>5, <2>6, <2>7, <2>8 DEF Work
  <1>2. CASE \E w \in Workers : Work(w) \/ Crash(w)
    BY <1>1, <1>2, WorkerAlone
  <1>3. ASSUME NEW e \in Deliveries, Emit(e)
        PROVE  \A w \in Workers : job'[w] = job[w] /\ pc'[w] \in {pc[w], "fresh"}
    BY <1>3 DEF Emit, workVars, Goto, Shaped
  <1>4. CASE UNCHANGED workVars
    BY <1>4 DEF workVars
  <1> QED BY <1>2, <1>3, <1>4, NextSplit, RowFrame, OtherFrame

\* Between two statements a missed announcement can be created or claimed, but
\* not put back in the queue.
LEMMA MissedMoves ==
    ASSUME RegularFleet, DeliveryInv, CancelInv, [Next]_vars, NEW d \in Family \cap emitted,
           DecisionLocked, Quiet(d), row[d].status \in {"absent", "pending", "leased"}, ~CommitCancel,
           row'[d].status # "succeeded"
    PROVE  \/ row'[d].status = row[d].status
           \/ row[d].status = "absent" /\ d \notin held /\ row'[d].status = "pending"
           \/ row[d].status = "pending" /\ row'[d].status = "leased"
  <1>1. RowMove(d) /\ row[d] \in AnyRow /\ active /\ d \in Deliveries
    BY RowMoves, DeliveryAssumption DEF DeliveryAssumption, DeliveryInv, Shaped, CancelInv
  <1>2. CASE \E w \in Workers : job[w] = d /\ WorkerWrite(w)
    BY <1>1, <1>2 DEF WorkerWrite, Becomes, Holds, Quiet, RegularFleet
  <1>3. CASE d \in held /\ cancel = "commit" /\ cancel' = "done" /\ CancelWrite(d)
    <2>1. CommitCancel
      BY <1>3, CancelFrame DEF BeginCancel, CancelPass, Entomb, Statement, RollbackCancel
    <2> QED BY <2>1
  <1> QED BY <1>1, <1>2, <1>3 DEF RowMove, Becomes, Holds, Fresh

LEMMA CancelStep ==
    ASSUME RegularFleet, DeliveryInv, SenderInv, CancelInv, [Next]_vars
    PROVE  CancelInv'
  <1> USE DEF DeliveryInv
  <1>0. Family \subseteq Deliveries /\ cancel \in CancelSteps /\ cancel' \in CancelSteps
    BY DeliveryAssumption, ShapedStep DEF DeliveryAssumption, Shaped
  <1>1. active'
    <2>1. active /\ ~RequestActivation
      BY DEF CancelInv, RegularFleet, RequestActivation
    <2>2. CASE BeginCancel \/ EndCancel \/ RollbackCancel \/ UNCHANGED vars
      BY <2>1, <2>2 DEF BeginCancel, EndCancel, CancelPass, Entomb, Statement, CommitCancel, RollbackCancel, vars
    <2> QED BY <2>1, <2>2, NextSplit, WorkFrame, RowFrame
  <1>2. CASE cancel' = cancel /\ held' = held
    <2>1. ASSUME cancel \in DOMAIN StatusesLeft, NEW d \in Missed'
          PROVE  Quiet(d)' /\ row'[d].status \in StatusesLeft[cancel]
      <3>1. DecisionLocked /\ cancel # "none" /\ ~CommitCancel
        BY <1>2, <2>1 DEF DecisionLocked, StatusesLeft, CommitCancel
      <3>2. d \in Family \cap emitted /\ d \in Deliveries /\ ~Safe(d)' /\ ~Safe(d)
        BY <1>0, <1>2, <3>1, FamilyFixed, SafeStays DEF Missed
      <3>3. Quiet(d) /\ row[d].status \in StatusesLeft[cancel]
        BY <2>1, <3>2 DEF CancelInv, Missed
      <3>4. Quiet(d)'
        BY <3>1, <3>2, <3>3, QuietStays
      <3>5. row[d].status \in {"absent", "pending", "leased"}
        BY <2>1, <3>3 DEF StatusesLeft
      <3>6. row'[d].status # "succeeded"
        BY <3>2 DEF Safe
      <3>7. \/ row'[d].status = row[d].status
            \/ row[d].status = "absent" /\ row'[d].status = "pending"
            \/ row[d].status = "pending" /\ row'[d].status = "leased"
        BY <3>1, <3>2, <3>3, <3>5, <3>6, MissedMoves
      <3>8. row'[d].status \in StatusesLeft[cancel]
        BY <2>1, <3>3, <3>7 DEF StatusesLeft
      <3> QED BY <3>4, <3>8
    <2>2. CancellationComplete'
      <3>1. ASSUME cancel = "done", NEW d \in Family \cap emitted
            PROVE  row'[d].mark \/ row'[d].status = "succeeded"
        BY <1>0, <3>1, Lasting, SettledStep DEF CancelInv, CancellationComplete
      <3> QED BY <1>2, <3>1, FamilyFixed DEF CancellationComplete
    <2> QED BY <1>1, <1>2, <2>1, <2>2 DEF CancelInv
  <1>3. CASE BeginCancel \/ RollbackCancel
    BY <1>1, <1>3 DEF BeginCancel, RollbackCancel, CancelInv, StatusesLeft, CancellationComplete
  <1>4. CASE CancelPass \/ Entomb
    <2>1. row' = row /\ UNCHANGED workVars /\ emitted' = emitted /\ held \subseteq held'
      BY <1>4 DEF CancelPass, Entomb, Statement, rowVars
    <2>2. \A d \in Missed' : d \in Missed /\ row'[d] = row[d] /\ (Quiet(d) => Quiet(d)')
      BY <2>1 DEF Missed, Safe, Quiet, workVars
    <2>3. \A d \in Missed : row[d].status \in Statuses /\ ~row[d].mark /\ d \notin held /\ row[d].status # "succeeded"
      BY <1>0 DEF Missed, Safe, Shaped, AnyRow
    <2>4. CASE Statement("neutralize1", "mark1", Unmarked({"pending"}))
      BY <1>1, <2>4 DEF Statement, CancelInv, StatusesLeft, CancellationComplete
    <2>5. CASE Statement("mark1", "entomb", Unmarked({"leased", "dead"}))
      <3>1. ASSUME NEW d \in Missed'
            PROVE  Quiet(d)' /\ row'[d].status \in {"absent", "pending"}
        <4>1. row[d].status \in {"absent", "pending"}
          BY <2>2, <2>3, <2>5, <3>1 DEF Statement, Unmarked, Missed, Safe, Statuses
        <4>2. \A w \in Workers : job[w] # d
          BY <4>1, <1>0, <2>2 DEF SenderInv, WorksOn, Leased, Missed
        <4> QED BY <2>2, <4>1, <4>2 DEF Quiet
      <3> QED BY <1>1, <2>5, <3>1 DEF Statement, CancelInv, StatusesLeft, CancellationComplete
    <2>6. CASE Statement("entomb", "neutralize2", Unmarked({"absent"}))
      <3>1. ASSUME NEW d \in Missed'
            PROVE  Quiet(d)' /\ row'[d].status \in {"pending", "leased"}
        BY <2>2, <2>3, <2>6, <3>1 DEF Statement, Unmarked, Missed, Safe, CancelInv, StatusesLeft
      <3> QED BY <1>1, <2>6, <3>1 DEF Statement, CancelInv, StatusesLeft, CancellationComplete
    <2>7. CASE Statement("neutralize2", "mark2", Unmarked({"pending"}))
      <3>1. ASSUME NEW d \in Missed'
            PROVE  Quiet(d)' /\ row'[d].status = "leased"
        BY <2>2, <2>3, <2>7, <3>1 DEF Statement, Unmarked, Missed, Safe, CancelInv, StatusesLeft
      <3> QED BY <1>1, <2>7, <3>1 DEF Statement, CancelInv, StatusesLeft, CancellationComplete
    <2>8. CASE Statement("mark2", "commit", Unmarked({"leased", "dead"}))
      <3>1. Missed' = {}
        BY <2>2, <2>3, <2>8 DEF Statement, Unmarked, Missed, Safe, CancelInv, StatusesLeft
      <3> QED BY <1>1, <2>8, <3>1 DEF Statement, CancelInv, CancellationComplete
    <2> QED BY <1>4, <2>4, <2>5, <2>6, <2>7, <2>8 DEF CancelPass, Entomb
  <1>5. CASE CommitCancel
    <2>1. ASSUME NEW d \in Family \cap emitted
          PROVE  row'[d].mark \/ row'[d].status = "succeeded"
      <3>1. Safe(d)
        BY <1>5, <2>1 DEF CommitCancel, CancelInv, StatusesLeft, Missed
      <3>2. CASE d \in held
        <4>1. CancelWrite(d)
          <5>1. row'[d] = Cancelled(d) /\ row[d] \in AnyRow
            BY <1>0, <1>5, <3>2 DEF CommitCancel, Shaped
          <5> QED BY <5>1 DEF Cancelled, CancelWrite, Becomes, Holds, AnyRow
        <4> QED BY <4>1 DEF CancelWrite, Becomes, Holds, Tombstone
      <3>3. CASE row[d].mark \/ row[d].status = "succeeded"
        BY <1>0, <3>3, Lasting, SettledStep
      <3> QED BY <3>1, <3>2, <3>3 DEF Safe
    <2>2. cancel' = "done" /\ emitted' = emitted
      BY <1>5 DEF CommitCancel
    <2> QED BY <1>1, <2>1, <2>2 DEF CancelInv, CancellationComplete, StatusesLeft
  <1> QED BY <1>2, <1>3, <1>4, <1>5, CancelFrame

\* In a regular fleet, when a cancellation has committed every announcement of
\* the family is marked or was already delivered, the rows that were claimed,
\* failed or created between its statements included
\* (cancellation.ts, cancelQueuedPushBySubject).
THEOREM CancellationsAreComplete ==
    ASSUME RegularFleet
    PROVE  Spec => []CancellationComplete
  <1>1. Init => CancelInv
    BY DEF Init, RegularFleet, CancelInv, StatusesLeft, CancellationComplete
  <1>2. DeliveryInv /\ SenderInv /\ CancelInv /\ [Next]_vars => CancelInv'
    BY CancelStep
  <1>3. Spec => [](DeliveryInv /\ SenderInv)
    BY SenderInvariant DEF RegularFleet
  <1>4. CancelInv => CancellationComplete
    BY DEF CancelInv
  <1> QED BY <1>1, <1>2, <1>3, <1>4, PTL DEF Spec
-----------------------------------------------------------------------------
\* The retry budget.  A row in play has attempts left, and so has the reading a
\* worker goes on with.  Neither need be true while the consumer is inactive: a
\* slow worker that finds it so gives back, as pending, a row another worker has
\* dead-lettered meanwhile.  A consumer never yet active has nothing in play.
InPlay == {d \in Deliveries : row[d].status \in {"pending", "leased"}}

Steady == active \/ ~SlowSenders

BudgetInv ==
    /\ \A d \in Deliveries : row[d].attempts <= MaxAttempts
    /\ Steady => \A d \in InPlay : row[d].attempts < MaxAttempts
    /\ \A w \in Workers : /\ seen[w].attempts <= MaxAttempts
                          /\ pc[w] \in Dispatching /\ (Steady \/ pc[w] # "catalog")
                                => seen[w].attempts < MaxAttempts
    /\ ~active /\ bound.toggles = 0 =>
          /\ \A d \in Deliveries : row[d].status \in {"absent", "succeeded"}
          /\ \A w \in Workers : pc[w] \in {"idle", "fresh"}

\* The consumer is not switched off and on again under slow senders.
CalmCatalog == SlowSenders => ~MayDeactivate \/ MaxToggles <= 1

LEMMA ToggleFrame ==
    ASSUME Shaped, [Next]_vars
    PROVE  (active' = active /\ bound'.toggles = bound.toggles) \/ RequestActivation
  <1>0. /\ [bound EXCEPT !.crashes = @ + 1].toggles = bound.toggles
        /\ [bound EXCEPT !.retries = @ + 1].toggles = bound.toggles
    BY DEF Shaped
  <1>1. CASE \E w \in Workers : Work(w) \/ Crash(w)
    <2>1. PICK w \in Workers : Work(w) \/ Crash(w)
      BY <1>1
    <2>2. bound' = bound \/ bound' = [bound EXCEPT !.crashes = @ + 1]
      BY <2>1 DEF Work, Crash, ClaimOne, BeginPass, Claim, EndPass, LoadRow, ReadCatalog, CheckMark, Neutralize,
         JudgeTarget, Verdict, EndLoop, JudgeFails, CallProvider, Settle, Fail
    <2> QED BY <1>0, <2>1, <2>2, WorkFrame
  <1>2. CASE \E d \in Deliveries : Emit(d) \/ Retry(d) \/ TimePasses(d) \/ \E w \in Workers : Expand(w, d)
    BY <1>0, <1>2 DEF Emit, Retry, TimePasses, BackoffElapses, LeaseExpires, Ages, Expand
  <1>3. CASE BeginCancel \/ EndCancel \/ RollbackCancel \/ UNCHANGED vars
    BY <1>0, <1>3 DEF BeginCancel, EndCancel, CancelPass, Entomb, Statement, CommitCancel, RollbackCancel, vars
  <1> QED BY <1>1, <1>2, <1>3, NextSplit

LEMMA BudgetRow ==
    ASSUME DeliveryInv, ~SlowSenders => SenderInv, BudgetInv, [Next]_vars, active' = active, NEW d \in Deliveries
    PROVE  /\ row'[d].attempts <= MaxAttempts
           /\ Steady /\ row'[d].status \in {"pending", "leased"} => row'[d].attempts < MaxAttempts
           /\ ~active /\ bound.toggles = 0 => row'[d].status \in {"absent", "succeeded"}
  <1>1. RowMove(d) /\ RowHonest(d) /\ row[d] \in AnyRow /\ row[d].attempts \in Nat
    BY RowMoves DEF DeliveryInv, HonestInv, Shaped, AnyRow
  <1>2. /\ row[d].attempts <= MaxAttempts
        /\ Steady /\ row[d].status \in {"pending", "leased"} => row[d].attempts < MaxAttempts
        /\ ~active /\ bound.toggles = 0 => row[d].status \in {"absent", "succeeded"}
    BY DEF BudgetInv, InPlay
  <1>3. MaxAttempts \in Nat \ {0}
    BY DeliveryAssumption DEF DeliveryAssumption
  <1> USE <1>1, <1>2, <1>3 DEF Becomes, Holds
  <1>4. CASE row'[d] = row[d]
    BY <1>4
  <1>5. CASE row'[d] \in {Absent, Tombstone} \/ (active /\ row'[d] = Fresh)
    BY <1>5 DEF Absent, Fresh, Tombstone
  <1>6. CASE \/ row[d].status \in {"pending", "leased"} /\ Becomes(d, "leased", row[d].attempts, row[d].action, row[d].mark)
             \/ row[d].status = "dead" /\ active /\ Becomes(d, "pending", 0, row[d].action, row[d].mark)
    BY <1>6
  <1>7. CASE CancelWrite(d)
    BY <1>5, <1>7 DEF CancelWrite
  <1>8. CASE \E w \in Workers : job[w] = d /\ WorkerWrite(w)
    <2>1. PICK w \in Workers : job[w] = d /\ WorkerWrite(w)
      BY <1>8
    <2>2. /\ seen[w].attempts \in Nat /\ seen[w].attempts <= MaxAttempts /\ pc[w] \in Dispatching
          /\ pc[w] = "fail" => seen[w].attempts < MaxAttempts
      BY <2>1 DEF BudgetInv, DeliveryInv, Shaped, AnyRow, JobInv, Dispatching
    <2>3. ~SlowSenders => row[d].status = "leased"
      BY <2>1 DEF SenderInv, WorksOn, Leased
    <2>4. active \/ bound.toggles # 0
      BY <2>2 DEF BudgetInv, Dispatching
    <2> QED BY <2>1, <2>2, <2>3, <2>4 DEF WorkerWrite, Steady
  <1> QED BY <1>4, <1>5, <1>6, <1>7, <1>8 DEF RowMove, DeliveryRow

LEMMA BudgetWorker ==
    ASSUME DeliveryInv, BudgetInv, [Next]_vars, active' = active, NEW w \in Workers
    PROVE  /\ seen'[w].attempts <= MaxAttempts
           /\ pc'[w] \in Dispatching /\ (Steady \/ pc'[w] # "catalog") => seen'[w].attempts < MaxAttempts
           /\ ~active /\ bound.toggles = 0 => pc'[w] \in {"idle", "fresh"}
  <1> USE DEF DeliveryInv, Dispatching
  <1>1. /\ seen[w].attempts <= MaxAttempts
        /\ pc[w] \in Dispatching /\ (Steady \/ pc[w] # "catalog") => seen[w].attempts < MaxAttempts
        /\ ~active /\ bound.toggles = 0 => pc[w] \in {"idle", "fresh"}
    BY DEF BudgetInv
  <1>2. MaxAttempts \in Nat \ {0} /\ Absent.attempts = 0
    BY DeliveryAssumption DEF DeliveryAssumption, Absent
  <1>3. CASE pc'[w] = pc[w] /\ seen'[w] = seen[w]
    BY <1>1, <1>3
  <1>4. CASE Work(w)
    <2>1. CASE LoadRow(w)
      <3>1. pc[w] = "dispatch"
        BY <2>1 DEF LoadRow
      <3>2. PICK d \in queue[w] : \/ seen'[w] = row[d] /\ pc'[w] = "catalog" /\ row[d].status \in {"pending", "leased"}
                                  \/ seen'[w] = seen[w] /\ pc'[w] = "dispatch"
        BY <2>1 DEF LoadRow, Goto, Shaped
      <3>3. d \in Deliveries /\ row[d].attempts <= MaxAttempts
        BY DEF Shaped, BudgetInv
      <3> QED BY <1>1, <3>1, <3>2, <3>3 DEF BudgetInv, InPlay
    <2>2. CASE ReadCatalog(w)
      BY <1>1, <1>2, <2>2 DEF ReadCatalog, Goto, EndJob, Shaped, Steady
    <2>3. CASE CheckMark(w) \/ JudgeTarget(w) \/ Verdict(w) \/ EndLoop(w) \/ JudgeFails(w) \/ CallProvider(w)
      BY <1>1, <2>3 DEF CheckMark, JudgeTarget, Verdict, EndLoop, JudgeFails, CallProvider, Drop, Goto, Shaped
    <2>4. CASE Neutralize(w) \/ Settle(w) \/ Fail(w)
      BY <1>1, <1>2, <2>4 DEF Neutralize, Settle, Fail, Goto, EndJob, Shaped
    <2>5. CASE BeginPass(w) \/ EndPass(w) \/ Claim(w)
      BY <1>1, <1>2, <2>5 DEF BeginPass, EndPass, Claim, Goto, Forget, Shaped
    <2>6. CASE ClaimOne(w)
      <3>1. pc[w] = "fresh" /\ queue[w] \subseteq Deliveries
        BY <2>6 DEF ClaimOne, Shaped
      <3>2. \/ pc'[w] = "idle" /\ seen'[w] = Absent
            \/ pc'[w] = "dispatch" /\ seen' = seen /\ \E d \in Deliveries : row[d].status = "pending"
        BY <2>6, <3>1 DEF ClaimOne, Goto, Forget, Shaped
      <3> QED BY <1>1, <1>2, <3>1, <3>2 DEF BudgetInv
    <2> QED BY <1>4, <2>1, <2>2, <2>3, <2>4, <2>5, <2>6 DEF Work
  <1>5. CASE Crash(w)
    BY <1>2, <1>5 DEF Crash, Forget, Goto, Shaped
  <1>6. ASSUME NEW v \in Workers, v # w, Work(v) \/ Crash(v)
        PROVE  pc'[w] = pc[w] /\ seen'[w] = seen[w]
    BY <1>6, WorkerAlone
  <1>7. ASSUME NEW d \in Deliveries, Emit(d)
        PROVE  seen'[w] = seen[w] /\ (pc'[w] = pc[w] \/ pc'[w] = "fresh")
    BY <1>7 DEF Emit, workVars, Goto, Shaped
  <1>8. CASE UNCHANGED workVars
    BY <1>3, <1>8 DEF workVars
  <1> QED BY <1>1, <1>3, <1>4, <1>5, <1>6, <1>7, <1>8, NextSplit, RowFrame, OtherFrame

LEMMA BudgetStep ==
    ASSUME CalmCatalog, DeliveryInv, ~SlowSenders => SenderInv, BudgetInv, [Next]_vars
    PROVE  BudgetInv'
  <1>1. CASE active' = active /\ bound'.toggles = bound.toggles
    BY <1>1, BudgetRow, BudgetWorker DEF BudgetInv, InPlay, Steady
  <1>2. CASE RequestActivation
    <2>1. /\ MayDeactivate /\ bound.toggles < MaxToggles /\ active' = ~active
          /\ row' = row /\ seen' = seen /\ pc' = pc
      BY <1>2 DEF RequestActivation, rowVars, workVars
    <2>2. bound.toggles \in Nat /\ bound'.toggles = bound.toggles + 1 /\ MaxToggles \in Nat
      BY <1>2, DeliveryAssumption DEF DeliveryAssumption, RequestActivation, DeliveryInv, Shaped
    <2>3. Steady' => Steady \/ (~active /\ bound.toggles = 0)
      BY <2>1, <2>2 DEF Steady, CalmCatalog
    <2> QED BY <2>1, <2>2, <2>3 DEF BudgetInv, InPlay, Dispatching
  <1> QED BY <1>1, <1>2, ToggleFrame DEF DeliveryInv

\* Rows settle honestly: no row counts more attempts than its budget, and none
\* closes unaccounted for (relay.service.ts, onFailure, dispatchOne), unless the
\* consumer is switched off and on again while a sender outlives its lease.
THEOREM SettlementIsHonest ==
    ASSUME CalmCatalog
    PROVE  Spec => []RowsSettleHonestly
  <1>1. Init => BudgetInv
    BY DeliveryAssumption DEF DeliveryAssumption, Init, BudgetInv, InPlay, Dispatching, Absent
  <1>2. DeliveryInv /\ (~SlowSenders => SenderInv) /\ BudgetInv /\ [Next]_vars => BudgetInv'
    BY BudgetStep
  <1>3. DeliveryInv /\ BudgetInv => RowsSettleHonestly
    <2> SUFFICES ASSUME DeliveryInv, BudgetInv PROVE RowsSettleHonestly
      OBVIOUS
    <2>0. MaxAttempts \in Nat /\ Family \subseteq Deliveries
      BY DeliveryAssumption DEF DeliveryAssumption
    <2>1. \A r \in AnyRow : r.attempts <= MaxAttempts => r \in Row
      BY <2>0 DEF AnyRow, Row
    <2>2. row \in [Deliveries -> Row] /\ seen \in [Workers -> Row]
      BY <2>1 DEF DeliveryInv, Shaped, BudgetInv
    <2>3. TypeOK
      BY <2>0, <2>2 DEF DeliveryInv, Shaped, TypeOK
    <2>4. SuccessIsAccountedFor
      BY DEF DeliveryInv, HonestInv, RowHonest, Accounted, SuccessIsAccountedFor
    <2> QED BY <2>3, <2>4 DEF RowsSettleHonestly
  <1>4. CASE SlowSenders
    BY <1>1, <1>2, <1>3, <1>4, DeliveryInvariant, PTL DEF Spec
  <1>5. CASE ~SlowSenders
    <2>1. Spec => [](DeliveryInv /\ SenderInv)
      BY <1>5, SenderInvariant
    <2> QED BY <1>1, <1>2, <1>3, <2>1, PTL DEF Spec
  <1> QED BY <1>4, <1>5
===============================================================================

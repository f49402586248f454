--------------------------- MODULE ExternalDelivery ---------------------------
(***************************************************************************)
(* The outbox's external half, apps/api/src/platform/outbox: delivery rows *)
(* of the Web Push consumer, the background relays and the post-commit     *)
(* dispatchers that send them under a lease, the retry budget, the         *)
(* operator's retry, consumer activation, the recovery scanner, and the    *)
(* cancellation of queued announcements from inside a domain transaction.  *)
(*                                                                         *)
(* Time is three facts about a row that only time makes true: its backoff  *)
(* has elapsed, its lease has expired, it is older than the lease window.  *)
(* Every prisma call outside a transaction is one step; a transaction is   *)
(* one step, except the cancelling one, whose statements each see what had *)
(* committed when they ran and hold the rows they wrote until it ends.     *)
(***************************************************************************)
EXTENDS Naturals, FiniteSets

CONSTANTS
    Deliveries,     \* (event, webpush.notify) pairs
    Family,         \* those of a push family, about the one decision modelled
    Relays,         \* OUTBOX_SENDER_MODE=outbox: the relay claims all due rows
    Recoverers,     \* legacy/shadow: the relay claims retries and abandoned rows
    Dispatchers,    \* legacy/shadow requests dispatching what they committed
    NoDelivery,     \* no row
    Codeless,       \* workers of a release without the consumer's handler
    MaxAttempts,    \* MAX_ATTEMPTS
    ClaimBatch,     \* CLAIM_BATCH
    SlowSenders,    \* may a lease expire while its holder still works?
    MayDeactivate,  \* may the operator deactivate the consumer?
    FaultyReads,    \* may a read of the handler fail (a lock wait times out)?
    MaxRecipients,  \* bound: people one family claim resolves to
    MaxCrashes,     \* bound: process deaths and failed transactions
    MaxRetries,     \* bound: operator retries of dead rows
    MaxToggles      \* bound: activation changes

Workers == Relays \cup Recoverers \cup Dispatchers

ASSUME DeliveryAssumption ==
    /\ Family \subseteq Deliveries
    /\ NoDelivery \notin Deliveries
    /\ Codeless \subseteq Workers
    /\ (Relays \cup Recoverers) \cap Dispatchers = {}
    /\ Relays \cap Recoverers = {}
    /\ MaxAttempts \in Nat \ {0}
    /\ ClaimBatch \in Nat \ {0}
    /\ SlowSenders \in BOOLEAN
    /\ MayDeactivate \in BOOLEAN
    /\ FaultyReads \in BOOLEAN
    /\ MaxRecipients \in Nat
    /\ MaxCrashes \in Nat /\ MaxRetries \in Nat /\ MaxToggles \in Nat

VARIABLES
    emitted,     \* deliveries whose event is committed
    row,         \* Deliveries -> OutboxDelivery row
    due,         \* rows with nextAttemptAt <= now
    expired,     \* leased rows with leaseExpiresAt < now
    aged,        \* rows with updatedAt older than the lease window
    active,      \* OutboxConsumerCatalog.active
    pc,          \* Workers -> where the worker is
    queue,       \* Workers -> rows it claimed and has not dispatched yet
    job,         \* Workers -> the row dispatchOne works on
    seen,        \* Workers -> the row as dispatchOne read it
    loop,        \* Workers -> recipients the handler has left, and if it told one
    cancel,      \* where the cancelling transaction is
    held,        \* the delivery rows that transaction has written and locked
    live,        \* the decision still demands the announcement
    offered,     \* history: rows handed to the push service, for a recipient
    nobody,      \* history: rows whose claim resolved to no recipient
    late,        \* history: Workers -> pushes offered after the cancellation
    bound        \* crashes, operator retries and activation changes so far

vars == <<emitted, row, due, expired, aged, active, pc, queue, job, seen, loop,
          cancel, held, live, offered, nobody, late, bound>>

rowVars == <<row, due, expired, aged>>
workVars == <<pc, queue, job, seen, loop>>
cancelVars == <<cancel, held, live>>
history == <<offered, nobody, late>>

Absent == [status |-> "absent", attempts |-> 0, action |-> "dispatch", mark |-> FALSE]
Fresh == [status |-> "pending", attempts |-> 0, action |-> "dispatch", mark |-> FALSE]
Tombstone == [status |-> "succeeded", attempts |-> 0, action |-> "noop", mark |-> TRUE]

Statuses == {"absent", "pending", "leased", "succeeded", "dead"}
Row == [status : Statuses, attempts : 0..MaxAttempts,
        action : {"dispatch", "noop"}, mark : BOOLEAN]
Loop == [left : 0..MaxRecipients, told : BOOLEAN]
NoLoop == [left |-> 0, told |-> FALSE]
PCs == {"idle", "fresh", "claiming", "dispatch", "catalog", "neutral", "check",
        "target", "verdict", "provider", "settle", "fail"}
CancelSteps == {"none", "neutralize1", "mark1", "entomb", "neutralize2", "mark2",
                "commit", "done"}

\* The decision's row lock, held from its guarded update to the commit.
DecisionLocked == cancel \notin {"none", "done"}

\* Events older than the consumer's registration have no row yet.
Init ==
    /\ emitted \in SUBSET Deliveries
    /\ row = [d \in Deliveries |-> Absent]
    /\ due = {}
    /\ expired = {}
    /\ aged = {}
    /\ active \in BOOLEAN
    /\ ~MayDeactivate => active
    /\ pc = [w \in Workers |-> "idle"]
    /\ queue = [w \in Workers |-> {}]
    /\ job = [w \in Workers |-> NoDelivery]
    /\ seen = [w \in Workers |-> Absent]
    /\ loop = [w \in Workers |-> NoLoop]
    /\ cancel = "none"
    /\ held = {}
    /\ live = TRUE
    /\ offered = {}
    /\ nobody = {}
    /\ late = [w \in Workers |-> 0]
    /\ bound = [crashes |-> 0, retries |-> 0, toggles |-> 0]
-----------------------------------------------------------------------------
Goto(w, where) == pc' = [pc EXCEPT ![w] = where]

\* A worker that dies or gives up forgets the rows it claimed; they stay leased.
Forget(w) ==
    /\ Goto(w, "idle")
    /\ queue' = [queue EXCEPT ![w] = {}]
    /\ job' = [job EXCEPT ![w] = NoDelivery]
    /\ seen' = [seen EXCEPT ![w] = Absent]
    /\ loop' = [loop EXCEPT ![w] = NoLoop]

\* dispatchOne returns: the worker goes on to the next row it claimed.
EndJob(w) ==
    /\ Goto(w, "dispatch")
    /\ job' = [job EXCEPT ![w] = NoDelivery]
    /\ seen' = [seen EXCEPT ![w] = Absent]
    /\ loop' = [loop EXCEPT ![w] = NoLoop]
    /\ UNCHANGED queue

\* An UPDATE by id: it waits for the canceller's row lock, and it looks at
\* neither the status nor the lease owner of the row it overwrites.
Write(d, r) ==
    /\ d \notin held
    /\ row' = [row EXCEPT ![d] = r]
    /\ expired' = expired \ {d}
    /\ aged' = aged \ {d}

Settled(d, action) ==
    [row[d] EXCEPT !.status = "succeeded", !.action = action]

WorksOn(w, d) == job[w] = d \/ (d \in queue[w] /\ pc[w] # "fresh")
-----------------------------------------------------------------------------
\* A command commits an event with its delivery row: one per active catalog
\* contract.  In legacy and shadow mode the request dispatches it afterwards.
DeliveryRow == IF active THEN Fresh ELSE Absent

Emit(d) ==
    /\ d \notin emitted
    /\ d \in Family => cancel = "none" /\ live
    /\ emitted' = emitted \cup {d}
    /\ row' = [row EXCEPT ![d] = DeliveryRow]
    /\ due' = due \cup {d}
    /\ \/ UNCHANGED workVars
       \/ \E w \in Dispatchers :
            /\ pc[w] = "idle"
            /\ Goto(w, "fresh")
            /\ queue' = [queue EXCEPT ![w] = {d}]
            /\ UNCHANGED <<job, seen, loop>>
    /\ UNCHANGED <<expired, aged, active, cancelVars, history, bound>>

\* Variant: the immediate path dispatches whether or not it won the row.
DispatchUnclaimed(w) ==
    /\ pc[w] = "fresh"
    /\ Goto(w, "dispatch")
    /\ UNCHANGED <<emitted, rowVars, active, queue, job, seen, loop,
                   cancelVars, history, bound>>

\* safeDispatch: lease the row if it is still pending, else leave it to whoever
\* owns it.
ClaimOne(w) ==
    /\ pc[w] = "fresh"
    /\ \E d \in queue[w] :
         IF row[d].status = "pending"
           THEN /\ Write(d, [row[d] EXCEPT !.status = "leased"])
                /\ Goto(w, "dispatch")
                /\ UNCHANGED <<due, queue, job, seen, loop>>
           ELSE Forget(w) /\ UNCHANGED rowVars
    /\ UNCHANGED <<emitted, active, cancelVars, history, bound>>

\* expandMissingDeliveries: an active contract's missing row is born.
Expand(w, d) ==
    /\ w \in Relays \cup Recoverers
    /\ pc[w] = "idle"
    /\ active
    /\ d \in emitted
    /\ row[d].status = "absent"
    /\ Write(d, Fresh)
    /\ due' = due \cup {d}
    /\ UNCHANGED <<emitted, active, workVars, cancelVars, history, bound>>

\* A relay pass reads the active catalog once.
BeginPass(w) ==
    /\ w \in Relays \cup Recoverers
    /\ pc[w] = "idle"
    /\ active
    /\ Goto(w, "claiming")
    /\ UNCHANGED <<emitted, rowVars, active, queue, job, seen, loop,
                   cancelVars, history, bound>>

\* Variant: a leased row is claimed without waiting for its lease to expire.
ClaimableAnyLease(w) ==
    {d \in Deliveries \ held :
        row[d].status \in {"pending", "leased"} /\ d \in due}

\* Variant: a fresh row the dispatcher never reached is nobody's.
ClaimableNoAged(w) ==
    {d \in Deliveries \ held :
        \/ /\ row[d].status = "pending"
           /\ d \in due
           /\ w \in Recoverers => row[d].attempts >= 1
        \/ /\ row[d].status = "leased"
           /\ d \in expired}

\* The rows a claim may lease.  SKIP LOCKED passes over the canceller's rows.
Claimable(w) ==
    {d \in Deliveries \ held :
        \/ /\ row[d].status = "leased"
           /\ d \in expired
        \/ /\ row[d].status = "pending"
           /\ w \in Relays \/ row[d].attempts >= 1
           /\ d \in due
        \/ /\ row[d].status = "pending"
           /\ w \in Recoverers /\ row[d].attempts = 0
           /\ d \in aged}

\* claim and claimExternalRecovery: one statement leases a batch.
Claim(w) ==
    /\ pc[w] = "claiming"
    /\ \E batch \in SUBSET Claimable(w) :
         /\ batch # {} /\ Cardinality(batch) <= ClaimBatch
         /\ row' = [d \in Deliveries |->
              IF d \in batch THEN [row[d] EXCEPT !.status = "leased"] ELSE row[d]]
         /\ expired' = expired \ batch
         /\ aged' = aged \ batch
         /\ queue' = [queue EXCEPT ![w] = batch]
    /\ Goto(w, "dispatch")
    /\ UNCHANGED <<emitted, due, active, job, seen, loop, cancelVars, history, bound>>

\* Nothing to claim, or nothing left of the batch: the pass goes round or ends.
EndPass(w) ==
    /\ \/ pc[w] = "claiming" /\ Claimable(w) = {} /\ Forget(w)
       \/ pc[w] = "dispatch" /\ queue[w] = {} /\ Forget(w)
       \/ /\ pc[w] = "dispatch" /\ queue[w] = {} /\ w \notin Dispatchers
          /\ Goto(w, "claiming")
          /\ UNCHANGED <<queue, job, seen, loop>>
    /\ UNCHANGED <<emitted, rowVars, active, cancelVars, history, bound>>
-----------------------------------------------------------------------------
\* dispatchOne reads the row: a settled one is skipped.
LoadRow(w) ==
    /\ pc[w] = "dispatch"
    /\ \E d \in queue[w] :
         /\ queue' = [queue EXCEPT ![w] = @ \ {d}]
         /\ IF row[d].status \in {"pending", "leased"}
              THEN /\ job' = [job EXCEPT ![w] = d]
                   /\ seen' = [seen EXCEPT ![w] = row[d]]
                   /\ Goto(w, "catalog")
              ELSE UNCHANGED <<job, seen, pc>>
    /\ UNCHANGED <<emitted, rowVars, active, loop, cancelVars, history, bound>>

\* ... then the catalog: a deactivated contract's lease is released.
ReadCatalog(w) ==
    LET d == job[w] IN
    /\ pc[w] = "catalog"
    /\ \/ /\ ~active
          /\ seen[w].status = "leased"
          /\ Write(d, [row[d] EXCEPT !.status = "pending"])
          /\ EndJob(w)
       \/ /\ ~active
          /\ seen[w].status # "leased"
          /\ EndJob(w)
          /\ UNCHANGED <<row, expired, aged>>
       \/ /\ active
          /\ w \in Codeless
          /\ Write(d, [row[d] EXCEPT !.status = "dead", !.attempts = seen[w].attempts])
          /\ EndJob(w)
       \/ /\ active
          /\ w \notin Codeless
          /\ Goto(w, IF seen[w].action = "noop" THEN "neutral" ELSE "check")
          /\ UNCHANGED <<row, expired, aged, queue, job, seen, loop>>
    /\ UNCHANGED <<emitted, due, active, cancelVars, history, bound>>

\* The row's own cancellation mark, re-read before the handler runs.
CheckMark(w) ==
    /\ pc[w] = "check"
    /\ Goto(w, IF row[job[w]].mark THEN "neutral"
               ELSE IF job[w] \in Family THEN "target" ELSE "provider")
    /\ UNCHANGED <<emitted, rowVars, active, queue, job, seen, loop,
                   cancelVars, history, bound>>

\* A no-op, or a cancelled row: succeeded, nothing sent.
Neutralize(w) ==
    /\ pc[w] = "neutral"
    /\ Write(job[w], Settled(job[w], "noop"))
    /\ EndJob(w)
    /\ UNCHANGED <<emitted, due, active, cancelVars, history, bound>>

\* The family's claim predicate, under the decision's row lock.
Demanded == live

\* Variant: a demand found moot is dropped without its mark.
DropUnmarked(w) ==
    /\ Goto(w, "settle")
    /\ UNCHANGED rowVars

\* markCancelled: the drop is recorded on the row, the mark written once.
Drop(w) ==
    /\ Write(job[w], [row[job[w]] EXCEPT !.mark = TRUE, !.action = "noop"])
    /\ Goto(w, "settle")
    /\ UNCHANGED due

\* The handler resolves its recipients, the demand being judged at claim time: a
\* target, a frozen set or the holders of roles, which may be nobody.
JudgeTarget(w) ==
    /\ pc[w] = "target"
    /\ ~DecisionLocked
    /\ \/ ~Demanded /\ Drop(w) /\ UNCHANGED <<loop, nobody>>
       \/ /\ Demanded
          /\ \E n \in 0..MaxRecipients :
               /\ loop' = [loop EXCEPT ![w] = [left |-> n, told |-> FALSE]]
               /\ Goto(w, IF n = 0 THEN "settle" ELSE "verdict")
               /\ nobody' = IF n = 0 THEN nobody \cup {job[w]} ELSE nobody
          /\ UNCHANGED rowVars
    /\ UNCHANGED <<emitted, active, queue, job, seen, cancelVars, offered, late, bound>>

\* Variant: once a recipient is told, the others are not judged again.
JudgedOnce(w) ==
    CASE loop[w].told     -> "fit"
      [] row[job[w]].mark -> "cancelled"
      [] ~Demanded        -> "drop"
      [] OTHER            -> "fit"

\* preSendVerdict's order: the row's mark, then the subject.
Judged(w) ==
    CASE row[job[w]].mark -> "cancelled"
      [] OTHER            -> IF Demanded THEN "fit" ELSE "drop"

\* The next recipient, judged immediately before their push: a cancelled or moot
\* delivery stops, marked unless someone was told; a recipient who has lost the
\* standing is skipped.
Verdict(w) ==
    /\ pc[w] = "verdict" /\ loop[w].left > 0
    /\ ~DecisionLocked
    /\ \/ /\ Judged(w) = "cancelled" \/ (Judged(w) = "drop" /\ loop[w].told)
          /\ Goto(w, "settle")
          /\ UNCHANGED <<rowVars, loop>>
       \/ Judged(w) = "drop" /\ ~loop[w].told /\ Drop(w) /\ UNCHANGED loop
       \/ /\ Judged(w) = "fit"
          /\ loop' = [loop EXCEPT ![w].left = @ - 1]
          /\ \E next \in {"verdict", "provider"} : Goto(w, next)
          /\ UNCHANGED rowVars
    /\ UNCHANGED <<emitted, active, queue, job, seen, cancelVars, history, bound>>

\* After the last recipient: a delivery that told nobody is marked.
EndLoop(w) ==
    /\ pc[w] = "verdict" /\ loop[w].left = 0
    /\ IF loop[w].told THEN Goto(w, "settle") /\ UNCHANGED rowVars ELSE Drop(w)
    /\ UNCHANGED <<emitted, active, queue, job, seen, loop, cancelVars, history, bound>>

\* A read of the handler fails, or waits too long for the decision's lock.
JudgeFails(w) ==
    /\ FaultyReads
    /\ pc[w] \in {"target", "verdict"}
    /\ Goto(w, "fail")
    /\ UNCHANGED <<emitted, rowVars, active, queue, job, seen, loop,
                   cancelVars, history, bound>>

\* PushService: its reads of the subscriptions may fail.  Otherwise it returns, be
\* it without VAPID keys, without a valid link, or refused by the provider.
CallProvider(w) ==
    /\ pc[w] = "provider"
    /\ \/ /\ offered' = offered \cup {job[w]}
          /\ IF job[w] \in Family
               THEN /\ Goto(w, "verdict")
                    /\ loop' = [loop EXCEPT ![w].told = TRUE]
                    /\ late' = [late EXCEPT ![w] = IF cancel = "done" THEN @ + 1 ELSE @]
               ELSE Goto(w, "settle") /\ UNCHANGED <<loop, late>>
       \/ Goto(w, "fail") /\ UNCHANGED <<offered, loop, late>>
    /\ UNCHANGED <<emitted, rowVars, active, queue, job, seen, cancelVars,
                   nobody, bound>>

Settle(w) ==
    /\ pc[w] = "settle"
    /\ Write(job[w], Settled(job[w], row[job[w]].action))
    /\ EndJob(w)
    /\ UNCHANGED <<emitted, due, active, cancelVars, history, bound>>

\* onFailure: back off, or dead-letter when the budget is spent.  The count is
\* the one read when dispatchOne began.
Fail(w) ==
    LET d == job[w]
        n == seen[w].attempts + 1 IN
    /\ pc[w] = "fail"
    /\ Write(d, [row[d] EXCEPT !.attempts = n,
                               !.status = IF n >= MaxAttempts THEN "dead" ELSE "pending"])
    /\ due' = IF n >= MaxAttempts THEN due ELSE due \ {d}
    /\ EndJob(w)
    /\ UNCHANGED <<emitted, active, cancelVars, history, bound>>

\* The process dies, or a database error ends the pass outside the handler.
Crash(w) ==
    /\ pc[w] # "idle"
    /\ bound.crashes < MaxCrashes
    /\ bound' = [bound EXCEPT !.crashes = @ + 1]
    /\ Forget(w)
    /\ UNCHANGED <<emitted, rowVars, active, cancelVars, history>>
-----------------------------------------------------------------------------
\* The operator retries a dead delivery of an active contract.
Retry(d) ==
    /\ row[d].status = "dead"
    /\ active
    /\ bound.retries < MaxRetries
    /\ bound' = [bound EXCEPT !.retries = @ + 1]
    /\ Write(d, [row[d] EXCEPT !.status = "pending", !.attempts = 0])
    /\ due' = due \cup {d}
    /\ UNCHANGED <<emitted, active, workVars, cancelVars, history>>

\* The operator's activation request moves the catalog's mirror.
RequestActivation ==
    /\ MayDeactivate
    /\ bound.toggles < MaxToggles
    /\ bound' = [bound EXCEPT !.toggles = @ + 1]
    /\ active' = ~active
    /\ UNCHANGED <<emitted, rowVars, workVars, cancelVars, history>>

BackoffElapses(d) ==
    /\ row[d].status = "pending" /\ d \notin due
    /\ due' = due \cup {d}
    /\ UNCHANGED <<emitted, row, expired, aged, active, workVars, cancelVars,
                   history, bound>>

LeaseExpires(d) ==
    /\ row[d].status = "leased" /\ d \notin expired
    /\ SlowSenders \/ \A w \in Workers : ~WorksOn(w, d)
    /\ expired' = expired \cup {d}
    /\ UNCHANGED <<emitted, row, due, aged, active, workVars, cancelVars,
                   history, bound>>

Ages(d) ==
    /\ row[d].status = "pending" /\ row[d].attempts = 0 /\ d \notin aged
    /\ aged' = aged \cup {d}
    /\ UNCHANGED <<emitted, row, due, expired, active, workVars, cancelVars,
                   history, bound>>
-----------------------------------------------------------------------------
\* The withdrawing transaction: it moves the decision under its row lock and
\* then cancels the family's queued announcements, statement by statement.
BeginCancel ==
    /\ cancel = "none"
    /\ live
    /\ cancel' = "neutralize1"
    /\ UNCHANGED <<emitted, rowVars, active, workVars, held, live, history, bound>>

Statement(from, to, rows) ==
    /\ cancel = from
    /\ cancel' = to
    /\ held' = held \cup rows
    /\ UNCHANGED <<emitted, rowVars, active, workVars, live, history, bound>>

\* The rows a cancelPass statement finds: unmarked, in the given status.
Unmarked(statuses) ==
    {d \in (Family \cap emitted) \ held :
        ~row[d].mark /\ row[d].status \in statuses}

CancelPass ==
    \/ Statement("neutralize1", "mark1", Unmarked({"pending"}))
    \/ Statement("mark1", "entomb", Unmarked({"leased", "dead"}))
    \/ Statement("neutralize2", "mark2", Unmarked({"pending"}))
    \/ Statement("mark2", "commit", Unmarked({"leased", "dead"}))

\* Variant: the pass is not repeated after the insert.
EntombOnce == Statement("entomb", "commit", Unmarked({"absent"}))

\* The tombstones for rows the recovery scanner has not created.
Entomb == Statement("entomb", "neutralize2", Unmarked({"absent"}))

Cancelled(d) ==
    CASE row[d].status = "absent"  -> Tombstone
      [] row[d].status = "pending" -> [row[d] EXCEPT !.status = "succeeded",
                                          !.action = "noop", !.mark = TRUE]
      [] OTHER                     -> [row[d] EXCEPT !.mark = TRUE]

CommitCancel ==
    /\ cancel = "commit"
    /\ cancel' = "done"
    /\ live' = FALSE
    /\ row' = [d \in Deliveries |-> IF d \in held THEN Cancelled(d) ELSE row[d]]
    /\ held' = {}
    /\ UNCHANGED <<emitted, due, expired, aged, active, workVars, history, bound>>

\* The transaction fails or its process dies: PostgreSQL undoes it.
RollbackCancel ==
    /\ DecisionLocked
    /\ bound.crashes < MaxCrashes
    /\ bound' = [bound EXCEPT !.crashes = @ + 1]
    /\ cancel' = "none"
    /\ held' = {}
    /\ UNCHANGED <<emitted, rowVars, active, workVars, live, history>>
-----------------------------------------------------------------------------
Work(w) ==
    \/ ClaimOne(w) \/ BeginPass(w) \/ Claim(w) \/ EndPass(w) \/ LoadRow(w)
    \/ ReadCatalog(w) \/ CheckMark(w) \/ Neutralize(w) \/ JudgeTarget(w)
    \/ Verdict(w) \/ EndLoop(w) \/ JudgeFails(w) \/ CallProvider(w) \/ Settle(w) \/ Fail(w)

TimePasses(d) == BackoffElapses(d) \/ LeaseExpires(d) \/ Ages(d)

EndCancel == CancelPass \/ Entomb \/ CommitCancel

Next ==
    \/ \E d \in Deliveries : Emit(d) \/ Retry(d) \/ TimePasses(d)
    \/ \E w \in Workers : Work(w) \/ Crash(w)
    \/ \E w \in Workers, d \in Deliveries : Expand(w, d)
    \/ RequestActivation
    \/ BeginCancel \/ EndCancel \/ RollbackCancel

Spec == Init /\ [][Next]_vars

\* The relay's timer ticks for ever and begins each pass with the scanner; a
\* process that died is started again; the strong form for the scanner, which
\* only looks between two passes; time passes; an open transaction ends.
Fairness ==
    /\ \A w \in Workers : WF_vars(Work(w))
    /\ \A w \in Workers, d \in Deliveries : SF_vars(Expand(w, d))
    /\ \A d \in Deliveries : WF_vars(TimePasses(d))
    /\ WF_vars(EndCancel)

FairSpec == Spec /\ Fairness
-----------------------------------------------------------------------------
\* The variables' types: a row never counts more attempts than its budget.
TypeOK ==
    /\ emitted \subseteq Deliveries
    /\ row \in [Deliveries -> Row]
    /\ due \subseteq Deliveries /\ expired \subseteq Deliveries /\ aged \subseteq Deliveries
    /\ active \in BOOLEAN
    /\ pc \in [Workers -> PCs]
    /\ queue \in [Workers -> SUBSET Deliveries]
    /\ job \in [Workers -> Deliveries \cup {NoDelivery}]
    /\ seen \in [Workers -> Row]
    /\ loop \in [Workers -> Loop]
    /\ cancel \in CancelSteps
    /\ held \subseteq Deliveries
    /\ live \in BOOLEAN
    /\ offered \subseteq Deliveries /\ nobody \subseteq Deliveries
    /\ late \in [Workers -> Nat]
    /\ bound \in [crashes : 0..MaxCrashes, retries : 0..MaxRetries, toggles : 0..MaxToggles]

\* A row is closed as succeeded only when its push was offered to the push service
\* for a recipient, its drop is recorded by the cancellation mark, or its claim
\* resolved to nobody: none is closed with recipients whom the handler neither told
\* nor recorded as dropped, however claims, crashes, retries, skipped recipients
\* and the canceller interleave.  It does not say that a device was reached.
SuccessIsAccountedFor ==
    \A d \in Deliveries :
        row[d].status = "succeeded" => d \in offered \/ row[d].mark \/ d \in nobody

\* Rows settle honestly: none counts more attempts than its budget, and none
\* closes unaccounted for, however workers, crashes and the canceller interleave.
RowsSettleHonestly == TypeOK /\ SuccessIsAccountedFor

\* The lease makes one process at a time responsible for a row: no two workers
\* have claimed it and not finished with it.
OneActiveSender ==
    \A v, w \in Workers, d \in Deliveries :
        WorksOn(v, d) /\ WorksOn(w, d) => v = w

\* A settled row stays settled, its mark and attempts with it: no late write of
\* a worker, the canceller or the operator reopens it.
SettledStays ==
    [][\A d \in Deliveries :
        row[d].status = "succeeded" =>
            row'[d].status = "succeeded" /\ (row[d].mark => row'[d].mark)]_vars

\* When the cancelling transaction has committed, every announcement of the
\* family that was not already delivered carries the mark, those the recovery
\* scanner had not created yet included.
CancellationComplete ==
    cancel = "done" =>
        \A d \in Family \cap emitted : row[d].mark \/ row[d].status = "succeeded"

\* A cancellation overtakes each worker at most once: after it committed, a worker
\* offers at most the one push whose recipient it had already judged, however many
\* recipients and rows it has left, rows that escaped the mark included.
OvertakenOnce == \A w \in Workers : late[w] <= 1

\* Every committed event's delivery is settled in the end, succeeded or
\* dead-lettered, unless its consumer is deactivated: no row is stranded in a
\* lease or in nobody's hands, those released while it was inactive included.
EverySettles ==
    \A d \in Deliveries :
        d \in emitted ~> row[d].status \in {"succeeded", "dead"} \/ ~active
=============================================================================

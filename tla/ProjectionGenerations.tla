------------------------ MODULE ProjectionGenerations ------------------------
(***************************************************************************)
(* One projection consumer of the outbox (apps/api/src/platform): the      *)
(* per-project event stream, the relay that applies ordered deliveries     *)
(* into a project's active generation, the rebuilder that builds a fresh   *)
(* generation online and swaps it in behind a barrier on the stream, the   *)
(* operator's clean-up and retry, and the module reads that serve a        *)
(* generation only while it is current.                                    *)
(*                                                                         *)
(* A generation's rows are refreshed from canonical state, so they are the *)
(* set of positions whose changes they show.  A transaction that holds a   *)
(* lock across statements is several steps; any other is one.              *)
(***************************************************************************)
EXTENDS Integers, FiniteSets

CONSTANTS
    Projects,
    Relays,         \* relay loops
    Rebuilders,     \* operator rebuild runs
    Readers,        \* module reads in flight
    Free,           \* nobody holds the lock
    Preloaded,      \* projects with canonical rows older than their stream
    MaxEvents,      \* bound: events per project
    MaxGenerations, \* bound: generations per project
    MaxAttempts,    \* MAX_ATTEMPTS
    ClaimBatch,     \* CLAIM_BATCH
    MaxFaults,      \* bound: handler failures
    MaxCrashes,     \* bound: process deaths
    MaxRetries      \* bound: operator retries

ASSUME GenerationsAssumption ==
    /\ Preloaded \subseteq Projects
    /\ Free \notin Relays \cup Rebuilders
    /\ Relays \cap Rebuilders = {}
    /\ MaxEvents \in Nat /\ MaxGenerations \in Nat
    /\ MaxAttempts \in Nat \ {0} /\ ClaimBatch \in Nat \ {0}
    /\ MaxFaults \in Nat /\ MaxCrashes \in Nat /\ MaxRetries \in Nat

VARIABLES
    head,       \* Projects -> ProjectEventStream.nextPosition
    ours,       \* Projects -> positions this projection subscribes to; -1: older rows
    gens,       \* Projects -> generation -> its ProjectionGeneration row and rows
    holder,     \* Projects -> who holds the active generation's row lock
    stream,     \* Projects -> the rebuilder holding the stream's row lock
    delivery,   \* Projects -> position -> OutboxDelivery row
    due,        \* deliveries with nextAttemptAt <= now
    expired,    \* leased deliveries with leaseExpiresAt < now
    relay,      \* Relays -> what the relay is doing
    rebuild,    \* Rebuilders -> what the rebuild is doing
    reader,     \* Readers -> what the read is doing
    bound       \* handler failures, process deaths and operator retries so far

vars == <<head, ours, gens, holder, stream, delivery, due, expired, relay,
          rebuild, reader, bound>>

rowVars == <<delivery, due, expired>>
canonVars == <<head, ours>>

Positions == 0..MaxEvents - 1
Generations == 1..MaxGenerations
Delivered == Projects \X Positions
NoJob == <<>>

NoGeneration == [status |-> "none", next |-> 0, cursor |-> "live", rows |-> {}]
NoRow == [status |-> "absent", attempts |-> 0]
IdleRelay == [at |-> "idle", batch |-> {}, job |-> NoJob, tries |-> 0,
              gen |-> 0, snap |-> {}]
IdleRebuild == [at |-> "idle", project |-> Free, gen |-> 0, upto |-> 0, prev |-> 0]
IdleRead == [at |-> "idle", project |-> Free, gen |-> 0, next |-> 0, canon |-> {},
             rows |-> {}]

Active(p) == {g \in Generations : gens[p][g].status = "active"}
ActiveOf(p) == IF Active(p) = {} THEN 0 ELSE CHOOSE g \in Active(p) : TRUE
Unused(p) == {g \in Generations : gens[p][g].status = "none"}
NextUnused(p) == CHOOSE g \in Unused(p) : \A f \in Unused(p) : g <= f

Init ==
    /\ head = [p \in Projects |-> 0]
    /\ ours = [p \in Projects |-> IF p \in Preloaded THEN {-1} ELSE {}]
    /\ gens = [p \in Projects |-> [g \in Generations |-> NoGeneration]]
    /\ holder = [p \in Projects |-> Free]
    /\ stream = [p \in Projects |-> Free]
    /\ delivery = [p \in Projects |-> [i \in Positions |-> NoRow]]
    /\ due = {}
    /\ expired = {}
    /\ relay = [w \in Relays |-> IdleRelay]
    /\ rebuild = [r \in Rebuilders |-> IdleRebuild]
    /\ reader = [x \in Readers |-> IdleRead]
    /\ bound = [faults |-> 0, crashes |-> 0, retries |-> 0]
-----------------------------------------------------------------------------
\* emitEvent, in the command's transaction: the next position of the project,
\* taken under the stream's row lock, with its delivery row.
Emit(p) ==
    /\ head[p] < MaxEvents
    /\ stream[p] = Free
    /\ head' = [head EXCEPT ![p] = @ + 1]
    /\ \/ ours' = [ours EXCEPT ![p] = @ \cup {head[p]}]
       \/ UNCHANGED ours
    /\ delivery' = [delivery EXCEPT ![p][head[p]].status = "pending"]
    /\ due' = due \cup {<<p, head[p]>>}
    /\ UNCHANGED <<gens, holder, stream, expired, relay, rebuild, reader, bound>>
-----------------------------------------------------------------------------
Row(d) == delivery[d[1]][d[2]]

SetRow(d, r) ==
    /\ delivery' = [delivery EXCEPT ![d[1]][d[2]] = r]
    /\ expired' = expired \ {d}

Step(w, where) == relay' = [relay EXCEPT ![w].at = where]

\* dispatchOne returns: on to the next row of the batch.
NextJob(w) ==
    relay' = [relay EXCEPT ![w] = [IdleRelay EXCEPT !.at = "dispatch", !.batch = relay[w].batch]]

Unlock(p) == holder' = [holder EXCEPT ![p] = Free]

\* The rows a claim may lease.
Claimable ==
    {d \in due : \/ Row(d).status = "pending"
                 \/ Row(d).status = "leased" /\ d \in expired}

\* One statement leases the batch lowest in stream position, whatever the project.
Claim(w) ==
    /\ relay[w].at = "idle"
    /\ \E batch \in SUBSET Claimable :
         /\ batch # {} /\ Cardinality(batch) <= ClaimBatch
         /\ \A d \in batch, e \in Claimable \ batch :
              d[2] <= e[2] /\ Cardinality(batch) = ClaimBatch
         /\ delivery' = [p \in Projects |-> [i \in Positions |->
              IF <<p, i>> \in batch THEN [delivery[p][i] EXCEPT !.status = "leased"]
              ELSE delivery[p][i]]]
         /\ expired' = expired \ batch
         /\ relay' = [relay EXCEPT ![w].at = "dispatch", ![w].batch = batch]
    /\ UNCHANGED <<canonVars, gens, holder, stream, due, rebuild, reader, bound>>

EndPass(w) ==
    /\ relay[w].at = "dispatch"
    /\ relay[w].batch = {}
    /\ Step(w, "idle")
    /\ UNCHANGED <<canonVars, gens, holder, stream, rowVars, rebuild, reader, bound>>

\* dispatchOne reads the row; a settled one is skipped.
LoadRow(w) ==
    /\ relay[w].at = "dispatch"
    /\ \E d \in relay[w].batch :
         relay' = [relay EXCEPT ![w] =
            IF Row(d).status \in {"succeeded", "dead"}
              THEN [@ EXCEPT !.batch = relay[w].batch \ {d}]
              ELSE [@ EXCEPT !.batch = relay[w].batch \ {d}, !.job = d,
                             !.tries = Row(d).attempts, !.at = "ask"]]
    /\ UNCHANGED <<canonVars, gens, holder, stream, rowVars, rebuild, reader, bound>>

\* lockActiveGeneration's SELECT ... FOR UPDATE takes its snapshot,
AskLock(w) ==
    /\ relay[w].at = "ask"
    /\ relay' = [relay EXCEPT ![w].at = "await", ![w].gen = ActiveOf(relay[w].job[1])]
    /\ UNCHANGED <<canonVars, gens, holder, stream, rowVars, rebuild, reader, bound>>

\* ... and when the lock is free looks at the row again.  A row no longer active
\* is not in the answer: the bootstrap's insert then meets the unique index of the
\* new active row, which aborts the transaction, and the re-read in it fails.
TakeLock(w) ==
    LET p == relay[w].job[1]
        g == relay[w].gen IN
    /\ relay[w].at = "await"
    /\ holder[p] = Free
    /\ \/ /\ g # 0 /\ g \in Active(p)
          /\ holder' = [holder EXCEPT ![p] = w]
          /\ Step(w, "judge")
       \/ /\ Active(p) = {}
          /\ Unused(p) # {}
          /\ holder' = [holder EXCEPT ![p] = w]
          /\ relay' = [relay EXCEPT ![w].at = "judge", ![w].gen = 0]
       \/ /\ Active(p) # {} /\ g \notin Active(p)
          /\ Step(w, "fail")
          /\ UNCHANGED holder
    /\ UNCHANGED <<canonVars, gens, stream, rowVars, rebuild, reader, bound>>

\* The generation locked, or the one this transaction bootstraps.
Locked(w) == IF relay[w].gen = 0 THEN NoGeneration ELSE gens[relay[w].job[1]][relay[w].gen]

\* The transaction commits generation row g, the bootstrapped one included.
CommitGeneration(w, row, outcome) ==
    LET p == relay[w].job[1]
        g == IF relay[w].gen = 0 THEN NextUnused(p) ELSE relay[w].gen IN
    /\ gens' = [gens EXCEPT ![p][g] = [row EXCEPT !.status = "active"]]
    /\ Unlock(p)
    /\ Step(w, outcome)

\* The position the generation waits for is dead-lettered.
Stuck(p, next) == next < MaxEvents /\ delivery[p][next].status = "dead"

\* The position is behind or ahead of the checkpoint: nothing is applied.
Skip(w) ==
    LET p == relay[w].job[1]
        i == relay[w].job[2]
        row == Locked(w) IN
    /\ relay[w].at = "judge"
    /\ \/ /\ i < row.next
          /\ CommitGeneration(w, row, "settle")
       \/ /\ i > row.next
          /\ ~Stuck(p, row.next)
          /\ CommitGeneration(w, row, "release")
       \/ /\ i > row.next
          /\ Stuck(p, row.next)
          /\ CommitGeneration(w, [row EXCEPT !.cursor = "blocked"], "release")
    /\ UNCHANGED <<canonVars, stream, rowVars, rebuild, reader, bound>>

\* The position is the next one exactly: the handler reads canonical state, in
\* statements after the lock.
Refresh(w) ==
    LET i == relay[w].job[2] IN
    /\ relay[w].at = "judge"
    /\ i = Locked(w).next
    /\ relay' = [relay EXCEPT ![w].at = "apply", ![w].snap =
         IF i \in ours[relay[w].job[1]] THEN ours[relay[w].job[1]] ELSE Locked(w).rows]
    /\ UNCHANGED <<canonVars, gens, holder, stream, rowVars, rebuild, reader, bound>>

\* ... writes the rows and the checkpoint, and commits.
Apply(w) ==
    /\ relay[w].at = "apply"
    /\ CommitGeneration(w, [Locked(w) EXCEPT !.next = relay[w].job[2] + 1,
                               !.cursor = "live", !.rows = relay[w].snap], "settle")
    /\ UNCHANGED <<canonVars, stream, rowVars, rebuild, reader, bound>>

\* The handler throws: the transaction rolls back.
HandlerFails(w) ==
    /\ relay[w].at = "apply"
    /\ relay[w].job[2] \in ours[relay[w].job[1]]
    /\ bound.faults < MaxFaults
    /\ bound' = [bound EXCEPT !.faults = @ + 1]
    /\ Unlock(relay[w].job[1])
    /\ Step(w, "fail")
    /\ UNCHANGED <<canonVars, gens, stream, rowVars, rebuild, reader>>

\* Variant: a row that has to wait is settled.
SettleWaiting(w) ==
    /\ relay[w].at \in {"settle", "release"}
    /\ SetRow(relay[w].job, [Row(relay[w].job) EXCEPT !.status = "succeeded"])
    /\ NextJob(w)
    /\ UNCHANGED <<canonVars, gens, holder, stream, due, rebuild, reader, bound>>

\* After the transaction: the row is settled, or released to wait its turn.
Settle(w) ==
    LET d == relay[w].job IN
    /\ \/ relay[w].at = "settle" /\ SetRow(d, [Row(d) EXCEPT !.status = "succeeded"])
       \/ relay[w].at = "release" /\ SetRow(d, [Row(d) EXCEPT !.status = "pending"])
    /\ NextJob(w)
    /\ UNCHANGED <<canonVars, gens, holder, stream, due, rebuild, reader, bound>>

\* onFailure: back off, or dead-letter when the budget is spent.
Fail(w) ==
    LET d == relay[w].job
        n == relay[w].tries + 1 IN
    /\ relay[w].at = "fail"
    /\ SetRow(d, [status |-> IF n >= MaxAttempts THEN "dead" ELSE "pending", attempts |-> n])
    /\ due' = due \ {d}
    /\ NextJob(w)
    /\ UNCHANGED <<canonVars, gens, holder, stream, rebuild, reader, bound>>

\* The process dies; its transaction rolls back.
CrashRelay(w) ==
    /\ relay[w].at # "idle"
    /\ bound.crashes < MaxCrashes
    /\ bound' = [bound EXCEPT !.crashes = @ + 1]
    /\ relay' = [relay EXCEPT ![w] = IdleRelay]
    /\ holder' = [p \in Projects |-> IF holder[p] = w THEN Free ELSE holder[p]]
    /\ UNCHANGED <<canonVars, gens, stream, rowVars, rebuild, reader>>

BackoffElapses(d) ==
    /\ Row(d).status = "pending" /\ d \notin due
    /\ due' = due \cup {d}
    /\ UNCHANGED <<canonVars, gens, holder, stream, delivery, expired, relay,
                   rebuild, reader, bound>>

\* A lease may run out while its holder still works: the row lock, not the
\* lease, is what protects the generation.
LeaseExpires(d) ==
    /\ Row(d).status = "leased" /\ d \notin expired
    /\ expired' = expired \cup {d}
    /\ UNCHANGED <<canonVars, gens, holder, stream, delivery, due, relay,
                   rebuild, reader, bound>>
-----------------------------------------------------------------------------
RStep(r, where) == rebuild' = [rebuild EXCEPT ![r].at = where]

\* rebuild: a fresh building generation.  (The bound leaves a project without an
\* active generation one to bootstrap.)
Allocate(r, p) ==
    /\ rebuild[r].at = "idle"
    /\ Unused(p) # {}
    /\ Active(p) # {} \/ Cardinality(Unused(p)) > 1
    /\ gens' = [gens EXCEPT ![p][NextUnused(p)].status = "building"]
    /\ rebuild' = [rebuild EXCEPT ![r] = [IdleRebuild EXCEPT !.at = "seed",
                                            !.project = p, !.gen = NextUnused(p)]]
    /\ UNCHANGED <<canonVars, holder, stream, rowVars, relay, reader, bound>>

\* Variant: the seed reads the rows first and the position after them.
SeedRowsFirst(r) ==
    LET p == rebuild[r].project IN
    /\ \/ /\ rebuild[r].at = "seed"
          /\ gens' = [gens EXCEPT ![p][rebuild[r].gen].rows = ours[p]]
          /\ RStep(r, "rows")
       \/ /\ rebuild[r].at = "rows"
          /\ rebuild' = [rebuild EXCEPT ![r].at = "mark", ![r].upto = head[p]]
          /\ UNCHANGED gens
       \/ /\ rebuild[r].at = "mark"
          /\ gens' = [gens EXCEPT ![p][rebuild[r].gen].next = rebuild[r].upto]
          /\ RStep(r, "replay")
    /\ UNCHANGED <<canonVars, holder, stream, rowVars, relay, reader, bound>>

\* rebuildSeed: the last committed position, then the canonical rows; the
\* checkpoint is set in a transaction of its own.
Seed(r) ==
    LET p == rebuild[r].project IN
    /\ \/ /\ rebuild[r].at = "seed"
          /\ rebuild' = [rebuild EXCEPT ![r].at = "rows", ![r].upto = head[p]]
          /\ UNCHANGED gens
       \/ /\ rebuild[r].at = "rows"
          /\ gens' = [gens EXCEPT ![p][rebuild[r].gen].rows = ours[p]]
          /\ RStep(r, "mark")
       \/ /\ rebuild[r].at = "mark"
          /\ gens' = [gens EXCEPT ![p][rebuild[r].gen].next = rebuild[r].upto]
          /\ RStep(r, "replay")
    /\ UNCHANGED <<canonVars, holder, stream, rowVars, relay, reader, bound>>

\* applyEvent: the building generation's next event, refreshed from canonical.
ApplyNext(r) ==
    LET p == rebuild[r].project
        g == rebuild[r].gen
        i == gens[p][g].next IN
    /\ i < head[p]
    /\ gens' = [gens EXCEPT ![p][g].next = i + 1,
                            ![p][g].rows = IF i \in ours[p] THEN ours[p] ELSE @]

\* catchUp, one short transaction per event, and the barrier's residual tail.
Replay(r) ==
    /\ rebuild[r].at \in {"replay", "tail"}
    /\ ApplyNext(r)
    /\ UNCHANGED <<canonVars, holder, stream, rowVars, relay, rebuild, reader, bound>>

\* The catch-up finds no further event.
EndCatchUp(r) ==
    /\ rebuild[r].at = "replay"
    /\ gens[rebuild[r].project][rebuild[r].gen].next = head[rebuild[r].project]
    /\ RStep(r, "barrier")
    /\ UNCHANGED <<canonVars, gens, holder, stream, rowVars, relay, reader, bound>>

\* The barrier takes the stream's row lock: no event of the project commits until
\* it ends.
Barrier(r) ==
    /\ rebuild[r].at = "barrier"
    /\ stream[rebuild[r].project] = Free
    /\ stream' = [stream EXCEPT ![rebuild[r].project] = r]
    /\ RStep(r, "tail")
    /\ UNCHANGED <<canonVars, gens, holder, rowVars, relay, reader, bound>>

\* Variant: events committed between catch-up and barrier are not replayed.
SkipTail(r) ==
    /\ rebuild[r].at = "tail"
    /\ rebuild' = [rebuild EXCEPT ![r].at = "swap", ![r].prev = ActiveOf(rebuild[r].project)]
    /\ UNCHANGED <<canonVars, gens, holder, stream, rowVars, relay, reader, bound>>

\* The tail is replayed: the barrier looks up the generation it will retire.
FindPrevious(r) ==
    LET p == rebuild[r].project IN
    /\ rebuild[r].at = "tail"
    /\ gens[p][rebuild[r].gen].next = head[p]
    /\ rebuild' = [rebuild EXCEPT ![r].at = "swap", ![r].prev = ActiveOf(p)]
    /\ UNCHANGED <<canonVars, gens, holder, stream, rowVars, relay, reader, bound>>

EndRebuild(r) ==
    /\ rebuild' = [rebuild EXCEPT ![r] = IdleRebuild]
    /\ stream' = [p \in Projects |-> IF stream[p] = r THEN Free ELSE stream[p]]

\* The swap waits for the row lock, retires the old generation and activates the
\* new one.  A generation a relay has bootstrapped meanwhile refuses it.
Swap(r) ==
    LET p == rebuild[r].project
        g == rebuild[r].gen IN
    /\ rebuild[r].at = "swap"
    /\ holder[p] = Free
    /\ IF Active(p) \subseteq {rebuild[r].prev}
         THEN gens' = [gens EXCEPT ![p] = [f \in Generations |->
                CASE f = g -> [@[f] EXCEPT !.status = "active", !.cursor = "live"]
                  [] f \in Active(p) -> [@[f] EXCEPT !.status = "retired"]
                  [] OTHER -> @[f]]]
         ELSE UNCHANGED gens
    /\ EndRebuild(r)
    /\ UNCHANGED <<canonVars, holder, rowVars, relay, reader, bound>>

\* The rebuild's process dies or a handler throws: the building generation stays.
CrashRebuild(r) ==
    /\ rebuild[r].at # "idle"
    /\ bound.crashes < MaxCrashes
    /\ bound' = [bound EXCEPT !.crashes = @ + 1]
    /\ EndRebuild(r)
    /\ UNCHANGED <<canonVars, gens, holder, rowVars, relay, reader>>

\* dropRetiredGenerations: the rows and the record of a retired generation.
DropRetired(p) ==
    /\ \E g \in Generations :
         /\ gens[p][g].status = "retired"
         /\ gens' = [gens EXCEPT ![p][g] = [NoGeneration EXCEPT !.status = "dropped"]]
    /\ UNCHANGED <<canonVars, holder, stream, rowVars, relay, rebuild, reader, bound>>

\* outbox:retry consults the ProjectionCursor of an ordered consumer, which a
\* projection never writes: the next expected position it computes is 0.
RetryAdmits(d) == d[2] = 0

Retry(d) ==
    /\ Row(d).status = "dead"
    /\ RetryAdmits(d)
    /\ bound.retries < MaxRetries
    /\ bound' = [bound EXCEPT !.retries = @ + 1]
    /\ SetRow(d, [status |-> "pending", attempts |-> 0])
    /\ due' = due \cup {d}
    /\ UNCHANGED <<canonVars, gens, holder, stream, relay, rebuild, reader>>
-----------------------------------------------------------------------------
\* readServableGeneration: the active generation, unblocked, something applied.
ReadGeneration(x, p) ==
    LET g == ActiveOf(p) IN
    /\ reader[x].at = "idle"
    /\ g # 0
    /\ gens[p][g].cursor = "live"
    /\ gens[p][g].next # 0
    /\ reader' = [reader EXCEPT ![x] = [IdleRead EXCEPT !.at = "head", !.project = p,
                                          !.gen = g, !.next = gens[p][g].next]]
    /\ UNCHANGED <<canonVars, gens, holder, stream, rowVars, relay, rebuild, bound>>

\* Variant: a generation that lags the stream is served.
Unchecked(x) == TRUE

\* The checkpoint has reached the stream's head, read after it.
CaughtUp(x) == reader[x].next >= head[reader[x].project]

ReadHead(x) ==
    /\ reader[x].at = "head"
    /\ reader' = [reader EXCEPT ![x] =
         IF CaughtUp(x) THEN [@ EXCEPT !.at = "rows", !.canon = ours[reader[x].project]]
         ELSE IdleRead]
    /\ UNCHANGED <<canonVars, gens, holder, stream, rowVars, relay, rebuild, bound>>

\* The row fetch; a generation without rows answers nothing, and the caller falls
\* back to the canonical read.
ReadRows(x) ==
    LET rows == gens[reader[x].project][reader[x].gen].rows IN
    /\ reader[x].at = "rows"
    /\ reader' = [reader EXCEPT ![x] = IF rows = {} THEN IdleRead
                                       ELSE [@ EXCEPT !.at = "served", !.rows = rows]]
    /\ UNCHANGED <<canonVars, gens, holder, stream, rowVars, relay, rebuild, bound>>

EndRead(x) ==
    /\ reader[x].at = "served"
    /\ reader' = [reader EXCEPT ![x] = IdleRead]
    /\ UNCHANGED <<canonVars, gens, holder, stream, rowVars, relay, rebuild, bound>>
-----------------------------------------------------------------------------
Deliver(w) ==
    \/ Claim(w) \/ EndPass(w) \/ LoadRow(w) \/ AskLock(w) \/ TakeLock(w) \/ Skip(w)
    \/ Refresh(w) \/ Apply(w) \/ Settle(w) \/ Fail(w)

Build(r) ==
    \/ Seed(r) \/ Replay(r) \/ EndCatchUp(r) \/ Barrier(r) \/ FindPrevious(r) \/ Swap(r)

Read(x) ==
    \/ ReadHead(x) \/ ReadRows(x) \/ EndRead(x)
    \/ \E p \in Projects : ReadGeneration(x, p)

Next ==
    \/ \E p \in Projects : Emit(p) \/ DropRetired(p)
    \/ \E w \in Relays : Deliver(w) \/ HandlerFails(w) \/ CrashRelay(w)
    \/ \E d \in Delivered : BackoffElapses(d) \/ LeaseExpires(d) \/ Retry(d)
    \/ \E r \in Rebuilders : Build(r) \/ CrashRebuild(r)
    \/ \E r \in Rebuilders, p \in Projects : Allocate(r, p)
    \/ \E x \in Readers : Read(x)

Spec == Init /\ [][Next]_vars

\* The relay's timer ticks for ever, a begun rebuild goes on, time passes.
Fairness ==
    /\ \A w \in Relays : SF_vars(Deliver(w))
    /\ \A r \in Rebuilders : SF_vars(Build(r))
    /\ \A d \in Delivered : WF_vars(BackoffElapses(d)) /\ WF_vars(LeaseExpires(d))

FairSpec == Spec /\ Fairness
-----------------------------------------------------------------------------
GenerationRow == [status : {"none", "building", "active", "retired", "dropped"},
                  next : 0..MaxEvents, cursor : {"live", "blocked"},
                  rows : SUBSET (Positions \cup {-1})]
DeliveryRow == [status : {"absent", "pending", "leased", "succeeded", "dead"},
                attempts : Nat]
RelayState == [at : {"idle", "dispatch", "ask", "await", "judge", "apply", "settle",
                     "release", "fail"},
               batch : SUBSET Delivered, job : {NoJob} \cup Delivered,
               tries : Nat, gen : 0..MaxGenerations,
               snap : SUBSET (Positions \cup {-1})]
RebuildState == [at : {"idle", "seed", "rows", "mark", "replay", "barrier", "tail",
                       "swap"},
                 project : Projects \cup {Free}, gen : 0..MaxGenerations,
                 upto : 0..MaxEvents, prev : 0..MaxGenerations]
ReadState == [at : {"idle", "head", "rows", "served"}, project : Projects \cup {Free},
              gen : 0..MaxGenerations, next : 0..MaxEvents,
              canon : SUBSET (Positions \cup {-1}), rows : SUBSET (Positions \cup {-1})]

\* The variables' types.
TypeOK ==
    /\ head \in [Projects -> 0..MaxEvents]
    /\ ours \in [Projects -> SUBSET (Positions \cup {-1})]
    /\ gens \in [Projects -> [Generations -> GenerationRow]]
    /\ holder \in [Projects -> Relays \cup {Free}]
    /\ stream \in [Projects -> Rebuilders \cup {Free}]
    /\ delivery \in [Projects -> [Positions -> DeliveryRow]]
    /\ due \subseteq Delivered /\ expired \subseteq Delivered
    /\ relay \in [Relays -> RelayState]
    /\ rebuild \in [Rebuilders -> RebuildState]
    /\ reader \in [Readers -> ReadState]
    /\ bound \in [faults : 0..MaxFaults, crashes : 0..MaxCrashes, retries : 0..MaxRetries]

\* A generation shows every change of its project up to its checkpoint, whoever
\* applied it: seed, replay, the barrier's tail or a relay.  No event is lost at
\* the hand-over.
GenerationComplete ==
    \A p \in Projects, g \in Generations :
        {i \in ours[p] : 0 <= i /\ i < gens[p][g].next} \subseteq gens[p][g].rows

\* What a module read serves from a generation shows everything that was canonical
\* when it asked, although the relay, a swap and the clean-up run between its
\* statements: no stale, hollow or dropped generation is served.
ServedIsCurrent ==
    \A x \in Readers : reader[x].at = "served" => reader[x].canon \subseteq reader[x].rows

\* A delivery marked succeeded, and so never offered again, is reflected in the
\* project's active generation - also after a swap.
SucceededIsReflected ==
    \A d \in Delivered :
        Row(d).status = "succeeded" =>
            \E g \in Active(d[1]) : d[2] < gens[d[1]][g].next

\* No event is lost between generations: each shows all it has passed, and what
\* the relay has settled is in the one that serves.
NoEventIsLost == TypeOK /\ GenerationComplete /\ SucceededIsReflected

\* A project's serving checkpoint never moves back: neither an apply nor a swap
\* hands readers an older generation.
ServingAdvances ==
    [][\A p \in Projects : \A g \in Active(p) :
        \E f \in Active(p)' : gens'[p][f].next >= gens[p][g].next]_vars

\* Only the handler's own failures are counted against a delivery's budget.
AttemptsAreFaults ==
    \A d \in Delivered : Row(d).attempts <= bound.faults

\* The dead delivery a blocked generation waits for is one the operator's retry
\* accepts.
BlockedIsRetryable ==
    \A p \in Projects : \A g \in Active(p) :
        gens[p][g].cursor = "blocked" =>
            \A d \in Delivered :
                d = <<p, gens[p][g].next>> /\ Row(d).status = "dead" => RetryAdmits(d)

\* Every committed event reaches its project's active generation unless an earlier
\* delivery of that project is dead.
EveryEventIsApplied ==
    \A d \in Delivered :
        d[2] < head[d[1]] ~>
            \/ \E g \in Active(d[1]) : d[2] < gens[d[1]][g].next
            \/ \E i \in 0..d[2] : delivery[d[1]][i].status = "dead"
=============================================================================

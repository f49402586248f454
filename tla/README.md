# A TLA+ model of Vitan PMC

Vitan PMC is a project-management console: a React client that works offline (`src/apps/web`), a
NestJS and Prisma server over PostgreSQL (`src/apps/api`), and the contracts and rules both share
(`src/packages/shared`). Every consequential change goes the same way: an idempotent command runs
in one database transaction, the transaction appends a domain event to its project's stream and
one delivery row per consumer, and afterwards relays and dispatchers carry those rows out, to
subscribers by Web Push and into read models called projections. This directory models that way,
model-checks it with TLC on small instances and proves parts of it with TLAPS.

## 1. Inventory

`PROJECT.json` lists every component with its files; this is what each keeps, does and must get right.

| Component | State | Operations | Hard parts | What makes it correct | Module |
|---|---|---|---|---|---|
| Command kernel (`platform/commands.ts`) | `CommandExecution` receipts | peek, fast path, reserve, run, commit, replay | duplicates that overlap, lost answers, crashes | one execution a key; receipt and mutation together; true answers | `CommandLedger` |
| Event stream (`platform/events.ts`) | `ProjectEventStream`, `DomainEvent` | `emitEvent` | concurrent commits of one project | positions without gaps, in commit order | `ProjectionGenerations` |
| Outbox, external (`platform/outbox`) | `OutboxDelivery`, catalogue | expand, claim, dispatch, settle, retry, cancel | leases, slow senders, mixed modes, a cancellation between its own statements | nothing lost or stranded, a cancellation stops all but the push under way, one sender | `ExternalDelivery` |
| Outbox, ordered, and projections (`platform/projections`) | `ProjectionGeneration`, its rows | apply, block, rebuild, swap, drop, serve | hand-over between builder and relay, reads of several statements | no event missing, reads are current, progress | `ProjectionGenerations` |
| Release lease, generation fence (`platform/server-generation.ts`, `release-lease.service.ts`) | the minimum generation, lease rows, a process's deadline | admit, boot, register, renew, fence, raise, attest | two clocks, late and lost answers, an old release among new ones | a drained release does not serve | `Fleet` |
| Procurement | requisitions, order versions, promises | submit, approve, order, amend, cancel, close short, promise | amendments against receipts, requisitions reopened | ordered within the line, received within the order | `PurchaseOrders` |
| Inventory | the stock ledger, and nothing else | receive, inspect, reserve, issue, return, transfer, adjust, reverse | one quantity seen through several folds | no bucket, reservation or custody below zero | `StockLedger` |
| Commercial | bills, certificates, deductions, grants, approvals, payments | record, verify, certify, approve, pay, reverse, recertify | bounds over folds, evidence corrected after it was certified | paid within approved within certified; no claim without evidence | `VendorBills` |
| Activities, inspections, daily log | status, blocks, checklists, claims of completion | start, complete, submit, decide, sign off, report, resolve | gates owned by others, releases that must restore what was | a release forgets nothing; one open review a claim | `SiteWork` |
| Decisions and the project's team | decisions, revisions, change requests, memberships | publish, approve, countersign, disagree, forward, reopen; add, re-role, remove, retire | approval of what was read earlier; holders who leave | one final approval; every open decision is held | `Decisions` |
| Labour | requisitions, orders, committed capacity, allocations, attendance, work | order, commit, allocate, release, attend, record, substitute | crews that overlap, capacity drawn concurrently, demand revised under people | nobody twice in a shift, nothing oversold | `LabourSupply`, `LabourCapacity` |
| Web: project-create hold | one durable record, a reservation a tab | reserve, send, settle, release, retry | tabs, reloads, late replies, a server that may not keep receipts | one project an attempt, no attempt lost, none revived (a second key: section 5) | `CreateHold` |
| Web: offline queue, project scope | `localStorage`, in-memory store | enqueue, flush, settle, switch project | tabs, two identical acts, replies of an earlier project | no act lost or sent twice | not modelled |
| Drawings and hub, requirements, nodes, site visits, media, identity, cutover seal, operator tools | rows of their own | create, change, remove, receive | webhooks out of order, files against rows | references stay valid | not modelled |

They interact through the database: a service calls the kernel, the kernel's transaction holds the
service's rows, the event and the delivery rows, and the relays see all of that or none. Domain
modules call each other only through transaction-bound participants. The client speaks HTTP with
an idempotency key it keeps with the queued act.

`hazards` in `PROJECT.json` names, at their lines, the places where this is hard to test.

## 2. Modules

| Module | What it is |
|---|---|
| `IdempotentCommands` | the abstract promise of the kernel: a slot's act is performed once, a caller is told only of an act performed |
| `CommandLedger` | the kernel as written, which implements it |
| `ExternalDelivery` | one push consumer's delivery rows: emission, relays, recovery, dispatchers, retry, activation, cancellation |
| `ProjectionGenerations` | one projection: stream, relay, online rebuild, clean-up, operator's retry, served reads |
| `Fleet` | the serving processes of a rolling deployment: admission, lease, fence, drain |
| `PurchaseOrders` | requisitions, order versions and delivery promises of one material requirement |
| `StockLedger` | the store, composed with `PurchaseOrders` |
| `VendorBills` | the commercial chain of one vendor, from evidence to payment |
| `SiteWork` | activities with their checklists, material mismatches and crew disputes |
| `Decisions` | decisions and the team that holds them |
| `LabourSupply`, `LabourCapacity` | labour bought, and the workers held on it (the second composes the first) |
| `CreateHold` | the browser's one held attempt to create a project, against the keyed kernel |
| `...Proofs` | theorems about the module they are named for; `ProjectionProofs` is about `ProjectionGenerations`, `LabourProofs` about both labour modules, `StockProofs` about `StockLedger` with its `PurchaseOrders`, `VendorProofs` about `VendorBills`, `ProjectProofs` about `Decisions` and `SiteWork`, and `PlatformProofs` about `CommandLedger`, `Fleet` and `CreateHold` |
| `SumTheorems` | what a sum over a finite set does as elements come, go and change; used by `LabourProofs`, `StockProofs` and `VendorProofs` |
| `MC...` | small instances for TLC |

A definition marked *Variant* is a plausible mistake in the code. No specification uses one; it is
what a property is tried against.

**Common conventions.** PostgreSQL runs READ COMMITTED. A transaction that takes no lock across
statements is one step. A statement outside a transaction is one step. A transaction that holds a
row lock while others can move is several steps, and its uncommitted writes are invisible until its
last. A crash is the loss of a process' local state and of its open transaction. A unique index is
a wait for the transaction that holds the row, then an error.

In the domain modules a command runs in one transaction under its project's readiness lock
(`lockProjectReadiness`), which every command of the project takes first; it is one action, with
the checks it repeats under the lock as the guard. What a service reads before it takes the lock is
a step of its own, with the read kept in `calls`, wherever the commit does not compare it again. A
ledger that the code only appends to is a set or a sequence that only grows, and what the code
derives from it by a query is an operator over it, so that a stored column and the sum it stands for
are two things that a property can compare.

An `MC` module may fix a *focus* in the initial state: the run then explores each part of the
component from there with its own bounds, instead of one product too large for all of them.

### 2.1 CommandLedger

A *call* is one HTTP request; a client's retry is another call with the same key. `pc` follows the
request through `peekReplay` (`PeekReplay`), the service's reads outside the transaction
(`Validate`), `executeCommand`'s missing-key gate (`Gate`), its fast path (`FastPath`), the
reservation (`Reserve`), the mutation (`Mutate`, `MutationRefused`, `MutationClash`), the receipt's
flip and commit (`Commit`), the branch taken on a unique violation (`Reread`) and the answer
(`Respond`). `reserved` holds uncommitted reservations, `receipts` the committed ones, `effects` the
calls whose mutation committed, `rowLock` the canonical rows an open transaction has written.
Requests come in three kinds: repeatable (create), guarded by a compare-and-set, and inserting
under a unique index. `clash` and `retryOf` are history. A call is keyed by its client, keyed by the
server (`synthesizeKeyWhenAbsent`), or not keyed.

### 2.2 ExternalDelivery

`row` is `OutboxDelivery` (status, attempts, mark). Three workers exist in the code and in the
model: the relay of the outbox mode, which claims all due rows, the relay of the legacy modes, which
recovers retries and abandoned rows, and the post-commit dispatcher of the legacy modes. All
dispatch by the same steps (`LoadRow`, `ReadCatalog`, `CheckMark`, `JudgeTarget`, `CallProvider`,
`Settle`, `Fail`, `Drop`). Time is three facts about a row that only time makes true: its backoff
has passed (`due`), its lease has run out (`expired`), it is older than the lease window (`aged`).
The cancelling transaction (`BeginCancel` to `CommitCancel`) has the code's five statements; each
sees what is committed when it runs and keeps the rows it wrote locked. `live` is the fact the
family's claim-time predicate reads, here that a decision still asks for its answer.

`loop` is where the handler is among its recipients: how many are left, and whether one was told.
`JudgeTarget` resolves them, perhaps to nobody, in which case it returns and the row succeeds. Before
each, `Verdict` re-reads the mark and the demand (`Judged`), and may find that the person has lost
the standing; `EndLoop` marks a delivery that told nobody. `CallProvider` goes on whatever became of
the push, because `PushService` returns in silence without VAPID keys or valid links and only logs a
provider's refusal; what throws are its own reads. `offered`, `nobody` and `late` record the rows
handed to it, the rows whose claim resolved to nobody, and the pushes after a cancellation. The early
return on a missing body (`consumers.ts:167`) needs no step: the dispatch rule makes an event without
a push a `noop` row, which the handler never sees.

### 2.3 ProjectionGenerations

`head` is the stream's next position, `ours` the positions this projection subscribes to, `gens` the
generations with checkpoint and rows. Since a handler refreshes its row from canonical state, a
generation's rows are the set of positions whose change they show. `holder` is the active
generation's row lock, `stream` the stream's. The relay's steps are those of `claim`,
`dispatchOne`, `lockActiveGeneration` and `dispatchProjection`; the rebuild's are allocation, seed
in its three parts, catch-up, barrier, tail, look-up of the previous generation and swap; the
read's are the generation, the head and the rows. `-1` in `ours` stands for canonical rows older
than the stream.

The row lock is modelled as PostgreSQL has it: a waiter that chose a row by `status = 'active'`
looks again when it gets the lock, and a row no longer active leaves its answer.

### 2.4 Fleet

`phase[p]` is where process p has come to between admission and exit. Admission reads `minimum` and
keeps its row FOR SHARE (`sharing`) until the process serves, or, where `Drops` allows it, until the
connection is lost and the lock with it (the run has it FALSE; section 5 has what TRUE shows); the raising migration waits for the lock. `lease` is the
row's expiry on the database's clock, `fenceAt` the process' own deadline, taken from the moment
before the statement was sent, `renewal` the statement under way, whose answer may be late or lost.
`attested` is what the operator concluded from reading the live leases.

### 2.5 PurchaseOrders and StockLedger

`reqs` and `orders` are the rows; an amendment leaves its version's row `amended` and takes a new one.
`lots` remembers the order a lot was received on; `ledger` is the set of movement rows, each between
two buckets of a lot at a location. Nothing else is stored: `Balance`, `ReservedForActivity`,
`IssueCustody` and `Supply` are sums over parts of `ledger`, as they are queries in the code, while
`received` is the column procurement keeps beside it. A row has a copy number, since the code may append
two rows that agree in everything else, and an issue is named by its place among the issues.

### 2.6 VendorBills

`rows` is the evidence (accepted stock or recorded work) with the people who recorded it, `bills` the
bills with their current claim, `recent` their order by version, and `certs`, `held`, `approvals`,
`payments` the append-only ledgers, in which a correction is another row. `ClaimNext` is what bills
do, `EvidenceNext` what inventory and labour do to the evidence, with the guards and the disputes
they call through the commercial participant, `MoneyNext` what is paid.

### 2.7 SiteWork

`work` is the activities' rows, `insps` the inspections in order of creation, `site` the deliveries of
the daily logs and `disputes` the crew disputes that are open. `ReviewNext` is the checklists and
sign-offs with the members' coming and going, `DisputeNext` the blocks and releases.

### 2.8 Decisions

`status` and `holder` are a decision's row, `revs` its approvals and how each became final, `requests`
its change requests. `seat` is a person's membership and `retired` the accounts without a sign-in;
both decide who can hold a decision. `reads` are the approvals that have read and not yet committed.
Its names say `Decision` where `SiteWork` has the same ones, as `ProjectProofs` is about both.

### 2.9 LabourSupply and LabourCapacity

`demand` is a requirement's head (revision, identity, slices by date), `requisitions` and `orders` are
as in procurement, with a line for each slot and the vendor's promise on it. `held[w]` is the list of
a worker's allocations, each with the capacity it draws and the work recorded; `present`, `subs` and
`gone` are attendance, substitutions and revocations.

### 2.10 CreateHold

`record` is the browser's durable record, `jobs` the reservations taken, `live` those whose document
still holds them, `wire` the requests that have not reached the server. `made`, `kept`, `standing`
and `keeping` are the server's: it creates at most once a key once it keeps receipts, which is what
`CommandLedger` proves of it.

## 3. Runs

| Run | Asks | Bounds, and why they are enough |
|---|---|---|
| `ledger` | `LedgerIsSound`, `OneShotOnce`, `AnswersAreTrue`, `RetryIsReplayed`, `EveryCallEnds`, `IdempotentSpec` | three calls: a winner, a loser and a later retry; eight commands, so that keys are shared by owners and by requests. Of the initial states that differ only in which call sends what, one is kept |
| `delivery_faults` | `RowsSettleHonestly`, `OvertakenOnce`, `EverySettles` | one row, whose claim resolves to two people at most: one told before the other is judged; a dispatcher without the consumer's code and a recoverer; two attempts, one crash, one operator retry, one deactivation, slow senders, failing reads, one cancellation |
| `delivery_cancel` | `OneActiveSender`, `CancellationComplete`, `SettledStays` | two rows of one family with one recipient each, all three kinds of worker, a cancellation; no slow sender and no failing read, since each breaks its property (section 5) |
| `projection` | `NoEventIsLost`, `ServedIsCurrent`, `ServingAdvances` | two events, two interchangeable relays, a rebuild, a read, one failure, one crash, one operator retry; two relays at work, a fault and a read are each combined with the rebuild, not with one another (`OneTrouble`) |
| `projection_progress` | `EveryEventIsApplied` | two projects and a batch that holds every row |
| `stock_flows` | `ReceiptsAccounted`, `HoldingsAreOwned`, `IssueKeepsCoverage` | `chain`: from an empty project, two order versions, three ledger rows; `store`: two activities, two locations, five further rows, one of them an adjustment at most: an issue, its return and a reversal of either |
| `money` | `MoneyIsCovered`, `ClaimsWithinEvidence`, `FrozenEvidenceStands`, `WithholdingStands` | `stock`, `work`: two bills over moving evidence, two certificates; `advance`: two bills, an advance of one; `cash`: one bill, two approvals and payments; six ledger rows |
| `work` | `ReviewsStand`, `ProgressIsKept`, `SubmitterHoldsWork`, `LabourStillHeld` | `review`: one activity, three inspections, two people; `dispute`: two activities, one decision, two deliveries, one dispute each |
| `labour` | `BoughtSoundly`, `HeldSoundly`, `WithinCapacity`, `ReadyStays` | `supply`: three order versions on two dates; `people`: two workers, two allocations, one substitution or revocation, a promise that is revised or defaulted, or musters (which no draw bears on) |
| `fleet` | `FleetIsFenced`, `DrainIsFinal`, `NoStaleListener` | an old and a new build; a lease of four ticks, a margin of two, timers one tick late, six ticks: a lease, its renewal and its end |
| `decisions` | `RegisterIsCoherent`, `HoldersKept`, `DecidedByAuthority`, `NoneAroundTheArchitect` | one decision, two approvals and requests, a team of three with two changes, one of them between an approval's read and its commit |
| `create_hold` | `HoldIsSound`, `SettledForGood` | two tabs, three reservations: a held attempt, its retry, and the next attempt |

Several properties gather what must hold together; `LedgerIsSound` is `TypeOK`, `AtMostOncePerKey` and
`ReceiptsAreEffects`, and so on: each is a conjunction of named parts in its module. What a succeeded
row says is limited: `SuccessIsAccountedFor`, in `RowsSettleHonestly`, has it that the push service
was called, the drop is marked or the claim resolved to nobody, never that a device was reached
(section 5).

Bounds are `Max...` constants. `MAX_ATTEMPTS` (5), `CLAIM_BATCH` (50) and the lease's lengths are
constants too; small numbers stand for them, with the inequalities that the code has among them as
assumptions. `ledger`, `delivery_cancel` and `create_hold` check deadlock: what is over steps on the
spot. The other runs turn it off, because with every bound used up, or a project at rest, nothing is
left to do.

### Fairness

- `CommandLedger`: a call that can go on does (the server runs it); a crash ends it. A wait ends,
  since the transaction waited for ends.
- `ExternalDelivery`: the relay's timer ticks for ever and a dead process is restarted (weak
  fairness of each worker's steps); the scanner looks between passes only, so strong fairness; time
  passes; an open transaction ends.
- `ProjectionGenerations`: strong fairness of a relay's and a rebuild's steps, which may be disabled
  again and again by a lock another holds, and are served by PostgreSQL's lock queue; backoff and
  lease run out. Nothing is assumed of handlers, crashes or operators.

## 4. Proofs

Every theorem is about the module it is proved beside, for every value of the constants that the
named assumptions allow; the `ASSUME`s of the modules state only what the code has (at least one
attempt, disjoint kinds of keys, finite sets of rows, a margin within the lease) and TLC evaluates
them in the runs. An invariant that a proof introduces was tried with TLC on the run of its
module first.

| Module | What is proved | The inductive invariant, and why the properties alone are not inductive |
|---|---|---|
| `PlatformProofs`, of `CommandLedger` | `LedgerIsSound`, `OneShotOnce`, `AnswersAreTrue`, `RetryIsReplayed`; `KernelImplements`: the kernel implements `IdempotentSpec` | `LedgerInv`: one open reservation a key, none beside a receipt, and where a call that has committed may be. `AnswerInv` adds that the writer of a one-shot row holds its lock until it commits, that a call is keyed in its owner's slot from the gate on, and that a retry of an answered key never comes to write |
| `PlatformProofs`, of `Fleet` | `FleetIsFenced`; `DrainIsFinal` and `NoStaleListener` while the connections of admissions stand (`~Drops`) | `LeaseInv`: a running process stops a margin before the lease it knows of, and an answer that is late covers less than the statement it answers. `FleetInv` adds the admission's window |
| `PlatformProofs`, of `CreateHold` | `HoldIsSound`, `SettledForGood` | `HoldInv`: the held attempt is the newest reservation, an attempt is named by its first, nothing was sent to a server that keeps no receipts |
| `ExternalDeliveryProofs` | `OvertakenOnce` and `SuccessIsAccountedFor` without a hypothesis; `OneActiveSender`, `SettledStays`, `CancellationComplete`, `RowsSettleHonestly` with one (below) | `DeliveryInv`: what a worker read of its row against what the row may have become since. `LateInv` (once the cancellation is through nothing is judged fit any more, so a push on its way is its worker's first late one), `SenderInv` (who holds a lease), `CancelInv` (what each of the five statements has left behind: rows untouched, rows a worker has that must still come back, rows to be created), `BudgetInv` (attempts against the budget, while a slow sender keeps an old count) |
| `ProjectionProofs` | `NoEventIsLost`, `ServedIsCurrent`, `ServingAdvances` | `ProjectionInv`: the relay that holds the row lock writes the active generation, a rebuild its own, nobody another; what each knows of the stream; and that a generation a read is in shows what was canonical when the read compared it with the head, or has been emptied |
| `ProjectProofs`, of `SiteWork` | `ProgressIsKept`, `LabourStillHeld`, `ReviewsStand`, `SubmitterHoldsWork` | `ActivityInv`: what each status remembers. `ReviewInv`: an inspection follows an earlier, rejected one of its activity, and no two the same |
| `ProjectProofs`, of `Decisions` | `RegisterIsCoherent`, `HoldersKept`, `DecidedByAuthority`, `NoneAroundTheArchitect` | `DecisionInv`, on one decision's status, approvals and requests; each move is a lemma about those three alone. The action properties add what an approval that has read still knows |
| `LabourProofs` | `HeldSoundly`, `ReadyStays`, `BoughtSoundly`, `WithinCapacity` | `HeldInv`; `SupplyInv`, which states every stored flag against the promises it is derived from; `DrawnInv`, that a draw stands on an order that was placed and keeps its date and identity. Needs that what is bought keeps what was promised (`PromisesKept`), which is proved of every purchase |
| `StockProofs` | `ReceiptsAccounted`, `HoldingsAreOwned`, `IssueKeepsCoverage` | `StockInv`: the orders that lots were received on stay issued; copies are numbered, so an appended row is a new one; only rows of an activity touch the reserved bucket, only rows of an issue the custody, and those at the issue's lot, location and activity; what a reversal undoes is in the ledger. Custody is not bounded by the sign of a balance alone: `CustodyBalanced` says that what an issue still holds and what was drawn from it and not undone come to what it carried out, without which undoing a draw could exceed the issue |
| `VendorProofs`, of `VendorBills` | `MoneyIsCovered`, `ClaimsWithinEvidence`, `FrozenEvidenceStands`, `WithholdingStands` | `VendorInv`: the properties together, since each carries another (a status that is derived says that a bill past certification has a certificate, whose rows say what its claim froze), with what none of them says: the rows of a ledger refer to rows that exist and give back no more than they took, a bill has one certificate that stands, and the order of the versions holds every recorded bill once, without which a withdrawal of evidence could pass over a claim it has to dispute |

`SumTheorems` is a library of its own. Sums are `SumFunction`, which the community modules define
by choosing a recursive function over the subsets of a set. That this function exists and is what it
says is proved by a smallest counterexample, since an induction scheme over an operator cannot be
instantiated here; from there follow the sum of parts, of one element more or fewer, and of one element that
changes, which is how a command's guard bounds the sum after it. In `StockProofs` every row appended
is one element more of each sum it has a part in, so each kind of row is a lemma on the rows alone
(`PlainRow`, `ActivityRow`, `DrawRow`, `UndoRow`), and each command says which kind it appends.
`IssuesKeepCoverage` adds that no other command appends an issue, and compares the two sums of
`Supply` before the release, between it and the issue's row, and after.

In `VendorProofs` a balance is the sum of a ledger's rows over those whose key (a certificate, a
certificate with a kind, an approval) lies in a set (`PartSum`), stated of any ledgers, so that a command is what it
does to them: one row more, one row changed, or one certificate dead. The dispute of the newest
claims is bounded from the other side: those that are left are not newer than the newest of them, and
their sum up to it was within the evidence. A certificate's draws are shown row by row to stay within what the rows
have free, and in sum to be the claim. `WithheldStands` is not an invariant: it follows from `VendorInv` on
both sides of a step, with three kinds of step. A certificate takes over the balance of the bill's
last one, a release or a deduction changes one row, and every other command leaves both ledgers but for
a certificate's life.

**Hypotheses.** Three of the delivery's properties are false of slow senders or of a fleet in
transition, as the runbook knows, and their theorems say so:

- `LeasesExclude`, `SettlementStands`: `~SlowSenders`, a row is worked off within its lease of 30 seconds.
- `CancellationsAreComplete`: `RegularFleet`, which adds that every worker has the consumer's handler,
  that reads of the catalogue do not fail and that the consumer stays active. These are the conditions of run
  `delivery_cancel`; each is needed.
- `SettlementIsHonest`: `CalmCatalog`, the consumer is not switched off and on again while senders are
  slow. It is weaker than the conditions of `delivery_faults`, which has one deactivation. Section 5 has what
  happens without it.

**Only model-checked.** Liveness (`EveryCallEnds`, `EverySettles`, `EveryEventIsApplied`): the prover has
no rule for fairness.

## 5. Met while modelling

Where the code does other than a comment, a migration or a neighbour of it says, the module keeps the
statement as a definition, and this is how to see it fail.

| Where | What the models show | To reproduce |
|---|---|---|
| `commands.ts:274` | every unique violation in the transaction is taken for a lost reservation; one that the mutation raised is answered "a concurrent command with this key is in progress" (`:284`) | `MutationErrorNotMasked` in `ledger` |
| `relay.service.ts:117` | rows that wait behind a dead position are released due, and a batch of them is claimed for ever before any other (`ARCHITECTURE.md:88`) | `EveryEventIsApplied` with `ClaimBatch` 1 |
| `cancellation.ts:174` | a row that the scanner creates after the first pass, leased during one statement of the second and back to pending before the next, is matched by neither; the sender's own check still stops it | `CancellationComplete` with `FaultyReads` |
| `generation.ts:61` | a relay that waited while the barrier swapped does not go on in the new generation (`:12`, `:18`): its attempt fails, since the lost insert has aborted the transaction the re-read runs in | `AttemptsAreFaults` |
| `outbox-operations.service.ts:97` | the operator's retry reads the cursor table, which projections do not write: a dead projection delivery is retried at position 0 only (`:11`, `RUNBOOK.md:1045`) | `BlockedIsRetryable` |
| `procurement.service.ts:121` | a requirement is asked for again while orders stand on its closed requisition (`:117`) | `RequirementBound`, `MaxRequisitions` 2 |
| `inventory.service.ts:666` | a reversal of the receipt that completed an order makes it live again beside the version that replaced what was left (`purchase-orders.service.ts:262`) | `OrderBound` |
| `purchase-orders.service.ts:692` | a promise stays fulfilled after what fulfilled it is reversed | `FulfilledIsReceived` |
| `commercial-deduction.service.ts:322` | a withholding's release is judged beside a restated one (`20270520000000_phase5_t5c_deductions/migration.sql:514`) | `RestatedIsClosed` |
| `commercial-certification.service.ts:722` | whoever certifies may later correct the evidence certified | `EvidenceApart`, focus `people` |
| `activity.participant.ts:163` | a mismatch that blocks an activity leaves its closing inspection open; approved later, it signs off what a second claim says (`activities.service.ts:546`) | `SignedOffByItsClaim` |
| `decisions.service.ts:1246` | a decision can come back to a holder who left while it awaited the countersign | `OpenIsHeld` |
| `server-generation.ts:202` | with the connection of an admission lost, a process below the new minimum opens its listener before it notices | `NoStaleListener` with `Drops` TRUE |
| `projectCreateHold.ts` | the refusal of a retry settles the attempt while its first request may still be on its way; should the user's standing come back, that request makes a project beside the second key's | `SecondKeyWaits` |

Without the hypothesis of `SettlementIsHonest` the attempt budget is overrun: a slow worker that finds the
consumer inactive gives its row back as pending (`relay.service.ts:174`), though
another worker dead-lettered it meanwhile, and on the next activation the row gets an attempt beyond
`MAX_ATTEMPTS` (`RowsSettleHonestly` in `delivery_faults` with `MaxToggles` 2).

Remarks without a property. The push service returns in silence without VAPID keys or valid links
and only logs a refusal (`push.service.ts:133`, `:160`), and the handler returns when its claim
resolves to nobody (`consumers.ts:232`): the row is `succeeded` and never retried, though
`ARCHITECTURE.md:88` has failures back off, retry and end `dead`. A read that fails after some recipients were told brings the whole row
back, and they are told again. `HoldersKept` excuses decisions that had lost their holder before, and
`ReviewsStand` says that a claim has an open review, not that the review was opened for it: what they
leave is in the table above. A sender slower than its 30-second lease breaks `OneActiveSender` in two
steps (the runbook knows this); the update that settles or releases a row asks for neither its
status nor its lease. Cancelling or closing short an order after its requisition was closed leaves
the requisition closed with an uncovered line, though the comment at
`labour-procurement.service.ts:804` speaks of re-opening; a default after the closure can reopen one
on cancelled demand; a default does not release the draws on the promise; a worker revoked keeps the
allocations; and capacity counts active draws only (`labour-capacity.service.ts:424`, against the
comment at `labour-coverage.service.ts:269`). The fence's branch for a missed renewal cannot be
taken while timers are less late than the margin.

## 6. Not modelled

The map covers about seven hundredths of the implementation's lines: the server's domain core and its
platform, and one durable protocol of the client. Most of the rest is screens, contracts, view state,
review scripts and reads, which have no behaviour over time of their own.

- In the modules above: request hashing, authorisation, formats and wording; rates, tax, freight, cost
  heads and budgets; quotes; items and evidence of a checklist; the decision and drawing gates of a
  start; consultations; who a push is for, beyond how many; the catalogue version and the writer fence
  against older releases; two rebuilds that pick one generation number.
- The web client's offline queue (`queueLedger.ts`, `queueKeyGuard.ts`), whose occurrences are shared
  by tabs, and the switch of projects under replies that are late. It rests on `CommandLedger`.
- Plain ordered consumers: the only one registered, `decisions.effects`, is inactive in the catalogue;
  every other ordered consumer is a projection.
- Drawings and the hub, material requirements, nodes, site visits, media: rows of their own whose
  interplay with the modelled parts is by reference.
- The outbox's cutover seal and the operator's command lines, which run alone.
- Identity and credentials, outside this project's subject; tables, parsers and start-up checks, which
  do not move. Each component has its reason in `PROJECT.json`.

What comes next: the offline queue over tabs and page closures; drawings with their files, as the
gate of a start; the requirements' own versions in front of procurement and labour.


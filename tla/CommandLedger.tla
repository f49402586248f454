---------------------------- MODULE CommandLedger ----------------------------
(***************************************************************************)
(* The command-idempotency kernel, apps/api/src/platform/commands.ts, and  *)
(* the way every service wraps it: peekReplay, the service's own           *)
(* validation reads, then executeCommand.                                  *)
(*                                                                         *)
(* A call is one HTTP request.  A client that retries sends a new call     *)
(* with the same key.  The database is PostgreSQL under READ COMMITTED:    *)
(* the reservation is a row of the caller's own transaction, so another    *)
(* insert of the same key waits for that transaction to end, and a crash   *)
(* or an error rolls everything it wrote back.                             *)
(***************************************************************************)
EXTENDS Naturals, FiniteSets

CONSTANTS
    Calls,          \* HTTP requests, each processed once
    Owners,         \* (scope, actor, commandType): the receipt's subject
    Keys,           \* client idempotency keys
    NoKey,          \* a request without an Idempotency-Key header
    Requests,       \* request hashes
    CasRequests,    \* requests whose mutation is a guarded update (count = 0 -> 409)
    UniqueRequests, \* requests whose mutation inserts under a unique index (P2002)
    Commands,       \* the commands callers may send
    Nobody          \* no call

\* The key executeCommand makes up for a call that sends none: srv-<uuid>.
SrvKey(c) == <<"srv", c>>
SrvKeys == {SrvKey(c) : c \in Calls}

\* A command: whose it is, its key and hash, whether the service asks the
\* kernel to synthesize a key, and whether it peeks and validates first.
Command == [owner : Owners, key : Keys \cup {NoKey}, req : Requests,
            synth : BOOLEAN, peeks : BOOLEAN]

ASSUME LedgerAssumption ==
    /\ Nobody \notin Calls
    /\ NoKey \notin Keys
    /\ (Keys \cup {NoKey}) \cap SrvKeys = {}
    /\ CasRequests \subseteq Requests
    /\ UniqueRequests \subseteq Requests
    /\ CasRequests \cap UniqueRequests = {}
    /\ Commands \subseteq Command

\* A business transition that can take place once: the canonical row, not the
\* ledger, refuses the second one.
OneShot == CasRequests \cup UniqueRequests

VARIABLES
    cmd,        \* Calls -> Command, what each caller sends (never changes)
    enforced,   \* COMMAND_KEY_ENFORCED
    pc,         \* Calls -> where the call is
    ledgerKey,  \* Calls -> the key the receipt is stored under
    reserved,   \* Slots -> the transaction holding an uncommitted reservation
    receipts,   \* Slots -> the call whose `succeeded` row is committed
    rowLock,    \* OneShot -> the transaction that wrote the canonical row
    effects,    \* the calls whose mutation committed
    answer,     \* Calls -> what the caller was told
    clash,      \* history: the calls whose own mutation raised a P2002
    retryOf     \* history: Calls -> the receipt that stood when the call arrived

vars == <<cmd, enforced, pc, ledgerKey, reserved, receipts, rowLock, effects,
          answer, clash, retryOf>>

Slots == Owners \X (Keys \cup SrvKeys)

\* Variant for testing the properties: receipts keyed without their owner.
SharedSlot(c) == <<CHOOSE o \in Owners : TRUE, ledgerKey[c]>>

\* receiptWhere: the subject a call's receipt is looked up and stored under.
Slot(c) == <<cmd[c].owner, ledgerKey[c]>>
ClientSlot(c) == <<cmd[c].owner, cmd[c].key>>
HasSlot(c) == ledgerKey[c] # NoKey

PCs == {"idle", "peek", "validate", "gate", "fastpath", "reserve", "mutate",
        "commit", "reread", "respond", "done", "lost"}
AnswerKinds == {"none", "executed", "replayed", "refused", "needKey",
                "keyReused", "retry"}
NoAnswer == [kind |-> "none", ref |-> Nobody]

InTx == {"mutate", "commit"}          \* inside prisma.$transaction
Over == {"done", "lost"}

Init ==
    /\ cmd \in [Calls -> Commands]
    /\ enforced = FALSE
    /\ pc = [c \in Calls |-> "idle"]
    /\ ledgerKey = [c \in Calls |-> NoKey]
    /\ reserved = [s \in Slots |-> Nobody]
    /\ receipts = [s \in Slots |-> Nobody]
    /\ rowLock = [r \in OneShot |-> Nobody]
    /\ effects = {}
    /\ answer = [c \in Calls |-> NoAnswer]
    /\ clash = {}
    /\ retryOf = [c \in Calls |-> Nobody]
-----------------------------------------------------------------------------
\* The canonical row a request writes, as a committed read sees it.
Applied(r) == \E d \in effects : cmd[d].req = r

Goto(c, where) == pc' = [pc EXCEPT ![c] = where]

\* The call ends with an answer, or with the exception its caller sees.
Tell(c, kind, ref) ==
    /\ answer' = [answer EXCEPT ![c] = [kind |-> kind, ref |-> ref]]
    /\ Goto(c, "done")

\* Variant: the request hash is not compared.
FromAnyReceipt(c, d) == Tell(c, "replayed", d)

\* A committed receipt answers the call: its result when the request is the
\* same, 409 when the key was used for another request.
FromReceipt(c, d) ==
    IF cmd[d].req = cmd[c].req THEN Tell(c, "replayed", d)
                               ELSE Tell(c, "keyReused", Nobody)

\* Variant: the reservation is written outside the transaction and survives it.
KeepReservation(c) == UNCHANGED reserved

\* What the end of a transaction releases: its uncommitted rows.
ReleaseReservation(c) ==
    reserved' = [s \in Slots |-> IF reserved[s] = c THEN Nobody ELSE reserved[s]]
ReleaseRowLock(c) ==
    rowLock' = [r \in OneShot |-> IF rowLock[r] = c THEN Nobody ELSE rowLock[r]]
EndTransaction(c) == ReleaseReservation(c) /\ ReleaseRowLock(c)
-----------------------------------------------------------------------------
\* The operator switches COMMAND_KEY_ENFORCED on.
Enforce ==
    /\ ~enforced
    /\ enforced' = TRUE
    /\ UNCHANGED <<cmd, pc, ledgerKey, reserved, receipts, rowLock, effects,
                   answer, clash, retryOf>>

\* A request arrives at its service.
Submit(c) ==
    /\ pc[c] = "idle"
    /\ Goto(c, IF cmd[c].peeks THEN "peek" ELSE "gate")
    /\ retryOf' = [retryOf EXCEPT ![c] =
         IF cmd[c].key \in Keys THEN receipts[ClientSlot(c)] ELSE Nobody]
    /\ UNCHANGED <<cmd, enforced, ledgerKey, reserved, receipts, rowLock,
                   effects, answer, clash>>

\* Variant: the service validates before it looks for a receipt.
PeekNothing(c) ==
    /\ pc[c] = "peek"
    /\ Goto(c, "validate")
    /\ UNCHANGED <<cmd, enforced, ledgerKey, reserved, receipts, rowLock,
                   effects, answer, clash, retryOf>>

\* peekReplay: before the service validates, a committed receipt answers.
PeekReplay(c) ==
    /\ pc[c] = "peek"
    /\ IF cmd[c].key \in Keys /\ receipts[ClientSlot(c)] # Nobody
         THEN FromReceipt(c, receipts[ClientSlot(c)])
         ELSE Goto(c, "validate") /\ UNCHANGED answer
    /\ UNCHANGED <<cmd, enforced, ledgerKey, reserved, receipts, rowLock,
                   effects, clash, retryOf>>

\* The service's own reads, outside the transaction: a transition that already
\* took place is refused here.
Validate(c) ==
    /\ pc[c] = "validate"
    /\ IF cmd[c].req \in OneShot /\ Applied(cmd[c].req)
         THEN Tell(c, "refused", Nobody)
         ELSE Goto(c, "gate") /\ UNCHANGED answer
    /\ UNCHANGED <<cmd, enforced, ledgerKey, reserved, receipts, rowLock,
                   effects, clash, retryOf>>

\* executeCommand, before any write: a missing key is refused under
\* enforcement, takes the ledger-less path, or is synthesized.
Gate(c) ==
    /\ pc[c] = "gate"
    /\ \/ /\ cmd[c].key = NoKey
          /\ enforced
          /\ Tell(c, "needKey", Nobody)
          /\ UNCHANGED ledgerKey
       \/ /\ cmd[c].key = NoKey
          /\ ~enforced
          /\ ~cmd[c].synth
          /\ Goto(c, "mutate")
          /\ UNCHANGED <<ledgerKey, answer>>
       \/ /\ cmd[c].key = NoKey
          /\ ~enforced
          /\ cmd[c].synth
          /\ ledgerKey' = [ledgerKey EXCEPT ![c] = SrvKey(c)]
          /\ Goto(c, "fastpath")
          /\ UNCHANGED answer
       \/ /\ cmd[c].key # NoKey
          /\ ledgerKey' = [ledgerKey EXCEPT ![c] = cmd[c].key]
          /\ Goto(c, "fastpath")
          /\ UNCHANGED answer
    /\ UNCHANGED <<cmd, enforced, reserved, receipts, rowLock, effects, clash,
                   retryOf>>

\* The fast path: a committed receipt answers without a transaction.
FastPath(c) ==
    /\ pc[c] = "fastpath"
    /\ IF receipts[Slot(c)] # Nobody
         THEN FromReceipt(c, receipts[Slot(c)])
         ELSE Goto(c, "reserve") /\ UNCHANGED answer
    /\ UNCHANGED <<cmd, enforced, ledgerKey, reserved, receipts, rowLock,
                   effects, clash, retryOf>>
-----------------------------------------------------------------------------
\* Variant: no unique index stands behind the reservation.
ReserveUnchecked(c) ==
    /\ pc[c] = "reserve"
    /\ reserved' = [reserved EXCEPT ![Slot(c)] = c]
    /\ Goto(c, "mutate")
    /\ UNCHANGED <<cmd, enforced, ledgerKey, receipts, rowLock, effects,
                   answer, clash, retryOf>>

\* INSERT of the `reserved` row.  It waits while another transaction holds an
\* uncommitted row of the same key; a committed one raises P2002.
Reserve(c) ==
    /\ pc[c] = "reserve"
    /\ reserved[Slot(c)] = Nobody
    /\ IF receipts[Slot(c)] = Nobody
         THEN /\ reserved' = [reserved EXCEPT ![Slot(c)] = c]
              /\ Goto(c, "mutate")
         ELSE Goto(c, "reread") /\ UNCHANGED reserved
    /\ UNCHANGED <<cmd, enforced, ledgerKey, receipts, rowLock, effects,
                   answer, clash, retryOf>>

\* `run`: the canonical mutation inside the transaction.  It writes its row,
\* is refused by the compare-and-set, or hits a unique index of its own.
RowFree(c) == cmd[c].req \in OneShot => rowLock[cmd[c].req] = Nobody
\* Variant: the mutation trusts the validation made outside the transaction.
TrustValidation(c) == TRUE

CanWrite(c) == cmd[c].req \in OneShot => ~Applied(cmd[c].req)

Mutate(c) ==
    /\ pc[c] = "mutate"
    /\ RowFree(c)
    /\ CanWrite(c)
    /\ rowLock' = [r \in OneShot |-> IF r = cmd[c].req THEN c ELSE rowLock[r]]
    /\ Goto(c, "commit")
    /\ UNCHANGED <<cmd, enforced, ledgerKey, reserved, receipts, effects,
                   answer, clash, retryOf>>

MutationRefused(c) ==
    /\ pc[c] = "mutate"
    /\ RowFree(c)
    /\ cmd[c].req \in CasRequests
    /\ ~CanWrite(c)
    /\ EndTransaction(c)
    /\ Tell(c, "refused", Nobody)
    /\ UNCHANGED <<cmd, enforced, ledgerKey, receipts, effects, clash, retryOf>>

\* The kernel's catch sees a P2002 and cannot tell whose index raised it.  The
\* ledger-less path has no catch: the error reaches the service as it is.
MutationClash(c) ==
    /\ pc[c] = "mutate"
    /\ RowFree(c)
    /\ cmd[c].req \in UniqueRequests
    /\ ~CanWrite(c)
    /\ EndTransaction(c)
    /\ clash' = clash \cup {c}
    /\ IF HasSlot(c) THEN Goto(c, "reread") /\ UNCHANGED answer
                     ELSE Tell(c, "refused", Nobody)
    /\ UNCHANGED <<cmd, enforced, ledgerKey, receipts, effects, retryOf>>

\* The receipt turns `succeeded` and the transaction commits: the mutation and
\* its receipt become visible together.
Commit(c) ==
    /\ pc[c] = "commit"
    /\ receipts' = IF HasSlot(c) THEN [receipts EXCEPT ![Slot(c)] = c]
                                 ELSE receipts
    /\ effects' = effects \cup {c}
    /\ EndTransaction(c)
    /\ Goto(c, "respond")
    /\ UNCHANGED <<cmd, enforced, ledgerKey, answer, clash, retryOf>>

\* The catch branch of a P2002: read the receipt under the key again.
Reread(c) ==
    /\ pc[c] = "reread"
    /\ IF receipts[Slot(c)] # Nobody
         THEN FromReceipt(c, receipts[Slot(c)])
         ELSE Tell(c, "retry", Nobody)
    /\ UNCHANGED <<cmd, enforced, ledgerKey, reserved, receipts, rowLock,
                   effects, clash, retryOf>>

\* The call's own result reaches its caller.
Respond(c) ==
    /\ pc[c] = "respond"
    /\ Tell(c, "executed", c)
    /\ UNCHANGED <<cmd, enforced, ledgerKey, reserved, receipts, rowLock,
                   effects, clash, retryOf>>

\* The process dies, or the connection does: an open transaction is rolled
\* back by the database and the caller never hears an answer.
Crash(c) ==
    /\ pc[c] \notin Over \cup {"idle"}
    /\ EndTransaction(c)
    /\ Goto(c, "lost")
    /\ UNCHANGED <<cmd, enforced, ledgerKey, receipts, effects, answer, clash,
                   retryOf>>

\* Every call was answered or lost.
Finished == (\A c \in Calls : pc[c] \in Over) /\ enforced /\ UNCHANGED vars

Process(c) ==
    \/ PeekReplay(c) \/ Validate(c) \/ Gate(c) \/ FastPath(c) \/ Reserve(c)
    \/ Mutate(c) \/ MutationRefused(c) \/ MutationClash(c) \/ Commit(c)
    \/ Reread(c) \/ Respond(c)

Next ==
    \/ Enforce
    \/ \E c \in Calls : Submit(c) \/ Process(c) \/ Crash(c)
    \/ Finished

Spec == Init /\ [][Next]_vars

\* A request being processed keeps running: the event loop and the database
\* give it its next step unless it waits for another transaction's row.
FairSpec == Spec /\ \A c \in Calls : WF_vars(Process(c))
-----------------------------------------------------------------------------
Answer == [kind : AnswerKinds, ref : Calls \cup {Nobody}]

TypeOK ==
    /\ cmd \in [Calls -> Commands]
    /\ enforced \in BOOLEAN
    /\ pc \in [Calls -> PCs]
    /\ ledgerKey \in [Calls -> Keys \cup SrvKeys \cup {NoKey}]
    /\ reserved \in [Slots -> Calls \cup {Nobody}]
    /\ receipts \in [Slots -> Calls \cup {Nobody}]
    /\ rowLock \in [OneShot -> Calls \cup {Nobody}]
    /\ effects \subseteq Calls
    /\ answer \in [Calls -> Answer]
    /\ clash \subseteq Calls
    /\ retryOf \in [Calls -> Calls \cup {Nobody}]

\* Two calls that carry the same key of the same subject never both execute,
\* however they overlap, crash and retry (executeCommand's protocol).
AtMostOncePerKey ==
    \A c, d \in effects :
        cmd[c].key \in Keys /\ ClientSlot(c) = ClientSlot(d) => c = d

\* A transition the canonical row allows once takes place once, also between
\* calls whose keys differ or are absent: the ledger does not protect it, the
\* compare-and-set or unique index inside `run` does.
OneShotOnce ==
    \A c, d \in effects :
        cmd[c].req \in OneShot /\ cmd[c].req = cmd[d].req => c = d

\* A receipt is committed exactly when the mutation it answers for is: neither
\* a crash nor an error separates them.
ReceiptsAreEffects ==
    /\ \A s \in Slots : receipts[s] # Nobody =>
           receipts[s] \in effects /\ Slot(receipts[s]) = s
    /\ \A c \in effects : HasSlot(c) => receipts[Slot(c)] = c

\* The ledger is sound: its variables keep their types, no key's act takes place
\* twice, and every mutation of a key stands with its receipt or not at all.
LedgerIsSound == TypeOK /\ AtMostOncePerKey /\ ReceiptsAreEffects

\* What a caller is told is so: a result belongs to its own subject, key and
\* request and is committed, and any error means this call wrote nothing.
AnswersAreTrue ==
    \A c \in Calls :
        /\ answer[c].kind = "executed" => c \in effects
        /\ answer[c].kind = "replayed" =>
              LET d == answer[c].ref IN
              /\ d \in effects \ {c}
              /\ ClientSlot(d) = ClientSlot(c)
              /\ cmd[d].req = cmd[c].req
        /\ answer[c].kind \in {"refused", "needKey", "keyReused", "retry"} =>
              c \notin effects

\* A retry of a command that had committed before the retry arrived is answered
\* with that command's result, whatever the canonical row has become since; the
\* same key under another request is always a 409 (peekReplay's comment).
RetryIsReplayed ==
    \A c \in Calls : pc[c] = "done" /\ retryOf[c] # Nobody =>
        answer[c] = IF cmd[retryOf[c]].req = cmd[c].req
                    THEN [kind |-> "replayed", ref |-> retryOf[c]]
                    ELSE [kind |-> "keyReused", ref |-> Nobody]

\* "The mutation itself threw ... Propagate the original error, never mask it":
\* a call whose mutation raised an error is not told that its KEY is in use.
MutationErrorNotMasked ==
    \A c \in clash : answer[c].kind # "retry"

\* Every call that arrives is answered or loses its connection: nobody waits
\* for ever on the reservation of a transaction that is gone.
EveryCallEnds == \A c \in Calls : (pc[c] # "idle") ~> (pc[c] \in Over)

\* The kernel implements "performed at most once, told only what was done".
\* The slot of a call is fixed by what it sends.
SentSlot(c) ==
    CASE cmd[c].key \in Keys -> ClientSlot(c)
      [] cmd[c].key = NoKey /\ cmd[c].synth -> <<cmd[c].owner, SrvKey(c)>>
      [] OTHER -> <<cmd[c].owner, NoKey>>

Abs == INSTANCE IdempotentCommands WITH
    slotOf <- [c \in Calls |-> SentSlot(c)],
    performed <- receipts,
    told <- [c \in Calls |-> answer[c].ref]

IdempotentSpec == Abs!AbsSpec
=============================================================================

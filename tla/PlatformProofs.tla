----------------------------- MODULE PlatformProofs --------------------------
(***************************************************************************)
(* Safety of the platform's protocols, for every value of their constants: *)
(* the command kernel, the client's hold on a project create that the      *)
(* kernel's receipts answer, and the lease and generation fence of the     *)
(* processes that run it.                                                  *)
(***************************************************************************)
EXTENDS CommandLedger, CreateHold, Fleet, SequenceTheorems, TLAPS

-----------------------------------------------------------------------------
(* The command kernel.  AtMostOncePerKey is not inductive: nothing in it   *)
(* says why the second call cannot commit.  LedgerInv adds the two facts   *)
(* that do: the reservation row of a key belongs to exactly one open       *)
(* transaction, and a key that is reserved has no committed receipt.       *)

KeyChosen == {"fastpath", "reserve", "mutate", "commit", "reread", "respond"}
BeforeKey == {"idle", "peek", "validate", "gate"}

\* The key a call works under is the one it sent, once it has one.
KeyInv ==
    \A c \in Calls :
        /\ pc[c] \in BeforeKey => ledgerKey[c] = NoKey
        /\ pc[c] \in KeyChosen /\ cmd[c].key \in Keys => ledgerKey[c] = cmd[c].key
        /\ pc[c] \in {"fastpath", "reserve", "reread"} => HasSlot(c)
        /\ c \in effects /\ cmd[c].key \in Keys => ledgerKey[c] = cmd[c].key

\* A reservation is a row of one open transaction, and its key has no receipt.
ReservationInv ==
    /\ \A s \in Slots : reserved[s] # Nobody =>
           /\ pc[reserved[s]] \in InTx
           /\ HasSlot(reserved[s])
           /\ Slot(reserved[s]) = s
           /\ receipts[s] = Nobody
    /\ \A c \in Calls : pc[c] \in InTx /\ HasSlot(c) => reserved[Slot(c)] = c

\* Only a call whose transaction committed has an effect.
EffectInv == \A c \in effects : pc[c] \in {"respond", "done", "lost"}

LedgerInv == TypeOK /\ KeyInv /\ ReservationInv /\ EffectInv /\ ReceiptsAreEffects
-----------------------------------------------------------------------------
\* A call that has a key has its slot in the ledger (receiptWhere).
LEMMA SlotInSlots ==
    ASSUME TypeOK, NEW c \in Calls, HasSlot(c)
    PROVE  Slot(c) \in Slots
  <1>1. cmd[c] \in Command
    BY LedgerAssumption DEF LedgerAssumption, TypeOK
  <1>2. cmd[c].owner \in Owners /\ ledgerKey[c] \in Keys \cup SrvKeys
    BY <1>1 DEF TypeOK, Command, HasSlot
  <1> QED BY <1>2 DEF Slot, Slots

\* TypeOK is kept by every step of a call.
LEMMA TypeStep ==
    ASSUME TypeOK, KeyInv, [Next]_vars
    PROVE  TypeOK'
  <1> USE LedgerAssumption DEF TypeOK, PCs, AnswerKinds, Answer, NoAnswer
  <1>1. CASE Enforce
    BY <1>1 DEF Enforce
  <1>2. ASSUME NEW c \in Calls, Submit(c)
        PROVE  TypeOK'
    <2>1. cmd[c] \in Command
      BY DEF LedgerAssumption
    <2>2. cmd[c].key \in Keys => ClientSlot(c) \in Slots
      BY <2>1 DEF Command, ClientSlot, Slots
    <2>3. retryOf' \in [Calls -> Calls \cup {Nobody}]
      BY <1>2, <2>2 DEF Submit
    <2>4. pc' \in [Calls -> PCs]
      BY <1>2 DEF Submit, Goto
    <2> QED BY <1>2, <2>3, <2>4 DEF Submit
  <1>3. ASSUME NEW c \in Calls, NEW d \in Calls, FromReceipt(c, d)
        PROVE  /\ pc' \in [Calls -> PCs]
               /\ answer' \in [Calls -> Answer]
    BY <1>3 DEF FromReceipt, Tell, Goto
  <1>4. ASSUME NEW c \in Calls, PeekReplay(c)
        PROVE  TypeOK'
    <2>1. cmd[c] \in Command
      BY DEF LedgerAssumption
    <2>2. cmd[c].key \in Keys => ClientSlot(c) \in Slots
      BY <2>1 DEF Command, ClientSlot, Slots
    <2>3. CASE cmd[c].key \in Keys /\ receipts[ClientSlot(c)] # Nobody
      BY <1>3, <1>4, <2>2, <2>3 DEF PeekReplay
    <2>4. CASE ~(cmd[c].key \in Keys /\ receipts[ClientSlot(c)] # Nobody)
      BY <1>4, <2>4 DEF PeekReplay, Goto
    <2> QED BY <2>3, <2>4
  <1>5. ASSUME NEW c \in Calls, Validate(c)
        PROVE  TypeOK'
    BY <1>5 DEF Validate, Tell, Goto
  <1>6. ASSUME NEW c \in Calls, Gate(c)
        PROVE  TypeOK'
    <2>1. SrvKey(c) \in SrvKeys /\ cmd[c].key \in Keys \cup {NoKey}
      BY DEF LedgerAssumption, SrvKeys, Command
    <2>2. ledgerKey' \in [Calls -> Keys \cup SrvKeys \cup {NoKey}]
      BY <1>6, <2>1 DEF Gate
    <2>3. pc' \in [Calls -> PCs] /\ answer' \in [Calls -> Answer]
      BY <1>6 DEF Gate, Tell, Goto
    <2> QED BY <1>6, <2>2, <2>3 DEF Gate
  <1>7. ASSUME NEW c \in Calls, FastPath(c) \/ Reread(c)
        PROVE  TypeOK'
    <2>1. Slot(c) \in Slots
      BY <1>7, SlotInSlots DEF FastPath, Reread, KeyInv
    <2>2. CASE receipts[Slot(c)] # Nobody
      BY <1>3, <1>7, <2>1, <2>2 DEF FastPath, Reread
    <2>3. CASE receipts[Slot(c)] = Nobody
      BY <1>7, <2>3 DEF FastPath, Reread, Tell, Goto
    <2> QED BY <2>2, <2>3
  <1>8. ASSUME NEW c \in Calls, Reserve(c)
        PROVE  TypeOK'
    <2>1. Slot(c) \in Slots
      BY <1>8, SlotInSlots DEF Reserve, KeyInv
    <2> QED BY <1>8, <2>1 DEF Reserve, Goto
  <1>9. ASSUME NEW c \in Calls, EndTransaction(c)
        PROVE  /\ reserved' \in [Slots -> Calls \cup {Nobody}]
               /\ rowLock' \in [OneShot -> Calls \cup {Nobody}]
    BY <1>9 DEF EndTransaction, ReleaseReservation, ReleaseRowLock
  <1>10. ASSUME NEW c \in Calls, Mutate(c)
         PROVE  TypeOK'
    BY <1>10 DEF Mutate, Goto
  <1>11. ASSUME NEW c \in Calls, MutationRefused(c) \/ MutationClash(c)
         PROVE  TypeOK'
    <2>1. CASE MutationRefused(c)
      BY <1>9, <2>1 DEF MutationRefused, Tell, Goto
    <2>2. CASE MutationClash(c)
      <3>1. CASE HasSlot(c)
        BY <1>9, <2>2, <3>1 DEF MutationClash, Goto
      <3>2. CASE ~HasSlot(c)
        <4>1. /\ answer' = [answer EXCEPT ![c] = [kind |-> "refused", ref |-> Nobody]]
              /\ pc' = [pc EXCEPT ![c] = "done"]
          BY <2>2, <3>2 DEF MutationClash, Tell, Goto
        <4>2. /\ EndTransaction(c)
              /\ clash' = clash \cup {c}
              /\ UNCHANGED <<cmd, enforced, ledgerKey, receipts, effects, retryOf>>
          BY <2>2 DEF MutationClash
        <4> QED BY <1>9, <4>1, <4>2
      <3> QED BY <3>1, <3>2
    <2> QED BY <1>11, <2>1, <2>2
  <1>12. ASSUME NEW c \in Calls, Commit(c)
         PROVE  TypeOK'
    <2>1. HasSlot(c) => Slot(c) \in Slots
      BY SlotInSlots
    <2> QED BY <1>9, <1>12, <2>1 DEF Commit, Goto
  <1>13. ASSUME NEW c \in Calls, Respond(c)
         PROVE  TypeOK'
    BY <1>13 DEF Respond, Tell, Goto
  <1>14. ASSUME NEW c \in Calls, Crash(c)
         PROVE  TypeOK'
    BY <1>9, <1>14 DEF Crash, Goto
  <1>15. CASE UNCHANGED vars
    BY <1>15 DEF vars
  <1> QED
    BY <1>1, <1>2, <1>4, <1>5, <1>6, <1>7, <1>8, <1>10, <1>11, <1>12, <1>13,
       <1>14, <1>15 DEF Next, Process, Finished

\* The moves of one call leave the place and the key of the others alone.
LEMMA OthersStand ==
    ASSUME TypeOK, NEW c \in Calls, Submit(c) \/ Process(c) \/ Crash(c)
    PROVE  \A d \in Calls \ {c} : pc'[d] = pc[d] /\ ledgerKey'[d] = ledgerKey[d]
  BY DEF TypeOK, Process, Submit, PeekReplay, Validate, Gate, FastPath, Reserve,
         Mutate, MutationRefused, MutationClash, Commit, Reread, Respond, Crash,
         Goto, Tell, FromReceipt

\* Nothing changes what a caller sent.
LEMMA CommandsFixed ==
    ASSUME [Next]_vars
    PROVE  cmd' = cmd
  BY DEF Next, vars, Finished, Enforce, Process, Submit, PeekReplay, Validate,
         Gate, FastPath, Reserve, Mutate, MutationRefused, MutationClash, Commit,
         Reread, Respond, Crash
-----------------------------------------------------------------------------
\* KeyInv is kept: Gate picks the key, and no later step touches it.
LEMMA KeyStep ==
    ASSUME TypeOK, KeyInv, EffectInv, [Next]_vars
    PROVE  KeyInv'
  <1> USE DEF HasSlot, BeforeKey, KeyChosen
  <1>0. cmd' = cmd
    BY CommandsFixed
  <1>1. CASE Enforce \/ UNCHANGED vars
    BY <1>1 DEF Enforce, vars, KeyInv
  <1>2. ASSUME NEW c \in Calls, Submit(c) \/ Process(c) \/ Crash(c),
               NEW d \in Calls, d # c
        PROVE  /\ pc'[d] = pc[d]
               /\ ledgerKey'[d] = ledgerKey[d]
               /\ d \in effects' => d \in effects
    <2>1. effects' \subseteq effects \cup {c}
      BY <1>2 DEF Process, Submit, PeekReplay, Validate, Gate, FastPath, Reserve,
                  Mutate, MutationRefused, MutationClash, Commit, Reread,
                  Respond, Crash
    <2> QED BY <1>2, <2>1, OthersStand
  <1>3. ASSUME NEW c \in Calls, Gate(c)
        PROVE  KeyInv'
    <2>1. SrvKey(c) \in SrvKeys /\ cmd[c].key \in Keys \cup {NoKey}
      BY LedgerAssumption DEF LedgerAssumption, SrvKeys, Command, TypeOK
    <2>2. c \notin effects' /\ pc[c] = "gate"
      BY <1>3 DEF Gate, EffectInv
    <2>3. /\ pc'[c] \in {"done", "mutate", "fastpath"}
          /\ pc'[c] \in KeyChosen /\ cmd[c].key \in Keys =>
                ledgerKey'[c] = cmd[c].key
          /\ pc'[c] = "fastpath" => ledgerKey'[c] # NoKey
      BY <1>3, <2>1, LedgerAssumption
         DEF Gate, Goto, Tell, TypeOK, LedgerAssumption
    <2>4. Process(c)
      BY <1>3 DEF Process
    <2> QED BY <1>0, <1>2, <2>2, <2>3, <2>4 DEF KeyInv
  <1>4. ASSUME NEW c \in Calls, Submit(c) \/ Process(c) \/ Crash(c), ~Gate(c)
        PROVE  KeyInv'
    <2>1. /\ ledgerKey'[c] = ledgerKey[c]
          /\ pc'[c] \in BeforeKey => pc[c] \in BeforeKey
          /\ pc'[c] \in KeyChosen => pc[c] \in KeyChosen
          /\ pc'[c] \in {"reserve", "reread"} => HasSlot(c)
          /\ pc'[c] # "fastpath"
          /\ c \in effects' => c \in effects \/ pc[c] = "commit"
      BY <1>4 DEF TypeOK, KeyInv, Process, Submit, PeekReplay, Validate, FastPath,
                  Reserve, Mutate, MutationRefused, MutationClash, Commit,
                  Reread, Respond, Crash, Goto, Tell, FromReceipt
    <2> QED BY <1>0, <1>2, <1>4, <2>1 DEF KeyInv
  <1> QED BY <1>1, <1>3, <1>4 DEF Next, Finished

\* EffectInv is kept: Commit adds the call, which then only responds or is lost.
LEMMA EffectStep ==
    ASSUME TypeOK, EffectInv, [Next]_vars
    PROVE  EffectInv'
  <1>1. CASE Enforce \/ UNCHANGED vars
    BY <1>1 DEF Enforce, vars, EffectInv
  <1>2. ASSUME NEW c \in Calls, Submit(c) \/ Process(c) \/ Crash(c)
        PROVE  EffectInv'
    <2>1. /\ effects' \subseteq effects \cup {c}
          /\ c \in effects' => pc'[c] \in {"respond", "done", "lost"}
      BY <1>2 DEF TypeOK, EffectInv, Process, Submit, PeekReplay, Validate, Gate,
                  FastPath, Reserve, Mutate, MutationRefused, MutationClash,
                  Commit, Reread, Respond, Crash, Goto, Tell, FromReceipt
    <2> QED BY <1>2, <2>1, OthersStand DEF EffectInv, TypeOK
  <1> QED BY <1>1, <1>2 DEF Next, Finished
-----------------------------------------------------------------------------
\* A call that did not go through Gate keeps its slot.
LEMMA SlotsStand ==
    ASSUME TypeOK, NEW c \in Calls, Submit(c) \/ Process(c) \/ Crash(c)
    PROVE  \A d \in Calls : d # c \/ ~Gate(c) =>
               Slot(d)' = Slot(d) /\ HasSlot(d)' = HasSlot(d)
  <1>1. cmd' = cmd
    BY CommandsFixed DEF Next
  <1>2. ~Gate(c) => ledgerKey' = ledgerKey
    BY DEF Process, Submit, PeekReplay, Validate, FastPath, Reserve, Mutate,
           MutationRefused, MutationClash, Commit, Reread, Respond, Crash
  <1> QED BY <1>1, <1>2, OthersStand DEF Slot, HasSlot

\* ReservationInv is kept: the reservation appears with Reserve, when nobody
\* holds one and no receipt stands, and goes with its transaction.
LEMMA ReservationStep ==
    ASSUME TypeOK, KeyInv, ReservationInv, [Next]_vars
    PROVE  ReservationInv'
  <1> USE LedgerAssumption DEF LedgerAssumption, InTx
  <1>0. cmd' = cmd
    BY CommandsFixed
  <1>1. CASE Enforce \/ UNCHANGED vars
    BY <1>1 DEF Enforce, vars, ReservationInv, Slot, HasSlot
  <1>2. ASSUME NEW c \in Calls,
               Submit(c) \/ PeekReplay(c) \/ Validate(c) \/ FastPath(c)
                 \/ Reread(c) \/ Respond(c)
        PROVE  ReservationInv'
    <2>1. /\ reserved' = reserved /\ receipts' = receipts
          /\ pc[c] \notin InTx /\ pc'[c] \notin InTx
          /\ ~Gate(c)
      BY <1>2 DEF TypeOK, Submit, PeekReplay, Validate, FastPath, Reread, Respond,
                  Goto, Tell, FromReceipt, Gate
    <2> QED BY <1>2, <2>1, OthersStand, SlotsStand
            DEF ReservationInv, Process, TypeOK
  <1>3. ASSUME NEW c \in Calls, Gate(c)
        PROVE  ReservationInv'
    <2>1. /\ reserved' = reserved /\ receipts' = receipts
          /\ pc[c] \notin InTx
          /\ pc'[c] \in InTx => ~HasSlot(c)'
          /\ Process(c)
      BY <1>3 DEF TypeOK, Gate, Goto, Tell, KeyInv, BeforeKey, HasSlot, Process
    <2> QED BY <1>3, <2>1, OthersStand, SlotsStand DEF ReservationInv, TypeOK
  <1>4. ASSUME NEW c \in Calls, Reserve(c)
        PROVE  ReservationInv'
    <2>1. /\ Slot(c) \in Slots /\ HasSlot(c) /\ Process(c) /\ ~Gate(c)
          /\ pc[c] = "reserve" /\ receipts' = receipts
      BY <1>4, SlotInSlots DEF Reserve, KeyInv, Process, Gate
    <2>2. /\ \A d \in Calls : d # c => pc'[d] = pc[d]
          /\ \A d \in Calls : Slot(d)' = Slot(d) /\ HasSlot(d)' = HasSlot(d)
      BY <2>1, OthersStand, SlotsStand
    <2>3. CASE receipts[Slot(c)] = Nobody
      <3>1. /\ reserved[Slot(c)] = Nobody
            /\ reserved' = [reserved EXCEPT ![Slot(c)] = c]
            /\ pc'[c] = "mutate"
        BY <1>4, <2>3 DEF Reserve, Goto, TypeOK
      <3>2. \A s \in Slots : reserved'[s] = IF s = Slot(c) THEN c ELSE reserved[s]
        BY <3>1 DEF TypeOK
      <3> HIDE DEF Slot, HasSlot
      <3> QED BY <2>1, <2>2, <2>3, <3>1, <3>2, SlotInSlots DEF ReservationInv, TypeOK
    <2>4. CASE receipts[Slot(c)] # Nobody
      BY <1>4, <2>1, <2>2, <2>4 DEF Reserve, Goto, TypeOK, ReservationInv
    <2> QED BY <2>3, <2>4
  <1>5. ASSUME NEW c \in Calls, Mutate(c)
        PROVE  ReservationInv'
    <2>1. /\ Process(c) /\ ~Gate(c)
          /\ reserved' = reserved /\ receipts' = receipts
          /\ pc[c] = "mutate" /\ pc'[c] = "commit"
      BY <1>5 DEF Mutate, Process, Gate, Goto, TypeOK
    <2> QED BY <2>1, OthersStand, SlotsStand DEF ReservationInv, TypeOK
  <1>6. ASSUME NEW c \in Calls,
               MutationRefused(c) \/ MutationClash(c) \/ Commit(c) \/ Crash(c)
        PROVE  ReservationInv'
    <2>1. /\ Process(c) \/ Crash(c)
          /\ ~Gate(c)
          /\ pc'[c] \notin InTx
          /\ reserved' = [s \in Slots |-> IF reserved[s] = c THEN Nobody
                                          ELSE reserved[s]]
      BY <1>6 DEF MutationRefused, MutationClash, Commit, Crash, Process, Gate,
                  Goto, Tell, TypeOK, EndTransaction, ReleaseReservation
    <2>2. /\ \A d \in Calls : d # c => pc'[d] = pc[d]
          /\ \A d \in Calls : Slot(d)' = Slot(d) /\ HasSlot(d)' = HasSlot(d)
      BY <2>1, OthersStand, SlotsStand
    <2>3. \A s \in Slots : receipts'[s] # receipts[s] => reserved[s] = c
      <3>1. CASE Commit(c) /\ HasSlot(c)
        <4>1. reserved[Slot(c)] = c /\ Slot(c) \in Slots
          BY <3>1, SlotInSlots DEF Commit, ReservationInv
        <4> QED BY <3>1, <4>1 DEF Commit, TypeOK
      <3>2. CASE ~(Commit(c) /\ HasSlot(c))
        BY <1>6, <3>2 DEF MutationRefused, MutationClash, Commit, Crash
      <3> QED BY <3>1, <3>2
    <2>4. \A d \in Calls : HasSlot(d) => Slot(d) \in Slots
      BY SlotInSlots
    <2>5. \A s \in Slots : reserved'[s] # Nobody =>
              /\ reserved'[s] = reserved[s] /\ reserved[s] # c
              /\ receipts'[s] = receipts[s]
      BY <2>1, <2>3
    <2>6. \A s \in Slots : reserved[s] \in Calls \cup {Nobody}
      BY DEF TypeOK
    <2>7. ledgerKey' = ledgerKey /\ cmd' = cmd
      BY <1>0, <1>6 DEF MutationRefused, MutationClash, Commit, Crash
    <2>8. ASSUME NEW s \in Slots, reserved'[s] # Nobody
          PROVE  /\ pc'[reserved'[s]] \in InTx
                 /\ ledgerKey'[reserved'[s]] # NoKey
                 /\ <<cmd'[reserved'[s]].owner, ledgerKey'[reserved'[s]]>> = s
                 /\ receipts'[s] = Nobody
      BY <2>2, <2>5, <2>6, <2>7, <2>8 DEF ReservationInv, Slot, HasSlot
    <2>9. \A d \in Calls : pc'[d] \in InTx /\ HasSlot(d)' => reserved'[Slot(d)'] = d
      BY <2>1, <2>2, <2>4 DEF ReservationInv
    <2> QED BY <2>8, <2>9 DEF ReservationInv, Slot, HasSlot
  <1> QED BY <1>1, <1>2, <1>3, <1>4, <1>5, <1>6 DEF Next, Process, Finished
-----------------------------------------------------------------------------
\* ReceiptsAreEffects is kept: Commit writes the receipt and the mutation in one
\* step, under a reservation that says the key has no receipt yet.
LEMMA ReceiptStep ==
    ASSUME TypeOK, KeyInv, ReservationInv, EffectInv, ReceiptsAreEffects, [Next]_vars
    PROVE  ReceiptsAreEffects'
  <1> USE LedgerAssumption DEF LedgerAssumption
  <1>1. CASE Enforce \/ UNCHANGED vars
    BY <1>1 DEF Enforce, vars, ReceiptsAreEffects, Slot, HasSlot
  <1>2. ASSUME NEW c \in Calls, Submit(c) \/ Process(c) \/ Crash(c), ~Commit(c)
        PROVE  ReceiptsAreEffects'
    <2>1. receipts' = receipts /\ effects' = effects /\ cmd' = cmd
      BY <1>2, CommandsFixed
         DEF Process, Submit, PeekReplay, Validate, Gate, FastPath, Reserve,
             Mutate, MutationRefused, MutationClash, Reread, Respond, Crash, Next
    <2>2. \A d \in effects : ledgerKey'[d] = ledgerKey[d]
      <3>1. CASE Gate(c)
        BY <1>2, <3>1, OthersStand DEF Gate, EffectInv, TypeOK
      <3>2. CASE ~Gate(c)
        BY <1>2, <3>2 DEF Process, Submit, PeekReplay, Validate, FastPath, Reserve,
                          Mutate, MutationRefused, MutationClash, Reread, Respond,
                          Crash
      <3> QED BY <3>1, <3>2
    <2> QED BY <2>1, <2>2 DEF ReceiptsAreEffects, Slot, HasSlot
  <1>3. ASSUME NEW c \in Calls, Commit(c)
        PROVE  ReceiptsAreEffects'
    <2>1. /\ ledgerKey' = ledgerKey /\ cmd' = cmd /\ effects' = effects \cup {c}
          /\ pc[c] = "commit"
      BY <1>3 DEF Commit
    <2>2. CASE HasSlot(c)
      <3>1. /\ Slot(c) \in Slots /\ receipts[Slot(c)] = Nobody
        BY <2>1, <2>2, SlotInSlots DEF ReservationInv, InTx
      <3>2. \A s \in Slots : receipts'[s] = IF s = Slot(c) THEN c ELSE receipts[s]
        BY <1>3, <2>2, <3>1 DEF Commit, TypeOK
      <3>3. \A d \in effects : HasSlot(d) => Slot(d) \in Slots /\ Slot(d) # Slot(c)
        BY <3>1, SlotInSlots DEF ReceiptsAreEffects, TypeOK
      <3>4. \A d \in Calls : Slot(d)' = Slot(d) /\ HasSlot(d)' = HasSlot(d)
        BY <2>1 DEF Slot, HasSlot
      <3>5. \A d \in effects' : HasSlot(d)' => receipts'[Slot(d)'] = d
        BY <2>1, <3>1, <3>2, <3>3, <3>4 DEF ReceiptsAreEffects, TypeOK
      <3>6. ASSUME NEW s \in Slots, receipts'[s] # Nobody
            PROVE  receipts'[s] \in effects' /\ Slot(receipts[s])' = s
        BY <2>1, <3>2, <3>6 DEF ReceiptsAreEffects, Slot
      <3> QED BY <3>5, <3>6 DEF ReceiptsAreEffects
    <2>3. CASE ~HasSlot(c)
      <3>1. receipts' = receipts
        BY <1>3, <2>3 DEF Commit
      <3> QED BY <2>1, <2>3, <3>1 DEF ReceiptsAreEffects, Slot, HasSlot
    <2> QED BY <2>2, <2>3
  <1> QED BY <1>1, <1>2, <1>3 DEF Next, Finished
-----------------------------------------------------------------------------
\* LedgerInv holds at the start.
LEMMA LedgerInit == Init => LedgerInv
  <1> SUFFICES ASSUME Init PROVE LedgerInv
    OBVIOUS
  <1> USE LedgerAssumption
      DEF LedgerAssumption, Init, NoAnswer, Answer, AnswerKinds, PCs, InTx,
          BeforeKey, KeyChosen
  <1>1. TypeOK
    BY DEF TypeOK
  <1>2. KeyInv /\ EffectInv
    BY DEF KeyInv, EffectInv
  <1>3. ReservationInv /\ ReceiptsAreEffects
    BY DEF ReservationInv, ReceiptsAreEffects
  <1> QED BY <1>1, <1>2, <1>3 DEF LedgerInv

\* LedgerInv holds in every reachable state of the kernel.
THEOREM LedgerInvariant == Spec => []LedgerInv
  <1>1. LedgerInv /\ [Next]_vars => LedgerInv'
    BY TypeStep, KeyStep, ReservationStep, EffectStep, ReceiptStep DEF LedgerInv
  <1> QED BY LedgerInit, <1>1, PTL DEF Spec

\* The kernel's variables stay in their types (commands.ts).
THEOREM LedgerTypeCorrect == Spec => []TypeOK
  BY LedgerInvariant, PTL DEF LedgerInv

\* The mutation and its receipt are committed together or not at all.
THEOREM LedgerAtomic == Spec => []ReceiptsAreEffects
  BY LedgerInvariant, PTL DEF LedgerInv

\* executeCommand's promise: no key's act takes place twice.
THEOREM ExecutedAtMostOnce == Spec => []AtMostOncePerKey
  <1>1. LedgerInv => AtMostOncePerKey
    <2> SUFFICES ASSUME LedgerInv, NEW c \in effects, NEW d \in effects,
                        cmd[c].key \in Keys, ClientSlot(c) = ClientSlot(d)
                 PROVE  c = d
      BY DEF AtMostOncePerKey
    <2>1. cmd[d].key = cmd[c].key
      BY DEF ClientSlot
    <2>2. /\ Slot(c) = ClientSlot(c) /\ HasSlot(c)
          /\ Slot(d) = ClientSlot(d) /\ HasSlot(d)
      BY <2>1, LedgerAssumption
         DEF LedgerAssumption, LedgerInv, KeyInv, TypeOK, Slot, ClientSlot, HasSlot
    <2> QED BY <2>2 DEF LedgerInv, ReceiptsAreEffects
  <1> QED BY <1>1, LedgerInvariant, PTL

\* The three together, as the runs check them.
THEOREM LedgerHolds == Spec => []LedgerIsSound
  BY LedgerTypeCorrect, LedgerAtomic, ExecutedAtMostOnce, PTL DEF LedgerIsSound

-----------------------------------------------------------------------------
\* Once a call has its key, it works for the slot that what it sent names.
SlotInv == \A c \in Calls : pc[c] \in KeyChosen \/ c \in effects => Slot(c) = SentSlot(c)

\* A canonical row that can be written once is locked by the one transaction
\* that wrote it, and nobody's committed write is below it.
RowInv ==
    \A c \in Calls : pc[c] = "commit" /\ cmd[c].req \in OneShot =>
        rowLock[cmd[c].req] = c /\ ~Applied(cmd[c].req)

\* A call has its answer when it is done, and not before: its own result if it
\* executed, or that of another call of its slot and request.
ToldInv ==
    \A c \in Calls :
        /\ pc[c] = "respond" => c \in effects
        /\ pc[c] # "done" => answer[c] = NoAnswer
        /\ pc[c] = "done" /\ c \in effects => answer[c].kind = "executed"
        /\ answer[c].kind = "executed" => c \in effects
        /\ answer[c].kind = "replayed" =>
              LET d == answer[c].ref IN
              /\ d \in effects \ {c}
              /\ ClientSlot(d) = ClientSlot(c)
              /\ cmd[d].req = cmd[c].req

\* A call whose key was answered for when it arrived never gets to write.
RetryInv ==
    \A c \in Calls : retryOf[c] # Nobody =>
        /\ cmd[c].key \in Keys
        /\ receipts[ClientSlot(c)] = retryOf[c]
        /\ pc[c] \in {"peek", "gate", "fastpath", "done", "lost"}

AnswerInv == LedgerInv /\ SlotInv /\ RowInv /\ OneShotOnce /\ ToldInv /\ RetryInv /\ RetryIsReplayed
-----------------------------------------------------------------------------
\* Calls of one ledger slot are the same call or carry the same client key: a
\* key that the server made up is one call's alone.
LEMMA OneSlotOneKey ==
    ASSUME TypeOK, NEW c \in Calls, NEW d \in Calls, c # d,
           SentSlot(c) = SentSlot(d), SentSlot(c) \in Slots
    PROVE  cmd[c].key \in Keys /\ ClientSlot(d) = ClientSlot(c)
  <1>1. cmd[c] \in Command /\ cmd[d] \in Command
    BY LedgerAssumption DEF LedgerAssumption, TypeOK
  <1>2. NoKey \notin Keys \cup SrvKeys /\ Keys \cap SrvKeys = {} /\ SrvKey(c) \in SrvKeys /\ SrvKey(d) \in SrvKeys
    BY LedgerAssumption DEF LedgerAssumption, SrvKeys
  <1>3. SrvKey(c) # SrvKey(d)
    BY DEF SrvKey
  <1>4. <<cmd[c].owner, NoKey>> \notin Slots
    BY <1>2 DEF Slots
  <1> HIDE DEF SrvKey
  <1> QED BY <1>1, <1>2, <1>3, <1>4 DEF SentSlot, ClientSlot, Command

\* A receipt, once committed, stands: the transaction that writes one holds the
\* reservation of a slot without any.
LEMMA ReceiptsStand ==
    ASSUME TypeOK, ReservationInv, [Next]_vars, NEW s \in Slots, receipts[s] # Nobody
    PROVE  receipts'[s] = receipts[s]
  <1>1. CASE \E c \in Calls : Commit(c)
    <2>1. PICK c \in Calls : Commit(c)
      BY <1>1
    <2>2. HasSlot(c) => Slot(c) # s
      BY <2>1, SlotInSlots, LedgerAssumption DEF ReservationInv, InTx, Commit, LedgerAssumption
    <2> QED BY <2>1, <2>2 DEF Commit, TypeOK
  <1>2. CASE ~\E c \in Calls : Commit(c)
    BY <1>2 DEF Next, vars, Finished, Enforce, Process, Submit, PeekReplay, Validate, Gate,
                FastPath, Reserve, Mutate, MutationRefused, MutationClash, Reread, Respond, Crash
  <1> QED BY <1>1, <1>2

\* SlotInv is kept: Gate picks the key of the slot.
LEMMA SlotStep ==
    ASSUME TypeOK, KeyInv, EffectInv, SlotInv, [Next]_vars
    PROVE  SlotInv'
  <1>0. cmd' = cmd /\ \A c \in Calls : SentSlot(c)' = SentSlot(c)
    BY CommandsFixed DEF SentSlot, ClientSlot
  <1>1. CASE Enforce \/ UNCHANGED vars
    BY <1>0, <1>1 DEF Enforce, vars, SlotInv, Slot
  <1>2. ASSUME NEW c \in Calls, Submit(c) \/ Process(c) \/ Crash(c)
        PROVE  SlotInv'
    <2>1. effects' \subseteq effects \cup {c} /\ (c \in effects' => c \in effects \/ pc[c] = "commit")
      BY <1>2 DEF Process, Submit, PeekReplay, Validate, Gate, FastPath, Reserve,
                  Mutate, MutationRefused, MutationClash, Commit, Reread, Respond, Crash
    <2>2. CASE Gate(c)
      <3>1. cmd[c].key \in Keys \cup {NoKey} /\ NoKey \notin Keys
        BY LedgerAssumption DEF LedgerAssumption, Command, TypeOK
      <3>2. ledgerKey[c] = NoKey /\ c \notin effects'
        BY <2>2 DEF KeyInv, BeforeKey, Gate, EffectInv
      <3>3. pc'[c] \in KeyChosen => <<cmd[c].owner, ledgerKey'[c]>> = SentSlot(c)
        BY <2>2, <3>1, <3>2 DEF Gate, Goto, Tell, TypeOK, KeyChosen, SentSlot, ClientSlot
      <3>4. \A d \in Calls \ {c} : pc'[d] = pc[d] /\ Slot(d)' = Slot(d)
        BY <1>2, OthersStand, SlotsStand
      <3> QED BY <1>0, <2>1, <3>2, <3>3, <3>4 DEF SlotInv, Slot
    <2>3. CASE ~Gate(c)
      <3>1. \A d \in Calls : Slot(d)' = Slot(d)
        BY <1>2, <2>3, SlotsStand
      <3>2. pc'[c] \in KeyChosen => pc[c] \in KeyChosen
        BY <1>2, <2>3 DEF TypeOK, KeyChosen, Process, Submit, PeekReplay, Validate, FastPath,
                  Reserve, Mutate, MutationRefused, MutationClash, Commit, Reread,
                  Respond, Crash, Goto, Tell, FromReceipt
      <3> QED BY <1>0, <1>2, <2>1, <3>1, <3>2, OthersStand DEF SlotInv, KeyChosen
    <2> QED BY <2>2, <2>3
  <1> QED BY <1>1, <1>2 DEF Next, Finished

\* OneShotOnce is kept with RowInv: only the holder of the row's lock commits
\* its write, and it took the lock over a row not yet written.
LEMMA RowStep ==
    ASSUME TypeOK, EffectInv, RowInv, OneShotOnce, [Next]_vars
    PROVE  RowInv' /\ OneShotOnce'
  <1>0. cmd' = cmd
    BY CommandsFixed
  <1>1. CASE Enforce \/ UNCHANGED vars
    BY <1>0, <1>1 DEF Enforce, vars, RowInv, OneShotOnce, Applied
  <1>2. ASSUME NEW c \in Calls, Submit(c) \/ Process(c) \/ Crash(c), ~Mutate(c), ~Commit(c)
        PROVE  RowInv' /\ OneShotOnce'
    <2>1. effects' = effects /\ pc'[c] # "commit" /\ \A d \in Calls \ {c} : pc'[d] = pc[d]
      BY <1>2, OthersStand DEF TypeOK, Process, Submit, PeekReplay, Validate, Gate, FastPath, Reserve,
                  MutationRefused, MutationClash, Reread, Respond, Crash, Goto, Tell, FromReceipt
    <2>2. \A r \in OneShot : rowLock[r] # c => rowLock'[r] = rowLock[r]
      BY <1>2 DEF Process, Submit, PeekReplay, Validate, Gate, FastPath, Reserve, TypeOK,
                  MutationRefused, MutationClash, Reread, Respond, Crash, EndTransaction, ReleaseRowLock
    <2> QED BY <1>0, <2>1, <2>2 DEF RowInv, OneShotOnce, Applied
  <1>3. ASSUME NEW c \in Calls, Mutate(c)
        PROVE  RowInv' /\ OneShotOnce'
    <2>1. /\ effects' = effects
          /\ \A d \in Calls \ {c} : pc'[d] = pc[d]
          /\ \A r \in OneShot : rowLock'[r] = IF r = cmd[c].req THEN c ELSE rowLock[r]
          /\ cmd[c].req \in OneShot => rowLock[cmd[c].req] = Nobody /\ ~Applied(cmd[c].req)
      BY <1>3, OthersStand DEF Process, Mutate, RowFree, CanWrite
    <2> QED BY <1>0, <2>1, LedgerAssumption DEF RowInv, OneShotOnce, Applied, LedgerAssumption
  <1>4. ASSUME NEW c \in Calls, Commit(c)
        PROVE  RowInv' /\ OneShotOnce'
    <2>1. /\ effects' = effects \cup {c} /\ pc[c] = "commit" /\ pc'[c] = "respond"
          /\ \A d \in Calls \ {c} : pc'[d] = pc[d]
          /\ \A r \in OneShot : rowLock[r] # c => rowLock'[r] = rowLock[r]
      BY <1>4, OthersStand DEF Process, Commit, EndTransaction, ReleaseRowLock, Goto, TypeOK
    <2>2. cmd[c].req \in OneShot => rowLock[cmd[c].req] = c /\ \A d \in effects : cmd[d].req # cmd[c].req
      BY <2>1 DEF RowInv, Applied
    <2> QED BY <1>0, <2>1, <2>2 DEF RowInv, OneShotOnce, Applied
  <1> QED BY <1>1, <1>2, <1>3, <1>4 DEF Next, Finished, Process

\* A receipt that answers a call is another call's, with the call's own key.
LEMMA ReceiptAnswers ==
    ASSUME TypeOK, KeyInv, EffectInv, ReceiptsAreEffects, SlotInv, NEW c \in Calls, c \notin effects,
           NEW s \in Slots, s = SentSlot(c), receipts[s] # Nobody
    PROVE  /\ receipts[s] \in effects \ {c}
           /\ cmd[c].key \in Keys
           /\ ClientSlot(receipts[s]) = ClientSlot(c)
  <1>1. receipts[s] \in effects /\ receipts[s] \in Calls /\ Slot(receipts[s]) = s
    BY DEF ReceiptsAreEffects, TypeOK
  <1>2. SentSlot(receipts[s]) = s
    BY <1>1 DEF SlotInv
  <1> QED BY <1>1, <1>2, OneSlotOneKey

\* ToldInv is kept: a call is told its own result when it has committed, that of
\* its slot's receipt while it has not, or an error before it wrote anything.
LEMMA ToldStep ==
    ASSUME LedgerInv, SlotInv, ToldInv, [Next]_vars
    PROVE  ToldInv'
  <1> USE DEF LedgerInv
  <1>0. cmd' = cmd /\ \A c \in Calls : ClientSlot(c)' = ClientSlot(c)
    BY CommandsFixed DEF ClientSlot
  <1>1. CASE Enforce \/ UNCHANGED vars
    BY <1>0, <1>1 DEF Enforce, vars, ToldInv, ClientSlot
  <1>2. ASSUME NEW c \in Calls, Submit(c) \/ Process(c) \/ Crash(c)
        PROVE  ToldInv'
    <2>1. /\ effects \subseteq effects' /\ effects' \subseteq effects \cup {c}
          /\ \A d \in Calls \ {c} : pc'[d] = pc[d] /\ answer'[d] = answer[d]
      BY <1>2, OthersStand DEF TypeOK, Process, Submit, PeekReplay, Validate, Gate, FastPath, Reserve,
                  Mutate, MutationRefused, MutationClash, Commit, Reread, Respond, Crash,
                  Goto, Tell, FromReceipt
    <2>2. SUFFICES /\ pc'[c] = "respond" => c \in effects'
                   /\ pc'[c] # "done" => answer'[c] = NoAnswer
                   /\ pc'[c] = "done" /\ c \in effects' => answer'[c].kind = "executed"
                   /\ answer'[c].kind = "executed" => c \in effects'
                   /\ answer'[c].kind = "replayed" =>
                         LET d == answer'[c].ref IN
                         d \in effects' \ {c} /\ ClientSlot(d) = ClientSlot(c) /\ cmd[d].req = cmd[c].req
      BY <1>0, <2>1 DEF ToldInv, ClientSlot, TypeOK, NoAnswer
    <2>3. ASSUME NEW s \in Slots, s = SentSlot(c), receipts[s] # Nobody, FromReceipt(c, receipts[s]),
                 c \notin effects, effects' = effects
          PROVE  /\ pc'[c] = "done" /\ answer'[c].kind # "executed"
                 /\ answer'[c].kind = "replayed" =>
                       LET d == answer'[c].ref IN
                       d \in effects' \ {c} /\ ClientSlot(d) = ClientSlot(c) /\ cmd[d].req = cmd[c].req
      BY <2>3, ReceiptAnswers DEF FromReceipt, Tell, Goto, TypeOK
    <2>4. CASE PeekReplay(c) /\ cmd[c].key \in Keys /\ receipts[ClientSlot(c)] # Nobody
      <3>1. c \notin effects /\ effects' = effects
        BY <2>4 DEF PeekReplay, EffectInv
      <3>2. ClientSlot(c) \in Slots /\ ClientSlot(c) = SentSlot(c)
        BY <2>4, LedgerAssumption DEF LedgerAssumption, TypeOK, Command, ClientSlot, Slots, SentSlot
      <3>3. FromReceipt(c, receipts[ClientSlot(c)])
        BY <2>4 DEF PeekReplay
      <3> QED BY <2>3, <2>4, <3>1, <3>2, <3>3
    <2>5. CASE (FastPath(c) \/ Reread(c)) /\ receipts[Slot(c)] # Nobody
      <3>1. c \notin effects /\ effects' = effects
        BY <2>5 DEF FastPath, Reread, EffectInv
      <3>2. Slot(c) \in Slots /\ Slot(c) = SentSlot(c)
        BY <2>5, SlotInSlots DEF KeyInv, SlotInv, KeyChosen, FastPath, Reread
      <3>3. FromReceipt(c, receipts[Slot(c)])
        BY <2>5 DEF FastPath, Reread
      <3> QED BY <2>3, <2>5, <3>1, <3>2, <3>3
    <2>6. CASE Respond(c)
      BY <2>6 DEF Respond, Tell, Goto, TypeOK, ToldInv
    <2>7. CASE Commit(c)
      BY <2>7 DEF Commit, Goto, TypeOK, ToldInv, NoAnswer
    <2>8. CASE Crash(c)
      BY <2>8 DEF Crash, Over, Goto, TypeOK, ToldInv, NoAnswer
    <2>9. CASE Submit(c) \/ Validate(c) \/ Gate(c) \/ Reserve(c) \/ Mutate(c) \/ MutationRefused(c)
               \/ MutationClash(c)
               \/ (PeekReplay(c) /\ ~(cmd[c].key \in Keys /\ receipts[ClientSlot(c)] # Nobody))
               \/ ((FastPath(c) \/ Reread(c)) /\ receipts[Slot(c)] = Nobody)
      <3>1. c \notin effects /\ effects' = effects
        BY <2>9 DEF EffectInv, Submit, PeekReplay, Validate, Gate, FastPath, Reserve, Mutate,
                    MutationRefused, MutationClash, Reread
      <3>2. pc'[c] # "respond" /\ pc[c] # "done"
        BY <2>9 DEF TypeOK, Submit, PeekReplay, Validate, Gate, FastPath, Reserve, Mutate,
                    MutationRefused, MutationClash, Reread, Goto, Tell
      <3>3. \/ answer' = answer /\ pc'[c] # "done"
            \/ pc'[c] = "done" /\ answer'[c].kind \in {"refused", "needKey", "retry"}
        BY <2>9 DEF TypeOK, Submit, PeekReplay, Validate, Gate, FastPath, Reserve, Mutate,
                    MutationRefused, MutationClash, Reread, Goto, Tell
      <3> QED BY <3>1, <3>2, <3>3 DEF ToldInv, NoAnswer
    <2> QED BY <1>2, <2>4, <2>5, <2>6, <2>7, <2>8, <2>9 DEF Process
  <1> QED BY <1>1, <1>2 DEF Next, Finished

\* RetryIsReplayed is kept with RetryInv: the receipt that stood at arrival still
\* stands wherever the call looks for one, and it looks before it writes.
LEMMA RetryStep ==
    ASSUME LedgerInv, SlotInv, RetryInv, RetryIsReplayed, [Next]_vars
    PROVE  RetryInv' /\ RetryIsReplayed'
  <1> USE DEF LedgerInv
  <1>0. cmd' = cmd /\ \A c \in Calls : ClientSlot(c)' = ClientSlot(c)
    BY CommandsFixed DEF ClientSlot
  <1>1. CASE Enforce \/ UNCHANGED vars
    BY <1>0, <1>1 DEF Enforce, vars, RetryInv, RetryIsReplayed
  <1>2. \A c \in Calls : cmd[c].key \in Keys => ClientSlot(c) \in Slots /\ ClientSlot(c) = SentSlot(c)
    BY LedgerAssumption DEF LedgerAssumption, TypeOK, Command, ClientSlot, Slots, SentSlot
  <1>3. ASSUME NEW c \in Calls, Submit(c) \/ Process(c) \/ Crash(c)
        PROVE  RetryInv' /\ RetryIsReplayed'
    <2>1. \A d \in Calls \ {c} : pc'[d] = pc[d] /\ answer'[d] = answer[d] /\ retryOf'[d] = retryOf[d]
      BY <1>3, OthersStand DEF TypeOK, Process, Submit, PeekReplay, Validate, Gate, FastPath, Reserve,
                  Mutate, MutationRefused, MutationClash, Commit, Reread, Respond, Crash,
                  Goto, Tell, FromReceipt
    <2>2. \A s \in Slots : receipts[s] # Nobody => receipts'[s] = receipts[s]
      BY <1>3, ReceiptsStand DEF Next
    <2>3. SUFFICES ASSUME retryOf'[c] # Nobody
                   PROVE  /\ cmd[c].key \in Keys
                          /\ receipts[ClientSlot(c)] = retryOf'[c]
                          /\ pc'[c] \in {"peek", "gate", "fastpath", "done", "lost"}
                          /\ pc'[c] = "done" =>
                                 answer'[c] = IF cmd[retryOf'[c]].req = cmd[c].req
                                              THEN [kind |-> "replayed", ref |-> retryOf'[c]]
                                              ELSE [kind |-> "keyReused", ref |-> Nobody]
      BY <1>0, <1>2, <2>1, <2>2, <2>3 DEF RetryInv, RetryIsReplayed
    <2>4. CASE Submit(c)
      BY <2>3, <2>4 DEF Submit, TypeOK, Goto
    <2>5. CASE ~Submit(c)
      <3>1. retryOf' = retryOf
        BY <1>3, <2>5 DEF Process, PeekReplay, Validate, Gate, FastPath, Reserve,
                  Mutate, MutationRefused, MutationClash, Commit, Reread, Respond, Crash
      <3>2. /\ cmd[c].key \in Keys /\ receipts[ClientSlot(c)] = retryOf[c]
            /\ pc[c] \in {"peek", "gate", "fastpath", "done", "lost"}
        BY <2>3, <3>1 DEF RetryInv
      <3>3. PeekReplay(c) \/ Gate(c) \/ FastPath(c) \/ Crash(c)
        BY <1>3, <2>5, <3>2 DEF Process, Validate, Reserve, Mutate, MutationRefused, MutationClash,
                                Commit, Reread, Respond
      <3>4. CASE Gate(c) \/ Crash(c)
        BY <3>1, <3>2, <3>4, LedgerAssumption DEF LedgerAssumption, Gate, Crash, Goto, TypeOK
      <3>5. CASE PeekReplay(c) \/ FastPath(c)
        <4>1. FastPath(c) => Slot(c) = ClientSlot(c)
          BY <1>2, <3>2 DEF FastPath, SlotInv, KeyChosen
        <4>2. FromReceipt(c, retryOf[c])
          BY <2>3, <3>1, <3>2, <3>5, <4>1 DEF PeekReplay, FastPath
        <4> QED BY <3>1, <3>2, <4>2 DEF FromReceipt, Tell, Goto, TypeOK
      <3> QED BY <3>3, <3>4, <3>5
    <2> QED BY <2>4, <2>5
  <1> QED BY <1>1, <1>3 DEF Next, Finished

\* AnswerInv holds in every reachable state of the kernel.
THEOREM AnswerInvariant == Spec => []AnswerInv
  <1>1. Init => AnswerInv
    <2> SUFFICES ASSUME Init PROVE AnswerInv
      OBVIOUS
    <2>1. LedgerInv
      BY LedgerInit
    <2> QED BY <2>1 DEF AnswerInv, Init, SlotInv, KeyChosen, RowInv, OneShotOnce, ToldInv, RetryInv,
                        RetryIsReplayed, NoAnswer
  <1>2. AnswerInv /\ [Next]_vars => AnswerInv'
    BY TypeStep, KeyStep, ReservationStep, EffectStep, ReceiptStep, SlotStep, RowStep, ToldStep, RetryStep
       DEF AnswerInv, LedgerInv
  <1> QED BY <1>1, <1>2, PTL DEF Spec

\* A transition the canonical row allows once takes place once, under whatever
\* keys it is asked for (the guard inside `run`, commands.ts).
THEOREM OneShotExecutedOnce == Spec => []OneShotOnce
  BY AnswerInvariant, PTL DEF AnswerInv

\* No caller is told of a result that is not committed, not its own, or not
\* its request's, and no error hides a write (executeCommand's return).
THEOREM CallersAreToldTheTruth == Spec => []AnswersAreTrue
  <1>1. AnswerInv => AnswersAreTrue
    BY DEF AnswerInv, LedgerInv, EffectInv, ToldInv, AnswersAreTrue, NoAnswer
  <1> QED BY <1>1, AnswerInvariant, PTL

\* A retry that arrives after its command committed gets that command's result,
\* or the 409 of a key used for another request (peekReplay, the fast path).
THEOREM RetriesAreReplayed == Spec => []RetryIsReplayed
  BY AnswerInvariant, PTL DEF AnswerInv
-----------------------------------------------------------------------------
\* Every step of the kernel is a step of IdempotentCommands or none: Commit
\* performs the act of a slot, an answer tells of it, nothing else shows.
LEMMA StepImplements ==
    ASSUME AnswerInv, [Next]_vars
    PROVE  [Abs!AbsNext]_<<[c \in Calls |-> SentSlot(c)], receipts, [c \in Calls |-> answer[c].ref]>>
  <1> USE DEF AnswerInv, LedgerInv
  <1> DEFINE slots == [c \in Calls |-> SentSlot(c)]
             told == [c \in Calls |-> answer[c].ref]
  <1>0. slots' = slots
    BY CommandsFixed DEF SentSlot, ClientSlot
  <1>1. CASE Enforce \/ UNCHANGED vars
    BY <1>0, <1>1 DEF Enforce, vars
  <1>2. ASSUME NEW c \in Calls, Commit(c)
        PROVE  Abs!Perform(c) \/ (receipts' = receipts /\ told' = told)
    <2>1. Slot(c) = SentSlot(c) /\ pc[c] = "commit" /\ told' = told
      BY <1>2 DEF Commit, SlotInv, KeyChosen
    <2>2. CASE HasSlot(c)
      <3>1. Slot(c) \in Slots /\ receipts[Slot(c)] = Nobody
        BY <2>1, <2>2, SlotInSlots, LedgerAssumption DEF ReservationInv, InTx, LedgerAssumption
      <3>2. receipts' = [receipts EXCEPT ![Slot(c)] = c]
        BY <1>2, <2>2 DEF Commit
      <3> QED BY <1>0, <2>1, <3>1, <3>2 DEF Abs!Perform
    <2>3. CASE ~HasSlot(c)
      BY <1>2, <2>1, <2>3 DEF Commit
    <2> QED BY <2>2, <2>3
  <1>3. ASSUME NEW c \in Calls, Submit(c) \/ Process(c) \/ Crash(c), ~Commit(c)
        PROVE  \/ receipts' = receipts /\ told' = told
               \/ Abs!TellKeyed(c) \/ Abs!TellUnkeyed(c)
    <2>1. receipts' = receipts
      BY <1>3 DEF Process, Submit, PeekReplay, Validate, Gate, FastPath, Reserve,
                  Mutate, MutationRefused, MutationClash, Reread, Respond, Crash
    <2>2. CASE told' = told
      BY <2>1, <2>2
    <2>3. CASE told' # told
      <3>1. /\ pc[c] # "done" /\ pc'[c] = "done" /\ answer'[c].ref # Nobody
            /\ \A d \in Calls \ {c} : answer'[d] = answer[d]
        BY <1>3, <2>3 DEF TypeOK, ToldInv, NoAnswer, Process, Submit, PeekReplay, Validate, Gate, FastPath, Reserve,
                  Mutate, MutationRefused, MutationClash, Reread, Respond, Crash, Goto, Tell, FromReceipt
      <3>2. told[c] = Nobody /\ told' = [told EXCEPT ![c] = answer'[c].ref]
        <4>1. answer[c] = NoAnswer
          BY <3>1 DEF ToldInv
        <4>2. told' = [d \in Calls |-> answer'[d].ref] /\ told \in [Calls -> Calls \cup {Nobody}]
          BY DEF TypeOK, Answer
        <4>3. told[c] = Nobody
          BY <4>1 DEF NoAnswer
        <4>4. \A d \in Calls : told'[d] = IF d = c THEN answer'[c].ref ELSE told[d]
          BY <3>1, <4>2
        <4> HIDE DEF told
        <4> QED BY <4>2, <4>3, <4>4
      <3>3. \/ Respond(c) /\ answer'[c].ref = c
            \/ PeekReplay(c) /\ cmd[c].key \in Keys /\ answer'[c].ref = receipts[ClientSlot(c)]
            \/ (FastPath(c) \/ Reread(c)) /\ answer'[c].ref = receipts[Slot(c)]
        BY <1>3, <3>1 DEF TypeOK, Process, Submit, PeekReplay, Validate, Gate, FastPath, Reserve,
                  Mutate, MutationRefused, MutationClash, Reread, Respond, Crash, Goto, Tell, FromReceipt
      <3>4. CASE Respond(c)
        <4>1. c \in effects /\ Slot(c) = SentSlot(c) /\ answer'[c].ref = c
          BY <3>1, <3>3, <3>4 DEF Respond, ToldInv, SlotInv, PeekReplay, FastPath, Reread
        <4>2. CASE HasSlot(c)
          <5>1. SentSlot(c) \in Slots /\ receipts[SentSlot(c)] = c
            BY <4>1, <4>2, SlotInSlots DEF ReceiptsAreEffects
          <5>2. receipts[SentSlot(c)] # Nobody
            BY <5>1, LedgerAssumption DEF LedgerAssumption
          <5> QED BY <1>0, <2>1, <3>2, <4>1, <5>1, <5>2 DEF Abs!TellKeyed
        <4>3. CASE ~HasSlot(c)
          <5>1. SentSlot(c) \notin Slots
            BY <4>1, <4>3, LedgerAssumption DEF HasSlot, Slot, Slots, LedgerAssumption
          <5> QED BY <1>0, <2>1, <3>2, <4>1, <5>1 DEF Abs!TellUnkeyed
        <4> QED BY <4>2, <4>3
      <3>5. ASSUME NEW s \in Slots, s = SentSlot(c), answer'[c].ref = receipts[s]
            PROVE  Abs!TellKeyed(c)
        BY <1>0, <2>1, <3>1, <3>2, <3>5 DEF Abs!TellKeyed
      <3>6. CASE PeekReplay(c) /\ cmd[c].key \in Keys /\ answer'[c].ref = receipts[ClientSlot(c)]
        <4>1. ClientSlot(c) \in Slots /\ ClientSlot(c) = SentSlot(c)
          BY <3>6, LedgerAssumption DEF LedgerAssumption, TypeOK, Command, ClientSlot, Slots, SentSlot
        <4> QED BY <3>5, <3>6, <4>1
      <3>7. CASE (FastPath(c) \/ Reread(c)) /\ answer'[c].ref = receipts[Slot(c)]
        <4>1. Slot(c) \in Slots /\ Slot(c) = SentSlot(c)
          BY <3>7, SlotInSlots DEF KeyInv, SlotInv, KeyChosen, FastPath, Reread
        <4> QED BY <3>5, <3>7, <4>1
      <3> QED BY <3>3, <3>4, <3>6, <3>7
    <2> QED BY <2>2, <2>3
  <1> QED BY <1>0, <1>1, <1>2, <1>3 DEF Next, Finished, Abs!AbsNext

\* The kernel implements the abstract promise: each act is performed once and
\* for good, and a caller is told only of an act that was performed.
THEOREM KernelImplements == Spec => IdempotentSpec
  <1>1. Init => Abs!AbsInit
    BY DEF Init, Abs!AbsInit, NoAnswer
  <1>2. AnswerInv /\ [Next]_vars
          => [Abs!AbsNext]_<<[c \in Calls |-> SentSlot(c)], receipts, [c \in Calls |-> answer[c].ref]>>
    BY StepImplements
  <1> QED BY <1>1, <1>2, AnswerInvariant, PTL DEF Spec, IdempotentSpec, Abs!AbsSpec

-----------------------------------------------------------------------------
(* The project-create hold, for any tabs and any number of reservations.   *)
(* The lock makes the newest reservation the one that holds the attempt,   *)
(* which is what a refusal and a release are judged by; and nothing is     *)
(* sent before the server was seen to keep receipts.                       *)

\* An attempt is named by the first lease taken for it.
Attempts == \A l \in Leases : jobs[l].attempt \in 1 .. l

\* Who holds the record is who reserved last.
HeldIsNewest ==
    record.state = "held" =>
        Len(jobs) > 0 /\ record.lease = Len(jobs) /\ record.attempt = jobs[Len(jobs)].attempt

\* What has not reached its send was not sent, and what waits has read nothing.
Unsent ==
    \A l \in Leases : /\ jobs[l].at \in {"probing", "cleared", "releasing"} => ~jobs[l].went
                      /\ jobs[l].at \notin {"settling", "over"} => jobs[l].verdict = "none"

\* Nothing goes to a server that keeps no receipts, so all that is made has one.
Receipted ==
    /\ \A l \in Leases : jobs[l].at = "cleared" \/ jobs[l].went => keeping
    /\ \A l \in wire : jobs[l].went
    /\ \A l \in made : jobs[l].attempt \in kept

HoldInv == Attempts /\ HeldIsNewest /\ Unsent /\ Receipted /\ HoldIsSound
-----------------------------------------------------------------------------
(* What a step may do to the reservations: change fields of those there    *)
(* are, keeping their attempts, or take one more.                          *)

Steady ==
    /\ jobs' \in Seq(Job) /\ Len(jobs') = Len(jobs)
    /\ \A l \in Leases : jobs'[l].attempt = jobs[l].attempt

LEMMA JobIn ==
    ASSUME HoldTypeOK, NEW l \in Leases
    PROVE  jobs[l] \in Job /\ Len(jobs) \in Nat /\ l \in Nat
BY ElementOfSeq, LenProperties DEF HoldTypeOK, Leases

LEMMA Changed ==
    ASSUME HoldTypeOK, NEW l \in Leases, NEW j \in Job, jobs' = [jobs EXCEPT ![l] = j],
           j.attempt = jobs[l].attempt
    PROVE  Steady /\ jobs'[l] = j /\ \A m \in Leases : m # l => jobs'[m] = jobs[m]
BY ExceptSeq DEF HoldTypeOK, Leases, Steady

\* Fields may change, and the newest reservation still holds the record.
LEMMA NewestStays ==
    ASSUME HoldInv, Steady, record' = record \/ record'.state # "held"
    PROVE  HeldIsNewest'
<1>1. CASE record'.state # "held"
  BY <1>1 DEF HeldIsNewest
<1>2. CASE record' = record /\ record.state = "held"
  <2>1. Len(jobs) > 0 /\ record.lease = Len(jobs) /\ record.attempt = jobs[Len(jobs)].attempt
    BY <1>2 DEF HoldInv, HeldIsNewest
  <2>2. Len(jobs) \in Leases
    BY <2>1, LenProperties DEF HoldInv, HoldIsSound, HoldTypeOK, Leases
  <2>3. Len(jobs') = Len(jobs) /\ jobs'[Len(jobs)].attempt = jobs[Len(jobs)].attempt
    BY <2>2 DEF Steady
  <2>q. QED
    BY <1>2, <2>1, <2>3 DEF HeldIsNewest
<1>q. QED
  BY <1>1, <1>2

\* What is read of an attempt stays known while nothing more is taken for it.
LEMMA KnownStays ==
    ASSUME HoldTypeOK, Steady, NEW a, Known(a),
           \A l \in Leases : jobs[l].verdict # "none" => jobs'[l].verdict = jobs[l].verdict
    PROVE  Known(a)'
<1>1. PICK l \in Leases : jobs[l].attempt = a /\ Answered(l)
  BY DEF Known
<1>2. Leases' = Leases /\ jobs'[l].attempt = a /\ jobs'[l].verdict = jobs[l].verdict
  BY <1>1 DEF Leases, Steady, Answered
<1>3. Newest(l) => Newest(l)'
  BY <1>2 DEF Newest, Steady
<1>q. QED
  BY <1>1, <1>2, <1>3 DEF Known, Answered

LEMMA InitHold == HoldInit => HoldInv
<1> SUFFICES ASSUME HoldInit PROVE HoldInv
  OBVIOUS
<1>1. Leases = {} /\ jobs \in Seq(Job)
  BY DEF HoldInit, Leases
<1>q. QED
  BY <1>1 DEF HoldInit, HoldInv, Attempts, HeldIsNewest, Unsent, Receipted, HoldIsSound, HoldTypeOK,
              NoAttemptLost, OneProjectAnAttempt, NoneStuck, Nothing

-----------------------------------------------------------------------------
(* A new reservation: of a new attempt when none is held, or of the held.  *)

LEMMA Taken ==
    ASSUME HoldTypeOK, NEW t \in Tabs, NEW a \in Nat \ {0}, TakeLease(t, a)
    PROVE  /\ jobs' \in Seq(Job) /\ Len(jobs') = Len(jobs) + 1
           /\ Len(jobs) \in Nat /\ Len(jobs) + 1 \notin Leases
           /\ Leases' = Leases \cup {Len(jobs) + 1}
           /\ \A l \in Leases : jobs'[l] = jobs[l]
           /\ jobs'[Len(jobs) + 1] = [tab |-> t, attempt |-> a, at |-> "probing", went |-> FALSE,
                                      reply |-> "none", verdict |-> "none"]
<1> DEFINE j == [tab |-> t, attempt |-> a, at |-> "probing", went |-> FALSE,
                 reply |-> "none", verdict |-> "none"]
<1>1. j \in Job
  BY DEF Job, Stages, Answers
<1>2. jobs \in Seq(Job) /\ Len(jobs) \in Nat /\ jobs' = Append(jobs, j)
  BY LenProperties DEF HoldTypeOK, TakeLease
<1> HIDE DEF j
<1>3. jobs' \in Seq(Job) /\ Len(jobs') = Len(jobs) + 1 /\ jobs'[Len(jobs) + 1] = j
      /\ \A l \in 1 .. Len(jobs) : jobs'[l] = jobs[l]
  BY <1>1, <1>2
<1>4. 1 .. Len(jobs) + 1 = (1 .. Len(jobs)) \cup {Len(jobs) + 1} /\ Len(jobs) + 1 \notin 1 .. Len(jobs)
  BY <1>2
<1>q. QED
  BY <1>2, <1>3, <1>4 DEF Leases, j

LEMMA ReserveKeeps ==
    ASSUME HoldInv, NEW t \in Tabs, NEW a, TakeLease(t, a),
           \/ record.state # "held" /\ a = Len(jobs) + 1
           \/ record.state = "held" /\ a = record.attempt
    PROVE  HoldInv'
<1> DEFINE n == Len(jobs) + 1
<1>1. HoldTypeOK
  BY DEF HoldInv, HoldIsSound
<1>2. a \in Nat \ {0} /\ a \in 1 .. n
  <2>0. jobs \in Seq(Job) /\ Len(jobs) \in Nat
    BY <1>1, LenProperties DEF HoldTypeOK
  <2>1. CASE a = Len(jobs) + 1
    BY <2>0, <2>1
  <2>2. CASE record.state = "held" /\ a = record.attempt
    BY <2>0, <2>2 DEF HoldInv, HeldIsNewest, Attempts, Leases
  <2>q. QED
    BY <2>1, <2>2
<1>3. /\ jobs' \in Seq(Job) /\ Len(jobs') = n /\ n \in Nat /\ n \notin Leases
      /\ Leases' = Leases \cup {n}
      /\ \A l \in Leases : jobs'[l] = jobs[l]
      /\ jobs'[n].attempt = a /\ jobs'[n].at = "probing" /\ jobs'[n].went = FALSE
      /\ jobs'[n].verdict = "none"
  <2>1. /\ jobs' \in Seq(Job) /\ Len(jobs') = Len(jobs) + 1
        /\ Len(jobs) \in Nat /\ Len(jobs) + 1 \notin Leases
        /\ Leases' = Leases \cup {Len(jobs) + 1}
        /\ \A l \in Leases : jobs'[l] = jobs[l]
        /\ jobs'[Len(jobs) + 1] = [tab |-> t, attempt |-> a, at |-> "probing", went |-> FALSE,
                                   reply |-> "none", verdict |-> "none"]
    BY <1>1, <1>2, Taken
  <2>q. QED
    BY <2>1
<1>4. record' = Held(a, n) /\ live' = live \cup {n} /\ UNCHANGED <<signed, wire, serverVars>>
  BY DEF TakeLease
<1> HIDE DEF n
<1>5. HoldTypeOK'
  BY <1>1, <1>2, <1>3, <1>4 DEF HoldTypeOK, Held, serverVars
<1>6. Attempts'
  BY <1>2, <1>3 DEF HoldInv, Attempts
<1>7. HeldIsNewest'
  BY <1>1, <1>3, <1>4, LenProperties DEF HeldIsNewest, Held, n, HoldTypeOK
<1>8. Unsent'
  BY <1>3 DEF HoldInv, Unsent
<1>9. Receipted'
  BY <1>1, <1>3, <1>4 DEF HoldInv, Receipted, HoldTypeOK, serverVars
<1>10. NoAttemptLost'
  <2> SUFFICES ASSUME NEW l \in Leases', jobs'[l].went, ~Known(jobs[l].attempt)'
               PROVE  jobs[l].attempt' = a
    BY <1>4 DEF NoAttemptLost, Held
  <2>1. l \in Leases /\ jobs'[l] = jobs[l]
    BY <1>3
  <2>2. SUFFICES ASSUME jobs[l].attempt # a PROVE FALSE
    BY <2>1
  <2>3. Known(jobs[l].attempt)
    BY <2>1, <2>2 DEF HoldInv, HoldIsSound, NoAttemptLost
  <2>4. PICK m \in Leases : jobs[m].attempt = jobs[l].attempt /\ Answered(m)
    BY <2>3 DEF Known
  <2>5. Answered(m)'
    BY <1>3, <2>2, <2>4 DEF Answered, Newest
  <2>q. QED
    BY <1>3, <2>1, <2>4, <2>5 DEF Known
<1>11. OneProjectAnAttempt'
  BY <1>1, <1>3, <1>4 DEF HoldInv, HoldIsSound, OneProjectAnAttempt, HoldTypeOK, serverVars
<1>12. NoneStuck'
  BY <1>1, <1>3, <1>4 DEF HoldInv, HoldIsSound, NoneStuck, HoldTypeOK
<1>q. QED
  BY <1>5, <1>6, <1>7, <1>8, <1>9, <1>10, <1>11, <1>12 DEF HoldInv, HoldIsSound
-----------------------------------------------------------------------------
(* A reservation goes on, or ends: its request is not sent by that.        *)

\* What lease l may become without a send or an answer.
MayMoveTo(l, at) ==
    \/ at = "cleared" /\ keeping /\ jobs[l].at = "probing"
    \/ at = "releasing" /\ jobs[l].at \in {"probing", "cleared"}
    \/ at = "over"

LEMMA Moved ==
    ASSUME HoldTypeOK, NEW l \in Leases, NEW at \in Stages, Moves(l, at)
    PROVE  /\ Steady
           /\ \A m \in Leases : /\ jobs'[m].went = jobs[m].went /\ jobs'[m].verdict = jobs[m].verdict
                                /\ jobs'[m].at = IF m = l THEN at ELSE jobs[m].at
<1> DEFINE j == [jobs[l] EXCEPT !.at = at]
<1>1. jobs[l] \in Job /\ j \in Job
  BY JobIn DEF Job
<1>2. jobs' = [jobs EXCEPT ![l] = j] /\ j.attempt = jobs[l].attempt
  BY <1>1 DEF Moves, Job
<1>3. j.went = jobs[l].went /\ j.verdict = jobs[l].verdict /\ j.at = at
  BY <1>1 DEF Job
<1> HIDE DEF j
<1>4. Steady /\ jobs'[l] = j /\ \A m \in Leases : m # l => jobs'[m] = jobs[m]
  BY <1>1, <1>2, Changed
<1>q. QED
  BY <1>3, <1>4

LEMMA MoveKeeps ==
    ASSUME HoldInv, NEW l \in Leases, NEW at \in Stages, Moves(l, at), MayMoveTo(l, at),
           live' = IF at = "over" THEN live \ {l} ELSE live,
           UNCHANGED <<signed, wire, serverVars>>,
           \/ record' = record
           \/ /\ record.state = "held" /\ record' = Settled(record.attempt)
              /\ \A m \in Leases : jobs[m].went /\ jobs[m].attempt = record.attempt => Known(record.attempt)
    PROVE  HoldInv'
<1>1. HoldTypeOK
  BY DEF HoldInv, HoldIsSound
<1>2. Steady /\ \A m \in Leases : /\ jobs'[m].went = jobs[m].went /\ jobs'[m].verdict = jobs[m].verdict
                                  /\ jobs'[m].at = IF m = l THEN at ELSE jobs[m].at
  BY <1>1, Moved
<1>3. Leases' = Leases
  BY <1>2 DEF Steady, Leases
<1>4. HoldTypeOK'
  BY <1>1, <1>2, <1>3 DEF HoldTypeOK, Steady, Settled, serverVars
<1>5. Attempts'
  BY <1>2, <1>3 DEF HoldInv, Attempts, Steady
<1>6. HeldIsNewest'
  BY <1>2, NewestStays DEF Settled
<1>7. Unsent'
  BY <1>2, <1>3 DEF HoldInv, Unsent, MayMoveTo
<1>8. Receipted'
  BY <1>1, <1>2, <1>3 DEF HoldInv, Receipted, MayMoveTo, HoldTypeOK, Steady, serverVars
<1>9. NoAttemptLost'
  <2> SUFFICES ASSUME NEW m \in Leases, jobs[m].went, ~Known(jobs[m].attempt)
               PROVE  record'.state = "held" /\ record'.attempt = jobs[m].attempt
    BY <1>1, <1>2, <1>3, KnownStays DEF NoAttemptLost, Steady
  <2>1. record.state = "held" /\ record.attempt = jobs[m].attempt
    BY DEF HoldInv, HoldIsSound, NoAttemptLost
  <2>q. QED
    BY <2>1
<1>10. OneProjectAnAttempt'
  BY <1>1, <1>2, <1>3 DEF HoldInv, HoldIsSound, OneProjectAnAttempt, HoldTypeOK, Steady, serverVars
<1>11. NoneStuck'
  BY <1>1, <1>2, <1>3 DEF HoldInv, HoldIsSound, NoneStuck, HoldTypeOK, MayMoveTo
<1>q. QED
  BY <1>4, <1>5, <1>6, <1>7, <1>8, <1>9, <1>10, <1>11 DEF HoldInv, HoldIsSound

-----------------------------------------------------------------------------
(* The sends, the answers and the server.                                  *)

LEMMA SendKeeps ==
    ASSUME HoldInv, NEW l \in Leases, SendCreate(l), jobs[l].tab \in signed
    PROVE  HoldInv'
<1> DEFINE j == [jobs[l] EXCEPT !.at = "sent", !.went = TRUE]
<1>1. HoldTypeOK
  BY DEF HoldInv, HoldIsSound
<1>2. jobs[l] \in Job /\ j \in Job
  BY <1>1, JobIn DEF Job, Stages
<1>3. j.attempt = jobs[l].attempt /\ j.verdict = jobs[l].verdict /\ j.at = "sent" /\ j.went = TRUE
  BY <1>2 DEF Job
<1>4. jobs' = [jobs EXCEPT ![l] = j] /\ wire' = wire \cup {l} /\ UNCHANGED <<clientVars, serverVars>>
      /\ jobs[l].at = "cleared" /\ IsHeld(l)
  BY <1>2 DEF SendCreate, Job
<1> HIDE DEF j
<1>5. Steady /\ jobs'[l] = j /\ \A m \in Leases : m # l => jobs'[m] = jobs[m]
  BY <1>1, <1>2, <1>3, <1>4, Changed
<1>6. Leases' = Leases
  BY <1>5 DEF Steady, Leases
<1>7. HoldTypeOK'
  BY <1>1, <1>4, <1>5, <1>6 DEF HoldTypeOK, Steady, serverVars, clientVars
<1>8. Attempts'
  BY <1>5, <1>6 DEF HoldInv, Attempts, Steady
<1>9. HeldIsNewest'
  BY <1>4, <1>5, NewestStays DEF clientVars
<1>10. Unsent'
  BY <1>3, <1>4, <1>5, <1>6 DEF HoldInv, Unsent
<1>11. Receipted'
  BY <1>1, <1>3, <1>4, <1>5, <1>6 DEF HoldInv, Receipted, HoldTypeOK, Steady, serverVars
<1>12. NoAttemptLost'
  <2> SUFFICES ASSUME NEW m \in Leases, m # l => jobs[m].went, ~Known(jobs[m].attempt)
               PROVE  record.state = "held" /\ record.attempt = jobs[m].attempt
    BY <1>1, <1>3, <1>4, <1>5, <1>6, KnownStays DEF NoAttemptLost, Steady, clientVars
  <2>1. CASE m = l
    BY <1>4, <2>1 DEF HoldInv, HeldIsNewest, IsHeld
  <2>2. CASE m # l
    BY <2>2 DEF HoldInv, HoldIsSound, NoAttemptLost
  <2>q. QED
    BY <2>1, <2>2
<1>13. OneProjectAnAttempt'
  BY <1>1, <1>4, <1>5, <1>6 DEF HoldInv, HoldIsSound, OneProjectAnAttempt, HoldTypeOK, Steady, serverVars
<1>14. NoneStuck'
  BY <1>1, <1>3, <1>4, <1>5 DEF HoldInv, HoldIsSound, NoneStuck, HoldTypeOK, clientVars
<1>q. QED
  BY <1>7, <1>8, <1>9, <1>10, <1>11, <1>12, <1>13, <1>14 DEF HoldInv, HoldIsSound

LEMMA AnswerKeeps ==
    ASSUME HoldInv, NEW l \in Leases, ReadAnswer(l)
    PROVE  HoldInv'
<1>1. HoldTypeOK
  BY DEF HoldInv, HoldIsSound
<1>2. PICK v \in {jobs[l].reply, "none"} : jobs' = [jobs EXCEPT ![l].at = "settling", ![l].verdict = v]
  BY DEF ReadAnswer
<1> DEFINE j == [jobs[l] EXCEPT !.at = "settling", !.verdict = v]
<1>3. jobs[l] \in Job /\ v \in Answers /\ j \in Job
  BY <1>1, JobIn DEF Job, Stages, Answers
<1>4. j.attempt = jobs[l].attempt /\ j.verdict = v /\ j.at = "settling" /\ j.went = jobs[l].went
  BY <1>3 DEF Job
<1>5. jobs' = [jobs EXCEPT ![l] = j] /\ UNCHANGED <<clientVars, wire, serverVars>> /\ jobs[l].at = "sent"
  <2>1. jobs' = [jobs EXCEPT ![l] = j]
    BY <1>2, <1>3 DEF Job
  <2>q. QED
    BY <2>1 DEF ReadAnswer
<1> HIDE DEF j
<1>6. Steady /\ jobs'[l] = j /\ \A m \in Leases : m # l => jobs'[m] = jobs[m]
  BY <1>1, <1>3, <1>4, <1>5, Changed
<1>7. Leases' = Leases
  BY <1>6 DEF Steady, Leases
<1>8. HoldTypeOK'
  BY <1>1, <1>5, <1>6, <1>7 DEF HoldTypeOK, Steady, serverVars, clientVars
<1>9. Attempts'
  BY <1>6, <1>7 DEF HoldInv, Attempts, Steady
<1>10. HeldIsNewest'
  BY <1>5, <1>6, NewestStays DEF clientVars
<1>11. Unsent'
  BY <1>4, <1>5, <1>6, <1>7 DEF HoldInv, Unsent
<1>12. Receipted'
  BY <1>1, <1>4, <1>5, <1>6, <1>7 DEF HoldInv, Receipted, HoldTypeOK, Steady, serverVars
<1>13. NoAttemptLost'
  <2>1. jobs[l].verdict = "none"
    BY <1>5 DEF HoldInv, Unsent
  <2> SUFFICES ASSUME NEW m \in Leases, jobs[m].went, ~Known(jobs[m].attempt)
               PROVE  record.state = "held" /\ record.attempt = jobs[m].attempt
    BY <1>1, <1>4, <1>5, <1>6, <1>7, <2>1, KnownStays DEF NoAttemptLost, Steady, clientVars
  <2>q. QED
    BY DEF HoldInv, HoldIsSound, NoAttemptLost
<1>14. OneProjectAnAttempt'
  BY <1>1, <1>5, <1>6, <1>7 DEF HoldInv, HoldIsSound, OneProjectAnAttempt, HoldTypeOK, Steady, serverVars
<1>15. NoneStuck'
  BY <1>1, <1>4, <1>5, <1>6 DEF HoldInv, HoldIsSound, NoneStuck, HoldTypeOK, clientVars
<1>q. QED
  BY <1>8, <1>9, <1>10, <1>11, <1>12, <1>13, <1>14, <1>15 DEF HoldInv, HoldIsSound
LEMMA ReceiveKeeps ==
    ASSUME HoldInv, NEW l \in Leases, Receive(l)
    PROVE  HoldInv'
<1>1. HoldTypeOK
  BY DEF HoldInv, HoldIsSound
<1>2. PICK v \in Answers : jobs' = [jobs EXCEPT ![l].reply = v]
  BY DEF Receive, Answers
<1> DEFINE j == [jobs[l] EXCEPT !.reply = v]
<1>3. jobs[l] \in Job /\ j \in Job
  BY <1>1, JobIn DEF Job
<1>4. j.attempt = jobs[l].attempt /\ j.verdict = jobs[l].verdict /\ j.at = jobs[l].at /\ j.went = jobs[l].went
  BY <1>3 DEF Job
<1>5. jobs' = [jobs EXCEPT ![l] = j]
  BY <1>2, <1>3 DEF Job
<1> HIDE DEF j
<1>6. Steady /\ jobs'[l] = j /\ \A m \in Leases : m # l => jobs'[m] = jobs[m]
  BY <1>1, <1>3, <1>4, <1>5, Changed
<1>7. /\ Leases' = Leases /\ Len(jobs) \in Nat
      /\ \A m \in Leases : /\ jobs'[m].attempt = jobs[m].attempt /\ jobs'[m].verdict = jobs[m].verdict
                           /\ jobs'[m].at = jobs[m].at /\ jobs'[m].went = jobs[m].went
  BY <1>1, <1>4, <1>6, LenProperties DEF Steady, Leases, HoldTypeOK
<1>8. /\ l \in wire /\ wire' = wire \ {l} /\ UNCHANGED <<clientVars, standing, keeping>>
      /\ \/ made' = made /\ kept' = kept
         \/ /\ jobs[l].attempt \notin kept /\ made' = made \cup {l}
            /\ kept' = IF keeping THEN kept \cup {jobs[l].attempt} ELSE kept
  BY DEF Receive
<1>9. keeping /\ jobs[l].attempt \in Leases
  <2>1. keeping /\ l \in Nat /\ jobs[l].attempt \in 1 .. l
    BY <1>1, <1>8, JobIn DEF HoldInv, Receipted, Attempts
  <2>q. QED
    BY <1>7, <2>1 DEF Leases
<1>10. HoldTypeOK'
  BY <1>1, <1>6, <1>7, <1>8, <1>9 DEF HoldTypeOK, Steady, clientVars
<1>11. Attempts'
  BY <1>7 DEF HoldInv, Attempts
<1>12. HeldIsNewest'
  BY <1>6, <1>7, <1>8, NewestStays DEF clientVars
<1>13. Unsent'
  BY <1>7 DEF HoldInv, Unsent
<1>14. Receipted'
  BY <1>1, <1>7, <1>8, <1>9 DEF HoldInv, Receipted, HoldTypeOK
<1>15. NoAttemptLost'
  BY <1>1, <1>6, <1>7, <1>8, KnownStays DEF HoldInv, HoldIsSound, NoAttemptLost, clientVars
<1>16. OneProjectAnAttempt'
  <2> SUFFICES ASSUME NEW m \in made', NEW k \in made', jobs'[m].attempt = jobs'[k].attempt
               PROVE  m = k
    BY DEF OneProjectAnAttempt
  <2>1. jobs[m].attempt = jobs[k].attempt
    BY <1>1, <1>7, <1>8 DEF HoldTypeOK
  <2>q. QED
    BY <1>8, <2>1 DEF HoldInv, HoldIsSound, OneProjectAnAttempt, Receipted
<1>17. NoneStuck'
  BY <1>1, <1>7, <1>8 DEF HoldInv, HoldIsSound, NoneStuck, HoldTypeOK, clientVars
<1>q. QED
  BY <1>10, <1>11, <1>12, <1>13, <1>14, <1>15, <1>16, <1>17 DEF HoldInv, HoldIsSound

LEMMA ReloadKeeps ==
    ASSUME HoldInv, NEW t \in Tabs, Reload(t)
    PROVE  HoldInv'
<1>1. HoldTypeOK
  BY DEF HoldInv, HoldIsSound
<1>2. /\ jobs' = [l \in Leases |-> IF jobs[l].tab = t THEN [jobs[l] EXCEPT !.at = "over"] ELSE jobs[l]]
      /\ live' = live \ LiveIn(t) /\ UNCHANGED <<record, signed, wire, serverVars>>
  BY DEF Reload
<1>3. Len(jobs) \in Nat
  BY <1>1, LenProperties DEF HoldTypeOK
<1>4. \A l \in Leases :
          /\ jobs'[l] \in Job /\ jobs'[l].attempt = jobs[l].attempt /\ jobs'[l].went = jobs[l].went
          /\ jobs'[l].verdict = jobs[l].verdict
          /\ jobs'[l].at = IF jobs[l].tab = t THEN "over" ELSE jobs[l].at
  <2> TAKE l \in Leases
  <2>1. jobs[l] \in Job
    BY <1>1, JobIn
  <2>q. QED
    BY <1>2, <2>1 DEF Job, Stages
<1>5. Steady
  <2>1. jobs' \in [1 .. Len(jobs) -> Job]
    BY <1>2, <1>4 DEF Leases
  <2>2. jobs' \in Seq(Job) /\ Len(jobs') = Len(jobs)
    BY <1>3, <2>1
  <2>q. QED
    BY <1>4, <2>2 DEF Steady
<1>6. Leases' = Leases
  BY <1>5 DEF Steady, Leases
<1>7. HoldTypeOK'
  BY <1>1, <1>2, <1>5, <1>6 DEF HoldTypeOK, Steady, serverVars
<1>8. Attempts'
  BY <1>4, <1>6 DEF HoldInv, Attempts
<1>9. HeldIsNewest'
  BY <1>2, <1>3, <1>5, NewestStays
<1>10. Unsent'
  BY <1>4, <1>6 DEF HoldInv, Unsent
<1>11. Receipted'
  BY <1>1, <1>2, <1>4, <1>6 DEF HoldInv, Receipted, HoldTypeOK, serverVars
<1>12. NoAttemptLost'
  BY <1>1, <1>2, <1>4, <1>5, <1>6, KnownStays DEF HoldInv, HoldIsSound, NoAttemptLost
<1>13. OneProjectAnAttempt'
  BY <1>1, <1>2, <1>4 DEF HoldInv, HoldIsSound, OneProjectAnAttempt, HoldTypeOK, serverVars
<1>14. NoneStuck'
  BY <1>1, <1>2, <1>4 DEF HoldInv, HoldIsSound, NoneStuck, HoldTypeOK, LiveIn
<1>q. QED
  BY <1>7, <1>8, <1>9, <1>10, <1>11, <1>12, <1>13, <1>14 DEF HoldInv, HoldIsSound

\* A server that learns to keep receipts, and what touches no attempt.
LEMMA RestKeeps ==
    ASSUME HoldInv, UNCHANGED <<record, live, jobs, wire, made, kept>>, signed' \subseteq Tabs,
           keeping' \in BOOLEAN, standing' \in BOOLEAN, keeping => keeping'
    PROVE  HoldInv'
<1>1. Leases' = Leases /\ HoldTypeOK'
  BY DEF HoldInv, HoldIsSound, HoldTypeOK, Leases
<1>2. Attempts' /\ HeldIsNewest' /\ Unsent'
  BY <1>1 DEF HoldInv, Attempts, HeldIsNewest, Unsent
<1>3. Receipted'
  BY <1>1 DEF HoldInv, Receipted
<1>4. NoAttemptLost'
  BY <1>1 DEF HoldInv, HoldIsSound, NoAttemptLost, Known, Answered, Newest, Leases
<1>5. OneProjectAnAttempt' /\ NoneStuck'
  BY <1>1 DEF HoldInv, HoldIsSound, OneProjectAnAttempt, NoneStuck, Leases
<1>q. QED
  BY <1>1, <1>2, <1>3, <1>4, <1>5 DEF HoldInv, HoldIsSound

-----------------------------------------------------------------------------

LEMMA StepKeeps ==
    ASSUME HoldInv, NEW l \in Leases, JobStep(l)
    PROVE  HoldInv'
<1>1. HoldTypeOK /\ jobs[l] \in Job
  BY JobIn DEF HoldInv, HoldIsSound
<1>2. CASE Probe(l)
  BY <1>2, MoveKeeps DEF Probe, MayMoveTo, Stages, clientVars
<1>3. CASE SendCreate(l) /\ jobs[l].tab \in signed
  BY <1>3, SendKeeps
<1>4. CASE SendCreate(l) /\ jobs[l].tab \notin signed
  BY <1>4, MoveKeeps DEF SendCreate, MayMoveTo, Stages, clientVars
<1>5. CASE Superseded(l)
  BY <1>5, MoveKeeps DEF Superseded, Ends, MayMoveTo, Stages
<1>6. CASE ReadAnswer(l)
  BY <1>6, AnswerKeeps
<1>7. CASE Settle(l)
  <2>1. Moves(l, "over") /\ live' = live \ {l} /\ UNCHANGED <<signed, wire, serverVars>>
    BY <1>7 DEF Settle, Ends
  <2>2. CASE record' = record
    BY <2>1, <2>2, MoveKeeps DEF MayMoveTo, Stages
  <2>3. CASE record' # record
    <3>1. /\ record.state = "held" /\ record' = Settled(record.attempt)
          /\ \/ jobs[l].verdict = "created" /\ record.attempt = jobs[l].attempt
             \/ jobs[l].verdict = "refused" /\ IsHeld(l)
      BY <1>7, <2>3 DEF Settle, IsHeld
    <3>2. Len(jobs) \in Nat
      BY <1>1, LenProperties DEF HoldTypeOK
    <3>3. Answered(l) /\ record.attempt = jobs[l].attempt
      BY <3>1, <3>2 DEF Answered, Newest, IsHeld, HoldInv, HeldIsNewest, Leases
    <3>4. Known(record.attempt)
      BY <3>3 DEF Known
    <3>q. QED
      BY <2>1, <3>1, <3>4, MoveKeeps DEF MayMoveTo, Stages
  <2>q. QED
    BY <2>2, <2>3
<1>8. CASE Release(l)
  <2>1. Moves(l, "over") /\ live' = live \ {l} /\ UNCHANGED <<signed, wire, serverVars>>
        /\ jobs[l].at = "releasing"
    BY <1>8 DEF Release, Ends
  <2>2. CASE ~(IsHeld(l) /\ jobs[l].attempt = l)
    BY <1>8, <2>1, <2>2, MoveKeeps DEF Release, MayMoveTo, Stages
  <2>3. CASE IsHeld(l) /\ jobs[l].attempt = l
    <3>1. record.state = "held" /\ record.attempt = l /\ l = Len(jobs) /\ Len(jobs) \in Nat
      BY <1>1, <2>3, LenProperties DEF HoldInv, HeldIsNewest, IsHeld, HoldTypeOK
    <3>2. \A m \in Leases : jobs[m].attempt = record.attempt => m = l
      BY <3>1 DEF HoldInv, Attempts, Leases
    <3>3. ~jobs[l].went
      BY <2>1 DEF HoldInv, Unsent
    <3>4. record' = Settled(record.attempt)
      BY <1>8, <2>3, <3>1 DEF Release
    <3>q. QED
      BY <2>1, <3>1, <3>2, <3>3, <3>4, MoveKeeps DEF MayMoveTo, Stages
  <2>q. QED
    BY <2>2, <2>3
<1>9. CASE Thwarted(l)
  BY <1>9, MoveKeeps DEF Thwarted, Ends, MayMoveTo, Stages
<1>10. CASE Receive(l)
  BY <1>10, ReceiveKeeps
<1>q. QED
  BY <1>2, <1>3, <1>4, <1>5, <1>6, <1>7, <1>8, <1>9, <1>10 DEF JobStep

LEMMA NextKeeps == HoldInv /\ [HoldNext]_holdVars => HoldInv'
<1> SUFFICES ASSUME HoldInv, [HoldNext]_holdVars PROVE HoldInv'
  OBVIOUS
<1>0. HoldTypeOK
  BY DEF HoldInv, HoldIsSound
<1>1. ASSUME NEW t \in Tabs, Create(t) PROVE HoldInv'
  BY <1>1, ReserveKeeps DEF Create
<1>2. ASSUME NEW t \in Tabs, Retry(t) PROVE HoldInv'
  BY <1>2, ReserveKeeps DEF Retry
<1>3. ASSUME NEW t \in Tabs, Reload(t) PROVE HoldInv'
  BY <1>3, ReloadKeeps
<1>4. ASSUME NEW t \in Tabs, SignInOrOut(t) PROVE HoldInv'
  BY <1>0, <1>4, RestKeeps DEF SignInOrOut, serverVars, HoldTypeOK
<1>5. ASSUME NEW l \in Leases, JobStep(l) PROVE HoldInv'
  BY <1>5, StepKeeps
<1>6. CASE ChangeStanding \/ Upgrade \/ UNCHANGED holdVars
  BY <1>0, <1>6, RestKeeps DEF ChangeStanding, Upgrade, holdVars, clientVars, serverVars, HoldTypeOK
<1>q. QED
  BY <1>1, <1>2, <1>3, <1>4, <1>5, <1>6 DEF HoldNext

\* The inductive invariant holds in every behaviour of the tabs and the server.
THEOREM HoldInvariant == HoldSpec => []HoldInv
BY InitHold, NextKeeps, PTL DEF HoldSpec

\* No attempt is lost or made twice and no dialog is stuck, for any tabs and any
\* number of reservations.
THEOREM HoldStands == HoldSpec => []HoldIsSound
<1>1. HoldInv => HoldIsSound
  BY DEF HoldInv
<1>q. QED
  BY <1>1, HoldInvariant, PTL

LEMMA StepTakesUpNothing ==
    ASSUME HoldInv, [HoldNext]_holdVars, record'.state = "held",
           ~(record.state = "held" /\ record'.attempt = record.attempt)
    PROVE  record.state # "held" /\ record'.attempt \notin Leases
<1>0. Len(jobs) \in Nat
  BY LenProperties DEF HoldInv, HoldIsSound, HoldTypeOK
<1>1. ASSUME NEW t \in Tabs, Create(t)
      PROVE  record.state # "held" /\ record'.attempt \notin Leases
  BY <1>0, <1>1 DEF Create, TakeLease, Held, Leases
<1>2. ASSUME NEW t \in Tabs, Retry(t) PROVE FALSE
  BY <1>2 DEF Retry, TakeLease, Held
<1>3. ASSUME NEW t \in Tabs, Reload(t) \/ SignInOrOut(t) PROVE FALSE
  BY <1>3 DEF Reload, SignInOrOut
<1>4. ASSUME NEW l \in Leases, JobStep(l) PROVE FALSE
  BY <1>4 DEF JobStep, Probe, SendCreate, Superseded, ReadAnswer, Settle, Release, Thwarted, Receive, clientVars, Settled
<1>5. CASE ChangeStanding \/ Upgrade \/ UNCHANGED holdVars
  BY <1>5 DEF ChangeStanding, Upgrade, holdVars, clientVars
<1>q. QED
  BY <1>1, <1>2, <1>3, <1>4, <1>5 DEF HoldNext

\* The record takes up a new attempt only when it holds none, and never one that
\* was settled, for any tabs and any number of reservations.
THEOREM SettledStands == HoldSpec => SettledForGood
<1>1. HoldInv /\ [HoldNext]_holdVars =>
        [record'.state = "held" =>
           \/ record.state # "held" /\ record'.attempt \notin Leases
           \/ record.state = "held" /\ record'.attempt = record.attempt]_holdVars
  BY StepTakesUpNothing
<1>q. QED
  BY <1>1, HoldInvariant, PTL DEF HoldSpec, SettledForGood

-----------------------------------------------------------------------------
(* The fleet, for every set of processes and every length of the lease,    *)
(* the hold and their margins.                                             *)

(* The leases: a running process stops Margin before the lease it knows to *)
(* have, a statement the database ran covers TTL from when it was sent, and *)
(* an answer never moves the fence to an earlier time.                      *)
Covered ==
    \A p \in Procs :
        /\ Running(p) => now <= fenceAt[p] + Late /\ fenceAt[p] + Margin <= lease[p]
        /\ Running(p) => fenceAt[p] + Margin <= now + TTL
        /\ Running(p) /\ renewal[p].state # "none" => fenceAt[p] + Margin <= renewal[p].sentAt + TTL
        /\ renewal[p].sentAt <= now
        /\ renewal[p].state = "renewed" => renewal[p].sentAt + TTL <= lease[p]

(* The admissions: a process that still shares the row is not below the    *)
(* minimum, one whose hold is gone is past its bound, and one that started *)
(* has not come to it.                                                     *)
Windowed ==
    \A p \in Procs :
        /\ p \in sharing => phase[p] \in {"boot", "started"} /\ minimum <= Generation[p]
        /\ phase[p] \in {"boot", "started"} /\ p \notin sharing => now >= admittedAt[p] + Hold
        /\ phase[p] = "started" => now + HoldMargin <= admittedAt[p] + Hold + Late

Attested == \A g \in attested : g <= minimum

LeaseInv == FleetTypeOK /\ Covered
FleetInv == LeaseInv /\ Windowed /\ Attested /\ DrainIsFinal

LEMMA LaterIsLater ==
    ASSUME NEW a \in Nat, NEW b \in Nat
    PROVE  Later(a, b) \in Nat /\ Later(a, b) >= a /\ Later(a, b) >= b
  BY DEF Later

LEMMA InitLease == FleetInit => LeaseInv
  BY FleetAssumption DEF FleetInit, LeaseInv, FleetTypeOK, Covered, Running, Idle, Phases

(* Every step keeps the types and the cover of every running process.      *)
LEMMA LeaseStep == LeaseInv /\ [FleetNext]_fleetVars => LeaseInv'
  <1> SUFFICES ASSUME LeaseInv, [FleetNext]_fleetVars PROVE LeaseInv'
    OBVIOUS
  <1> USE FleetAssumption DEF LeaseInv, FleetTypeOK, Covered, Phases, Running, LiveLease, Stop, Idle
  <1>1. ASSUME NEW p \in Procs, Renew(p) PROVE LeaseInv'
    BY <1>1 DEF Renew, SendRenewal
  <1>2. ASSUME NEW p \in Procs, RunRenewal(p) PROVE LeaseInv'
    <2>1. Later(lease[p], now + TTL) \in Nat /\ Later(lease[p], now + TTL) >= lease[p] /\ Later(lease[p], now + TTL) >= now + TTL
      <3>1. lease[p] \in Nat /\ now + TTL \in Nat
        OBVIOUS
      <3> QED BY <3>1, LaterIsLater
    <2>2. CASE Extends(p)
      <3>1. /\ lease' = [lease EXCEPT ![p] = Later(lease[p], now + TTL)]
            /\ renewal' = [renewal EXCEPT ![p].state = "renewed"]
            /\ UNCHANGED <<now, minimum, phase, admittedAt, sharing, fenceAt, attested>>
        BY <1>2, <2>2 DEF RunRenewal
      <3>2. renewal'[p].state = "renewed" /\ renewal'[p].sentAt = renewal[p].sentAt
        BY <3>1
      <3>3. \A q \in Procs : q # p => renewal'[q] = renewal[q] /\ lease'[q] = lease[q]
        BY <3>1
      <3>4. FleetTypeOK'
        BY <3>1, <2>1
      <3>5. lease'[p] = Later(lease[p], now + TTL)
        BY <3>1
      <3>6. renewal[p].state # "none"
        BY <1>2 DEF RunRenewal
      <3>7. Covered'
        BY <3>1, <3>2, <3>3, <3>5, <3>6, <2>1
      <3> QED BY <3>4, <3>7
    <2>3. CASE ~Extends(p)
      <3>1. /\ renewal' = [renewal EXCEPT ![p].state = "missed"]
            /\ UNCHANGED <<now, minimum, phase, admittedAt, sharing, lease, fenceAt, attested>>
        BY <1>2, <2>3 DEF RunRenewal
      <3>2. renewal'[p].state = "missed" /\ renewal'[p].sentAt = renewal[p].sentAt
        BY <3>1
      <3>3. \A q \in Procs : q # p => renewal'[q] = renewal[q]
        BY <3>1
      <3>4. renewal[p].state # "none"
        BY <1>2 DEF RunRenewal
      <3> QED BY <3>1, <3>2, <3>3, <3>4
    <2> QED BY <2>2, <2>3
  <1>3. ASSUME NEW p \in Procs, AnswerRenewal(p) PROVE LeaseInv'
    <2>1. FenceTime(p) \in Nat /\ FenceTime(p) + Margin = renewal[p].sentAt + TTL
      BY DEF FenceTime
    <2>2. CASE renewal[p].state = "renewed" /\ ArmFence(p) /\ UNCHANGED <<phase, sharing, admittedAt>>
      <3>1. /\ fenceAt' = [fenceAt EXCEPT ![p] = FenceTime(p)] /\ renewal' = [renewal EXCEPT ![p] = Idle]
            /\ UNCHANGED <<now, minimum, phase, sharing, admittedAt, lease, attested>>
        BY <1>3, <2>2 DEF AnswerRenewal, ArmFence
      <3>2. Running(p)
        BY <1>3 DEF AnswerRenewal
      <3>3. fenceAt[p] <= FenceTime(p)
        BY <2>1, <2>2, <3>2
      <3> QED BY <2>1, <2>2, <3>1, <3>2, <3>3
    <2>3. CASE UNCHANGED <<phase, sharing, admittedAt, fenceAt>>
      BY <1>3, <2>3 DEF AnswerRenewal
    <2>4. CASE Stop(p)
      BY <1>3, <2>4 DEF AnswerRenewal
    <2> QED BY <1>3, <2>2, <2>3, <2>4 DEF AnswerRenewal
  <1>4. ASSUME NEW p \in Procs, RenewalFails(p) PROVE LeaseInv'
    BY <1>4 DEF RenewalFails
  <1>5. ASSUME NEW p \in Procs, Fence(p) PROVE LeaseInv'
    BY <1>5 DEF Fence
  <1>6. ASSUME NEW p \in Procs, Admit(p) PROVE LeaseInv'
    BY <1>6 DEF Admit, leaseVars
  <1>7. ASSUME NEW p \in Procs, SendLease(p) PROVE LeaseInv'
    BY <1>7 DEF SendLease, SendRenewal
  <1>8. ASSUME NEW p \in Procs, Start(p) PROVE LeaseInv'
    <2>1. FenceTime(p) \in Nat /\ FenceTime(p) + Margin = renewal[p].sentAt + TTL
      BY DEF FenceTime
    <2>2. CASE now < FenceTime(p) /\ phase' = [phase EXCEPT ![p] = "started"] /\ ArmFence(p) /\ UNCHANGED <<sharing, admittedAt>>
      <3>1. /\ fenceAt' = [fenceAt EXCEPT ![p] = FenceTime(p)] /\ renewal' = [renewal EXCEPT ![p] = Idle]
            /\ UNCHANGED <<now, minimum, sharing, admittedAt, lease, attested>>
        BY <1>8, <2>2 DEF Start, ArmFence
      <3>2. renewal[p].state = "renewed"
        BY <1>8 DEF Start
      <3> QED BY <2>1, <2>2, <3>1, <3>2
    <2>3. CASE Stop(p)
      BY <1>8, <2>3 DEF Start
    <2> QED BY <1>8, <2>2, <2>3 DEF Start
  <1>9. ASSUME NEW p \in Procs, Listen(p) PROVE LeaseInv'
    BY <1>9 DEF Listen, leaseVars
  <1>10. ASSUME NEW p \in Procs, DropHold(p) PROVE LeaseInv'
    BY <1>10 DEF DropHold, leaseVars
  <1>11. ASSUME NEW p \in Procs, LoseAdmission(p) PROVE LeaseInv'
    BY <1>11 DEF LoseAdmission
  <1>12. ASSUME NEW p \in Procs, ProcCrash(p) PROVE LeaseInv'
    BY <1>12 DEF ProcCrash
  <1>13. CASE Raise
    BY <1>13 DEF Raise, leaseVars
  <1>14. CASE Attest
    BY <1>14 DEF Attest, leaseVars
  <1>15. CASE Tick
    BY <1>15 DEF Tick, leaseVars
  <1>16. CASE UNCHANGED fleetVars
    BY <1>16 DEF fleetVars, leaseVars
  <1> QED
    BY <1>1, <1>2, <1>3, <1>4, <1>5, <1>6, <1>7, <1>8, <1>9, <1>10, <1>11, <1>12, <1>13, <1>14, <1>15, <1>16
       DEF FleetNext, ProcStep

LEMMA Leased == LeaseInv => RunningIsLeased
  BY FleetAssumption DEF LeaseInv, Covered, RunningIsLeased, LiveLease, FleetTypeOK

(* A process never works without a live lease: the fence it keeps on its   *)
(* own clock comes before the end of the lease (release-lease.service.ts). *)
THEOREM FencedInTime == FleetSpec => []FleetIsFenced
  <1>1. LeaseInv => FleetIsFenced
    BY Leased DEF LeaseInv, FleetIsFenced
  <1> QED
    BY InitLease, LeaseStep, <1>1, PTL DEF FleetSpec

------------------------------------------------------------------------------

LEMMA InitFleet == FleetInit => FleetInv
  BY InitLease DEF FleetInit, FleetInv, Windowed, Attested, DrainIsFinal

\* A process whose hold is gone has come to the hold's bound, so it has not started.
LEMMA StartedShares == FleetInv => \A p \in Procs : phase[p] = "started" => p \in sharing
  BY FleetAssumption DEF FleetInv, LeaseInv, FleetTypeOK, Windowed

(* The admissions, step by step: while no connection fails, a hold is only *)
(* lost at its bound.                                                      *)
LEMMA WindowStep == ~Drops /\ FleetInv /\ [FleetNext]_fleetVars => Windowed'
  <1> SUFFICES ASSUME ~Drops, FleetInv, [FleetNext]_fleetVars PROVE Windowed'
    OBVIOUS
  <1> USE FleetAssumption DEF FleetInv, LeaseInv, FleetTypeOK, Windowed, Phases, Running, Stop
  <1>1. ASSUME NEW p \in Procs, Renew(p) \/ RunRenewal(p) \/ RenewalFails(p) \/ SendLease(p) PROVE Windowed'
    BY <1>1 DEF Renew, RunRenewal, RenewalFails, SendLease
  <1>2. ASSUME NEW p \in Procs, AnswerRenewal(p) PROVE Windowed'
    BY <1>2 DEF AnswerRenewal
  <1>3. ASSUME NEW p \in Procs, Fence(p) \/ LoseAdmission(p) \/ ProcCrash(p) PROVE Windowed'
    BY <1>3 DEF Fence, LoseAdmission, ProcCrash
  <1>4. ASSUME NEW p \in Procs, Admit(p) PROVE Windowed'
    BY <1>4 DEF Admit, Admitted
  <1>5. ASSUME NEW p \in Procs, Start(p) PROVE Windowed'
    <2>1. CASE now < HoldEnds(p) /\ phase' = [phase EXCEPT ![p] = "started"] /\ UNCHANGED <<sharing, admittedAt>>
      BY <1>5, <2>1 DEF Start, HoldEnds
    <2>2. CASE Stop(p)
      BY <1>5, <2>2 DEF Start
    <2> QED BY <1>5, <2>1, <2>2 DEF Start
  <1>6. ASSUME NEW p \in Procs, Listen(p) PROVE Windowed'
    BY <1>6 DEF Listen
  <1>7. ASSUME NEW p \in Procs, DropHold(p) PROVE Windowed'
    BY <1>7 DEF DropHold
  <1>8. CASE Raise
    BY <1>8 DEF Raise, Unshared
  <1>9. CASE Attest \/ UNCHANGED fleetVars
    BY <1>9 DEF Attest, fleetVars
  <1>10. CASE Tick
    BY <1>10 DEF Tick, HoldEnds
  <1> QED
    BY <1>1, <1>2, <1>3, <1>4, <1>5, <1>6, <1>7, <1>8, <1>9, <1>10 DEF FleetNext, ProcStep

(* After a drain was attested, an older build could only come to work by   *)
(* starting, and it starts while it shares the row.                        *)
LEMMA DrainStep == ~Drops /\ FleetInv /\ [FleetNext]_fleetVars => Attested' /\ DrainIsFinal'
  <1> SUFFICES ASSUME ~Drops, FleetInv, [FleetNext]_fleetVars PROVE Attested' /\ DrainIsFinal'
    OBVIOUS
  <1> USE FleetAssumption DEF FleetInv, LeaseInv, FleetTypeOK, Attested, DrainIsFinal, Running, Stop
  <1>1. ASSUME NEW p \in Procs, Start(p) PROVE Attested' /\ DrainIsFinal'
    <2>1. CASE now < HoldEnds(p) /\ phase' = [phase EXCEPT ![p] = "started"]
      <3>1. p \in sharing
        BY <1>1, <2>1 DEF Start, HoldEnds, Windowed
      <3>2. minimum <= Generation[p]
        BY <3>1 DEF Windowed
      <3>3. attested' = attested /\ minimum' = minimum
        BY <1>1 DEF Start
      <3>4. \A g \in attested : g <= Generation[p]
        <4>1. minimum \in Nat /\ Generation[p] \in Nat /\ attested \subseteq Nat
          OBVIOUS
        <4> QED BY <3>2, <4>1
      <3>5. attested \subseteq Nat /\ Generation[p] \in Nat
        OBVIOUS
      <3>6. phase' = [phase EXCEPT ![p] = "started"]
        BY <2>1
      <3>7. \A g \in attested, q \in Procs : Generation[q] < g => q # p
        BY <3>4, <3>5
      <3>8. DrainIsFinal'
        BY <3>3, <3>6, <3>7
      <3> QED BY <3>3, <3>8
    <2>2. CASE Stop(p)
      BY <1>1, <2>2 DEF Start
    <2> QED BY <1>1, <2>1, <2>2 DEF Start
  <1>2. ASSUME NEW p \in Procs, Listen(p) PROVE Attested' /\ DrainIsFinal'
    BY <1>2 DEF Listen
  <1>3. ASSUME NEW p \in Procs, AnswerRenewal(p) PROVE Attested' /\ DrainIsFinal'
    BY <1>3 DEF AnswerRenewal
  <1>4. ASSUME NEW p \in Procs, Fence(p) \/ LoseAdmission(p) \/ ProcCrash(p) PROVE Attested' /\ DrainIsFinal'
    <2>1. phase' = [phase EXCEPT ![p] = "stopped"] /\ UNCHANGED <<attested, minimum>>
      BY <1>4 DEF Fence, LoseAdmission, ProcCrash
    <2> QED BY <2>1
  <1>5. ASSUME NEW p \in Procs, Admit(p) \/ SendLease(p) \/ Renew(p) \/ RunRenewal(p) \/ RenewalFails(p) \/ DropHold(p)
        PROVE  Attested' /\ DrainIsFinal'
    BY <1>5 DEF Admit, SendLease, Renew, RunRenewal, RenewalFails, DropHold
  <1>6. CASE Raise
    BY <1>6 DEF Raise
  <1>7. CASE Attest
    <2>1. PICK g \in Generations :
             /\ g <= minimum
             /\ \A p \in Procs : LiveLease(p) => Generation[p] >= g
             /\ attested' = attested \cup {g}
      BY <1>7 DEF Attest
    <2>2. \A p \in Procs : Generation[p] < g => ~Running(p)
      <3>1. \A p \in Procs : Running(p) => LiveLease(p)
        BY Leased DEF RunningIsLeased
      <3>2. \A p \in Procs : Generation[p] \in Nat /\ g \in Nat
        OBVIOUS
      <3> QED BY <2>1, <3>1, <3>2
    <2> QED BY <1>7, <2>1, <2>2 DEF Attest
  <1>8. CASE Tick \/ UNCHANGED fleetVars
    <2>1. UNCHANGED <<phase, minimum, attested>>
      BY <1>8 DEF Tick, fleetVars
    <2> QED BY <2>1 DEF Running
  <1> QED
    BY <1>1, <1>2, <1>3, <1>4, <1>5, <1>6, <1>7, <1>8 DEF FleetNext, ProcStep

LEMMA FleetStep == ~Drops /\ FleetInv /\ [FleetNext]_fleetVars => FleetInv'
  BY LeaseStep, WindowStep, DrainStep DEF FleetInv

(* As long as the connection of an admission does not fail, the drain the  *)
(* operator attested stays true (drain-evidence.ts, server-generation.ts). *)
THEOREM DrainStands == ASSUME ~Drops PROVE FleetSpec => []DrainIsFinal
  <1>1. FleetInv => DrainIsFinal
    BY DEF FleetInv
  <1>2. FleetInv /\ [FleetNext]_fleetVars => FleetInv'
    BY FleetStep
  <1> QED
    BY InitFleet, <1>1, <1>2, PTL DEF FleetSpec

(* Under the same condition no listener opens under a minimum that its     *)
(* build is below (main.ts).                                               *)
THEOREM NoStaleStart == ASSUME ~Drops PROVE FleetSpec => NoStaleListener
  <1>1. FleetInv /\ [FleetNext]_fleetVars
        => [\A p \in Procs : phase[p] # "serving" /\ phase'[p] = "serving" => minimum <= Generation[p]]_fleetVars
    <2> SUFFICES ASSUME FleetInv, FleetNext, NEW p \in Procs, phase[p] # "serving", phase'[p] = "serving"
                 PROVE  minimum <= Generation[p]
      OBVIOUS
    <2> USE DEF FleetInv, LeaseInv, FleetTypeOK, Stop
    <2>1. Listen(p)
      BY DEF FleetNext, ProcStep, Renew, RunRenewal, AnswerRenewal, RenewalFails, Fence, Admit, SendLease, Start, Listen,
             DropHold, LoseAdmission, ProcCrash, Raise, Attest, Tick
    <2> QED
      BY <2>1, StartedShares DEF Listen, Windowed
  <1>2. FleetInv /\ [FleetNext]_fleetVars => FleetInv'
    BY FleetStep
  <1> QED
    BY InitFleet, <1>1, <1>2, PTL DEF FleetSpec, NoStaleListener
=============================================================================

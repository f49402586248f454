------------------------- MODULE IdempotentCommands -------------------------
(***************************************************************************)
(* What the command kernel promises, with no transaction, lock or retry    *)
(* in it: the act a command key names is performed at most once, its       *)
(* result never changes, and a caller is only ever told of an act that was *)
(* performed.  CommandLedger implements this specification.                *)
(***************************************************************************)

CONSTANTS Calls,      \* the HTTP requests that reach executeCommand
          Slots,      \* the ledger subjects: who, where, which command, which key
          Nobody      \* "no call": the slot's act has not been performed

VARIABLES slotOf,     \* Calls -> the slot the call's key names, if it names one
          performed,  \* Slots -> the call whose execution is the slot's result
          told        \* Calls -> the call whose result the caller was answered

AbsInit ==
    /\ performed = [s \in Slots |-> Nobody]
    /\ told = [c \in Calls |-> Nobody]

\* The act behind call c's key is performed, once and for good.
Perform(c) ==
    /\ slotOf[c] \in Slots
    /\ performed[slotOf[c]] = Nobody
    /\ performed' = [performed EXCEPT ![slotOf[c]] = c]
    /\ UNCHANGED <<slotOf, told>>

\* The caller of c is answered with the one result its slot has.
TellKeyed(c) ==
    /\ told[c] = Nobody
    /\ slotOf[c] \in Slots
    /\ performed[slotOf[c]] # Nobody
    /\ told' = [told EXCEPT ![c] = performed[slotOf[c]]]
    /\ UNCHANGED <<slotOf, performed>>

\* A call without a key names no slot: it is answered with its own result.
TellUnkeyed(c) ==
    /\ told[c] = Nobody
    /\ slotOf[c] \notin Slots
    /\ told' = [told EXCEPT ![c] = c]
    /\ UNCHANGED <<slotOf, performed>>

AbsNext == \E c \in Calls : Perform(c) \/ TellKeyed(c) \/ TellUnkeyed(c)

AbsSpec == AbsInit /\ [][AbsNext]_<<slotOf, performed, told>>
=============================================================================

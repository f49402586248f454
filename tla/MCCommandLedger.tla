--------------------------- MODULE MCCommandLedger ---------------------------
(* A small instance of CommandLedger for TLC: three calls, each with one of  *)
(* the commands below.                                                       *)
EXTENDS CommandLedger, Sequences

CONSTANTS c1, c2, c3, o1, o2, k1, k2, make, cas, uniq

\* A repeatable command (create), a guarded update (cas) and an insert under a
\* unique index (uniq), keyed and unkeyed, with and without a peek; the same key
\* used by two owners and for two requests.
Sent(o, k, r, s, p) ==
    [owner |-> o, key |-> k, req |-> r, synth |-> s, peeks |-> p]

CommandList ==
    <<Sent(o1, k1, make, FALSE, FALSE), Sent(o1, k1, cas, FALSE, TRUE),
      Sent(o1, k1, uniq, FALSE, FALSE), Sent(o2, k1, cas, FALSE, TRUE),
      Sent(o1, k2, uniq, FALSE, TRUE), Sent(o1, NoKey, cas, FALSE, FALSE),
      Sent(o1, NoKey, make, TRUE, FALSE), Sent(o2, NoKey, uniq, FALSE, TRUE)>>

MCCommands == {CommandList[i] : i \in DOMAIN CommandList}

\* The calls are interchangeable: of the initial states that differ only in
\* which call sends which command, one is enough.  (A SYMMETRY set would say the
\* same, but not for temporal properties.)
Place(c) == CHOOSE i \in DOMAIN CommandList : CommandList[i] = cmd[c]
InOrder == Place(c1) <= Place(c2) /\ Place(c2) <= Place(c3)

MCInit == Init /\ InOrder
MCSpec == MCInit /\ [][Next]_vars /\ \A c \in Calls : WF_vars(Process(c))
=============================================================================

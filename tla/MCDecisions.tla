---------------------------- MODULE MCDecisions ----------------------------
(* One decision in a project that starts with a team: an org admin, an     *)
(* architect and a client.  The team, or who can sign in, changes at most  *)
(* MaxTurnover times.                                                      *)
EXTENDS Decisions, TLC

CONSTANTS Admin, Designer, Owner, MaxTurnover

VARIABLE turnover

mcVars == <<decisionVars, turnover>>

Team == Designer :> "architect" @@ Owner :> "client" @@ [p \in Users |-> "none"]

MCInit ==
    /\ seat = Team /\ retired = {} /\ reads = {}
    /\ status = [d \in Subjects |-> "none"] /\ holder = [d \in Subjects |-> "pmc"]
    /\ revs = [d \in Subjects |-> <<>>] /\ requests = [d \in Subjects |-> <<>>]
    /\ turnover = 0

MCNext ==
    /\ DecisionNext
    /\ turnover' = turnover + (IF <<seat, retired>>' # <<seat, retired>> THEN 1 ELSE 0)
    /\ turnover' <= MaxTurnover

MCSpec == MCInit /\ [][MCNext]_mcVars

==============================================================================

---------------------------- MODULE MCSiteWork ----------------------------
(* Small instances of the site's work.  The focus is chosen at the start:  *)
(* `review` follows one activity through its checklists while people come  *)
(* and go; `dispute` has mismatches and disputes on activities that share  *)
(* decisions, with their sign-offs but no ordinary checklist.              *)
EXTENDS SiteWork, TLC

CONSTANTS Focuses, Foreman, FewInspections

VARIABLE focus

mcVars == <<vars, focus>>

MCInit == Init /\ focus \in Focuses /\ (focus = "dispute" => \A p \in People : role[p] = "engineer")

FirstOnly == \A a \in Activities \ {CHOOSE x \in Activities : TRUE} : work'[a].status = "none"

MCNext ==
    /\ UNCHANGED focus
    /\ \/ focus = "review" /\ ReviewNext /\ FirstOnly
       \/ /\ focus = "dispute" /\ Next /\ role' = role /\ calls' = {}
          /\ Len(insps') <= FewInspections
          /\ \A i \in DOMAIN insps' : insps'[i].by = Foreman \/ insps'[i].parent > 0

MCSpec == MCInit /\ [][MCNext]_mcVars

==============================================================================

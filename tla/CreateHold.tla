----------------------------- MODULE CreateHold -----------------------------
(* One user creating projects from the tabs of a browser, against a server *)
(* that may answer late or not at all.  The browser keeps one record of    *)
(* the attempt that is held; every tab works under reservations (leases)   *)
(* of it, and each transition of the record runs under one cross-tab lock, *)
(* so it is one action.  Between two of them a tab awaits the server, the  *)
(* lock or a reply, while the other tabs, a reload and a sign-out go on.   *)
(*                                                                         *)
(* jobs[l] is what lease l was taken for.  An attempt, whose key the server *)
(* sees, is named by its first lease; both are fresh identifiers.  A keyed *)
(* create is one step of the server: CommandLedger shows that it is.  A    *)
(* request may wait on its way for ever, and its sender may stop listening. *)
(* What the user names and the texts a dialog shows are left out.          *)
EXTENDS Naturals, Sequences

CONSTANTS Tabs, MaxLeases

ASSUME HoldAssumption == MaxLeases \in Nat

VARIABLES
    record,     \* the durable record of the scope
    jobs,       \* the reservations, in the order they were taken
    live,       \* the leases their own document still holds
    signed,     \* the tabs in which the user is signed in
    wire,       \* the leases whose request has not reached the server
    made,       \* the leases whose request created a project
    kept,       \* the attempts whose receipt is committed
    standing,   \* whether the server would accept a create
    keeping     \* whether the server keeps receipts of creates

clientVars == <<record, live, signed>>
serverVars == <<made, kept, standing, keeping>>
holdVars == <<clientVars, jobs, wire, serverVars>>

Leases == 1 .. Len(jobs)
Answers == {"none", "created", "refused"}
Stages == {"probing", "cleared", "sent", "settling", "releasing", "over"}
Job == [tab: Tabs, attempt: Nat \ {0}, at: Stages,
        went: BOOLEAN,       \* history: its request was sent
        reply: Answers,      \* the server's answer on its way back
        verdict: Answers]    \* the answer the tab has read

Nothing == [state |-> "none", attempt |-> 0, lease |-> 0]
Held(a, l) == [state |-> "held", attempt |-> a, lease |-> l]
Settled(a) == [state |-> "settled", attempt |-> a, lease |-> 0]

HoldTypeOK ==
    /\ record \in [state: {"none", "held", "settled"}, attempt: Nat, lease: Nat]
    /\ jobs \in Seq(Job)
    /\ live \subseteq Leases /\ wire \subseteq Leases /\ made \subseteq Leases
    /\ signed \subseteq Tabs
    /\ kept \subseteq Leases
    /\ standing \in BOOLEAN /\ keeping \in BOOLEAN

HoldInit ==
    /\ record = Nothing /\ jobs = <<>> /\ live = {} /\ signed = Tabs /\ wire = {}
    /\ made = {} /\ kept = {} /\ standing = TRUE /\ keeping \in BOOLEAN

-----------------------------------------------------------------------------
(* Reservations.                                                           *)

LiveIn(t) == {l \in live : jobs[l].tab = t}

IsHeld(l) == record.state = "held" /\ record.lease = l

TakeLease(t, a) ==
    /\ Len(jobs) < MaxLeases
    /\ jobs' = Append(jobs, [tab |-> t, attempt |-> a, at |-> "probing", went |-> FALSE,
                             reply |-> "none", verdict |-> "none"])
    /\ record' = Held(a, Len(jobs) + 1)
    /\ live' = live \cup {Len(jobs) + 1}
    /\ UNCHANGED <<signed, wire, serverVars>>

\* reserveNewCreate, unless the dialog shows an attempt: one that is held, or
\* one of this document that nothing has settled yet.
Create(t) ==
    /\ t \in signed
    /\ record.state # "held"
    /\ \A l \in LiveIn(t) : record.state = "settled" /\ jobs[l].attempt = record.attempt
    /\ TakeLease(t, Len(jobs) + 1)

\* reserveCreateRetry: the held attempt under a new lease.
Retry(t) ==
    /\ t \in signed
    /\ record.state = "held"
    /\ record.lease \notin LiveIn(t)
    /\ TakeLease(t, record.attempt)

-----------------------------------------------------------------------------
(* The way of a reservation to its settlement (sendReserved).              *)

Moves(l, at) == jobs' = [jobs EXCEPT ![l].at = at]

\* The lease leaves its document.
Ends(l) == Moves(l, "over") /\ live' = live \ {l}

\* serverKeepsCreateReceipts answers, or fails; then the user is looked at.
Probe(l) ==
    /\ jobs[l].at = "probing"
    /\ \/ keeping /\ jobs[l].tab \in signed /\ Moves(l, "cleared")
       \/ Moves(l, "releasing")
    /\ UNCHANGED <<clientVars, wire, serverVars>>

\* beginCreateSend: under the lock, and only while the lease is the record's.
SendCreate(l) ==
    /\ jobs[l].at = "cleared" /\ IsHeld(l)
    /\ IF jobs[l].tab \in signed
         THEN /\ jobs' = [jobs EXCEPT ![l].at = "sent", ![l].went = TRUE]
              /\ wire' = wire \cup {l}
         ELSE Moves(l, "releasing") /\ UNCHANGED wire
    /\ UNCHANGED <<clientVars, serverVars>>

Superseded(l) ==
    /\ jobs[l].at = "cleared" /\ ~IsHeld(l)
    /\ Ends(l)
    /\ UNCHANGED <<record, signed, wire, serverVars>>

\* The reply is read, or the tab gives up on it: no answer, a 5xx, a 401, 408
\* or 429.
ReadAnswer(l) ==
    /\ jobs[l].at = "sent"
    /\ \E v \in {jobs[l].reply, "none"} : jobs' = [jobs EXCEPT ![l].at = "settling", ![l].verdict = v]
    /\ UNCHANGED <<clientVars, wire, serverVars>>

\* Variant: a refusal settles the attempt whoever holds it now.
SettleForAll(l) ==
    /\ jobs[l].at = "settling"
    /\ record' = IF record.state = "held" /\ record.attempt = jobs[l].attempt /\ jobs[l].verdict # "none"
                   THEN Settled(record.attempt) ELSE record
    /\ Ends(l)
    /\ UNCHANGED <<signed, wire, serverVars>>

\* settleCreate: a confirmation settles the attempt under any lease, a refusal
\* under the current one; anything else leaves it held.
Settle(l) ==
    /\ jobs[l].at = "settling"
    /\ record' = IF \/ jobs[l].verdict = "created" /\ record.state = "held" /\ record.attempt = jobs[l].attempt
                    \/ jobs[l].verdict = "refused" /\ IsHeld(l)
                   THEN Settled(record.attempt) ELSE record
    /\ Ends(l)
    /\ UNCHANGED <<signed, wire, serverVars>>

\* Variant: what was never sent is put back without looking at the record.
ReleaseBlindly(l) ==
    /\ jobs[l].at = "releasing"
    /\ record' = IF jobs[l].attempt = l THEN Settled(l) ELSE Held(jobs[l].attempt, l)
    /\ Ends(l)
    /\ UNCHANGED <<signed, wire, serverVars>>

\* releaseCreate: a new attempt is let go, a retried one stays held.
Release(l) ==
    /\ jobs[l].at = "releasing"
    /\ record' = IF IsHeld(l) /\ jobs[l].attempt = l THEN Settled(l) ELSE record
    /\ Ends(l)
    /\ UNCHANGED <<signed, wire, serverVars>>

\* The browser refuses the lock, or storage refuses the write: the record stays
\* as it is and reads as unknown.
Thwarted(l) ==
    /\ jobs[l].at \in {"cleared", "settling", "releasing"}
    /\ Ends(l)
    /\ UNCHANGED <<record, signed, wire, serverVars>>

-----------------------------------------------------------------------------
(* The tabs, and the server.                                               *)

\* A reload or a closed tab: its document's reservations are gone, what it sent
\* is not.
Reload(t) ==
    /\ jobs' = [l \in Leases |-> IF jobs[l].tab = t THEN [jobs[l] EXCEPT !.at = "over"] ELSE jobs[l]]
    /\ live' = live \ LiveIn(t)
    /\ UNCHANGED <<record, signed, wire, serverVars>>

SignInOrOut(t) ==
    /\ signed' = IF t \in signed THEN signed \ {t} ELSE signed \cup {t}
    /\ UNCHANGED <<record, live, jobs, wire, serverVars>>

\* createProject under a key: a receipt answers, else the standing is judged in
\* the transaction that would make both.  A server that keeps no receipts makes
\* a project each time.
Receive(l) ==
    /\ l \in wire
    /\ wire' = wire \ {l}
    /\ IF jobs[l].attempt \in kept THEN
          /\ jobs' = [jobs EXCEPT ![l].reply = "created"]
          /\ UNCHANGED <<made, kept>>
       ELSE IF standing THEN
          /\ jobs' = [jobs EXCEPT ![l].reply = "created"]
          /\ made' = made \cup {l}
          /\ kept' = IF keeping THEN kept \cup {jobs[l].attempt} ELSE kept
       ELSE
          /\ jobs' = [jobs EXCEPT ![l].reply = "refused"]
          /\ UNCHANGED <<made, kept>>
    /\ UNCHANGED <<clientVars, standing, keeping>>

\* An org role, or what the create names, comes and goes.
ChangeStanding == standing' = ~standing /\ UNCHANGED <<clientVars, jobs, wire, made, kept, keeping>>

\* The API deploys apart from the page, and is not rolled back.
Upgrade == ~keeping /\ keeping' = TRUE /\ UNCHANGED <<clientVars, jobs, wire, made, kept, standing>>

JobStep(l) == Probe(l) \/ SendCreate(l) \/ Superseded(l) \/ ReadAnswer(l) \/ Settle(l) \/ Release(l) \/ Thwarted(l) \/ Receive(l)

HoldNext == \/ \E t \in Tabs : Create(t) \/ Retry(t) \/ Reload(t) \/ SignInOrOut(t)
            \/ \E l \in Leases : JobStep(l)
            \/ ChangeStanding \/ Upgrade

HoldSpec == HoldInit /\ [][HoldNext]_holdVars

-----------------------------------------------------------------------------
\* The server's answer is known for an attempt: a tab has read that it made a
\* project, or that its newest request was refused.
Newest(l) == \A m \in Leases : jobs[m].attempt = jobs[l].attempt => m <= l
Answered(l) == jobs[l].verdict = "created" \/ (jobs[l].verdict = "refused" /\ Newest(l))
Known(a) == \E l \in Leases : jobs[l].attempt = a /\ Answered(l)

\* No attempt is lost: whatever tabs retry, reload, sign out and settle, an
\* attempt that was sent and of which no answer is known is the one the record
\* holds (projectCreateHold.ts: "The client must never lose an attempt whose
\* outcome is unknown").
NoAttemptLost ==
    \A l \in Leases : jobs[l].went /\ ~Known(jobs[l].attempt) =>
        record.state = "held" /\ record.attempt = jobs[l].attempt

\* An attempt makes one project at most, however often and from whichever tab it
\* was sent, before and after the server learned to keep receipts.
OneProjectAnAttempt == \A l, m \in made : jobs[l].attempt = jobs[m].attempt => l = m

\* No dialog is stuck: what a document holds as in flight is still under way.
NoneStuck == \A l \in live : jobs[l].at # "over"

\* The three, with the types.
HoldIsSound == HoldTypeOK /\ NoAttemptLost /\ OneProjectAnAttempt /\ NoneStuck

\* An attempt once settled, by any tab, is never held again, and one that is held
\* is displaced by no other: whichever of the tabs' late releases, retries and
\* answers comes last, the record takes up a new attempt only when it holds none.
SettledForGood ==
    [][record'.state = "held" =>
         \/ record.state # "held" /\ record'.attempt \notin Leases
         \/ record.state = "held" /\ record'.attempt = record.attempt]_holdVars

\* The user's second key waits: while the record holds one attempt, no request
\* of an earlier one that would still make a project is on its way
\* (projectCreateHold.ts: "never mint a second key while one may still commit").
SecondKeyWaits ==
    \A l \in wire : record.state = "held" /\ jobs[l].attempt # record.attempt => jobs[l].attempt \in kept
=============================================================================

------------------------------- MODULE Fleet -------------------------------
(* The serving processes of a rolling deployment.  A process starts only   *)
(* if the build it runs is not below the persisted minimum generation, and *)
(* holds that row FOR SHARE until it serves, so that a migration cannot    *)
(* raise the minimum meanwhile.  While it serves it renews a lease, and    *)
(* stops by itself before the lease could run out; an operator reads the   *)
(* live leases to learn that no older process is left.                     *)
(*                                                                         *)
(* One clock counts for the database and the processes: the code needs     *)
(* their rates, never their readings, to agree.  A timer fires up to Late  *)
(* ticks after it is due.  A restarted process is another member of Procs. *)
EXTENDS Naturals, FiniteSets

CONSTANTS
    Procs, Generation,     \* the processes and the generation each was built as
    Generations,           \* what a migration may raise the minimum to
    TTL, Margin,           \* a lease's length, and how long before its end the process stops
    Hold, HoldMargin,      \* the same for the admission transaction
    Late, MaxTime,
    Drops                  \* whether a held connection may fail

ASSUME FleetAssumption ==
    /\ Generation \in [Procs -> Generations] /\ Generations \subseteq Nat \ {0}
    /\ TTL \in Nat /\ Margin \in Nat /\ Hold \in Nat /\ HoldMargin \in Nat /\ Late \in Nat /\ MaxTime \in Nat \ {0}
    /\ Late < Margin /\ Margin < TTL /\ Late < HoldMargin /\ HoldMargin < Hold
    /\ Drops \in BOOLEAN

VARIABLES
    now, minimum,
    phase,       \* process -> where its start has come to
    admittedAt,  \* process -> when its admission transaction began
    sharing,     \* the processes whose admission transaction still locks the row
    lease,       \* process -> when its lease runs out on the database, 0 before
    fenceAt,     \* process -> when it stops itself
    renewal,     \* process -> the lease statement under way
    attested     \* the generations below which the operator saw no live lease

leaseVars == <<lease, fenceAt, renewal>>
fleetVars == <<now, minimum, phase, admittedAt, sharing, leaseVars, attested>>

Phases == {"off", "boot", "started", "serving", "stopped"}
Idle == [state |-> "none", sentAt |-> 0]

FleetTypeOK ==
    /\ now \in 0..MaxTime /\ minimum \in Generations
    /\ phase \in [Procs -> Phases] /\ sharing \subseteq Procs
    /\ admittedAt \in [Procs -> Nat] /\ lease \in [Procs -> Nat] /\ fenceAt \in [Procs -> Nat]
    /\ renewal \in [Procs -> [state: {"none", "sent", "renewed", "missed"}, sentAt: Nat]]
    /\ attested \subseteq Generations

FleetInit ==
    /\ now = 1 /\ minimum \in {g \in Generations : \A h \in Generations : g <= h}
    /\ phase = [p \in Procs |-> "off"] /\ sharing = {}
    /\ admittedAt = [p \in Procs |-> 0] /\ lease = [p \in Procs |-> 0] /\ fenceAt = [p \in Procs |-> 0]
    /\ renewal = [p \in Procs |-> Idle]
    /\ attested = {}

\* A process handles work from the moment its relay starts.
Running(p) == phase[p] \in {"started", "serving"}
LiveLease(p) == lease[p] > now

\* A stopped process forgets its timers; its lease stays where it stands.
Stop(p) ==
    /\ phase' = [phase EXCEPT ![p] = "stopped"] /\ sharing' = sharing \ {p}
    /\ admittedAt' = [admittedAt EXCEPT ![p] = 0] /\ fenceAt' = [fenceAt EXCEPT ![p] = 0]

------------------------------------------------------------------------------
(* The lease.                                                               *)

Later(a, b) == IF a >= b THEN a ELSE b

SendRenewal(p) == renewal' = [renewal EXCEPT ![p] = [state |-> "sent", sentAt |-> now]]

\* The first statement inserts the lease; a later one extends only a live one.
Extends(p) == lease[p] = 0 \/ LiveLease(p)

\* The database runs the statement, at some time after it was sent.
RunRenewal(p) ==
    /\ renewal[p].state = "sent"
    /\ IF Extends(p)
       THEN /\ lease' = [lease EXCEPT ![p] = Later(@, now + TTL)]
            /\ renewal' = [renewal EXCEPT ![p].state = "renewed"]
       ELSE /\ renewal' = [renewal EXCEPT ![p].state = "missed"]
            /\ UNCHANGED lease
    /\ UNCHANGED <<now, minimum, phase, admittedAt, sharing, fenceAt, attested>>

\* Variant: the fence is measured from the answer, not from the request.
FenceTimeOfAnswer(p) == now + TTL - Margin

FenceTime(p) == renewal[p].sentAt + TTL - Margin

ArmFence(p) == fenceAt' = [fenceAt EXCEPT ![p] = FenceTime(p)]

\* A renewal's answer reaches a process that is still running, or is lost.
AnswerRenewal(p) ==
    /\ Running(p) /\ renewal[p].state \in {"renewed", "missed"}
    /\ renewal' = [renewal EXCEPT ![p] = Idle]
    /\ \/ renewal[p].state = "renewed" /\ ArmFence(p) /\ UNCHANGED <<phase, sharing, admittedAt>>
       \/ renewal[p].state = "missed" /\ Stop(p)
       \/ UNCHANGED <<phase, sharing, admittedAt, fenceAt>>
    /\ UNCHANGED <<now, minimum, lease, attested>>

\* A statement that never reached the database.
RenewalFails(p) ==
    /\ Running(p) /\ renewal[p].state = "sent"
    /\ renewal' = [renewal EXCEPT ![p] = Idle]
    /\ UNCHANGED <<now, minimum, phase, admittedAt, sharing, lease, fenceAt, attested>>

Renew(p) ==
    /\ Running(p) /\ renewal[p].state = "none"
    /\ SendRenewal(p)
    /\ UNCHANGED <<now, minimum, phase, admittedAt, sharing, lease, fenceAt, attested>>

------------------------------------------------------------------------------
(* The start of a process.                                                  *)

Admitted(p) == minimum <= Generation[p]

\* onModuleInit: the row is read FOR SHARE and stays locked.
Admit(p) ==
    /\ phase[p] = "off" /\ Admitted(p)
    /\ phase' = [phase EXCEPT ![p] = "boot"] /\ sharing' = sharing \cup {p}
    /\ admittedAt' = [admittedAt EXCEPT ![p] = now]
    /\ UNCHANGED <<now, minimum, leaseVars, attested>>

\* serveBehindFence comes to the lease once the catalog is synced.
SendLease(p) ==
    /\ phase[p] = "boot" /\ renewal[p].state = "none"
    /\ SendRenewal(p)
    /\ UNCHANGED <<now, minimum, phase, admittedAt, sharing, lease, fenceAt, attested>>

\* When the process gives its hold up, on its own clock.
HoldEnds(p) == admittedAt[p] + Hold - HoldMargin

\* The lease is registered, the fence and the watch over the hold are armed and
\* the relay is started; a timer that is already due fires before anything else.
Start(p) ==
    /\ phase[p] = "boot" /\ renewal[p].state = "renewed"
    /\ renewal' = [renewal EXCEPT ![p] = Idle]
    /\ \/ /\ now < FenceTime(p) /\ now < HoldEnds(p)
          /\ phase' = [phase EXCEPT ![p] = "started"] /\ ArmFence(p) /\ UNCHANGED <<sharing, admittedAt>>
       \/ (now >= FenceTime(p) \/ now >= HoldEnds(p)) /\ Stop(p)
    /\ UNCHANGED <<now, minimum, lease, attested>>

\* The listener is open, and the admission is released without asking how it ends.
Listen(p) ==
    /\ phase[p] = "started"
    /\ phase' = [phase EXCEPT ![p] = "serving"] /\ sharing' = sharing \ {p}
    /\ admittedAt' = [admittedAt EXCEPT ![p] = 0]
    /\ UNCHANGED <<now, minimum, leaseVars, attested>>

\* The admission transaction is rolled back under the process: at its bound, or with its connection.
DropHold(p) ==
    /\ p \in sharing /\ (Drops \/ now >= admittedAt[p] + Hold)
    /\ sharing' = sharing \ {p}
    /\ UNCHANGED <<now, minimum, phase, admittedAt, leaseVars, attested>>


\* The watch over the hold: its deadline, or a probe of a connection that is gone.
LoseAdmission(p) ==
    /\ phase[p] = "started"
    /\ p \notin sharing \/ now >= HoldEnds(p)
    /\ Stop(p)
    /\ UNCHANGED <<now, minimum, lease, renewal, attested>>

\* A boot step throws, the process crashes, or it is shut down.
ProcCrash(p) ==
    /\ phase[p] \notin {"off", "stopped"}
    /\ Stop(p)
    /\ UNCHANGED <<now, minimum, lease, renewal, attested>>

FenceDue(p) == Running(p) /\ now >= fenceAt[p]

Fence(p) ==
    /\ FenceDue(p)
    /\ Stop(p)
    /\ UNCHANGED <<now, minimum, lease, renewal, attested>>

------------------------------------------------------------------------------
(* The deployment.                                                          *)

\* Variant: the migration does not wait for the holders of the shared row.
UnsharedIgnored == TRUE
\* Variant: an admission is released when the boot ends, before the listener opens.
UnsharedUntilInit == \A p \in sharing : phase[p] = "started"

Unshared == sharing = {}

\* A migration's UPDATE waits for every SHARE lock on the row.
Raise ==
    /\ Unshared
    /\ \E g \in {h \in Generations : h > minimum} : minimum' = g
    /\ UNCHANGED <<now, phase, admittedAt, sharing, leaseVars, attested>>

\* The drain evidence, asked once the minimum has been raised.
Attest ==
    /\ \E g \in Generations \ attested :
        /\ g <= minimum
        /\ \A p \in Procs : LiveLease(p) => Generation[p] >= g
        /\ attested' = attested \cup {g}
    /\ UNCHANGED <<now, minimum, phase, admittedAt, sharing, leaseVars>>

\* Time passes; a due timer fires within Late ticks.
Tick ==
    /\ now < MaxTime
    /\ \A p \in Procs : /\ Running(p) => now < fenceAt[p] + Late
                        /\ phase[p] = "started" => now < HoldEnds(p) + Late
    /\ now' = now + 1
    /\ UNCHANGED <<minimum, phase, admittedAt, sharing, leaseVars, attested>>

ProcStep(p) ==
    \/ Renew(p) \/ RunRenewal(p) \/ AnswerRenewal(p) \/ RenewalFails(p) \/ Fence(p)
    \/ Admit(p) \/ SendLease(p) \/ Start(p) \/ Listen(p) \/ DropHold(p) \/ LoseAdmission(p) \/ ProcCrash(p)

FleetNext == Raise \/ Attest \/ Tick \/ \E p \in Procs : ProcStep(p)

FleetSpec == FleetInit /\ [][FleetNext]_fleetVars

------------------------------------------------------------------------------
(* Properties.                                                              *)

\* No process does work without a lease that is live on the database's
\* clock, however late its renewals run and whichever answers are lost
\* ("a process whose lease has run out must not be serving").
RunningIsLeased == \A p \in Procs : Running(p) => LiveLease(p)

\* The fleet is fenced: its clocks and registers keep their types, and no process
\* outlives its lease.
FleetIsFenced == FleetTypeOK /\ RunningIsLeased

\* Once the minimum was raised and no live lease of an older build was seen,
\* no process of an older build works, and none ever will.
DrainIsFinal ==
    \A g \in attested : \A p \in Procs : Generation[p] < g => ~Running(p)

\* No process opens its listener under a minimum that its build is below
\* ("a raise cannot commit between a process's admission and its serving").
NoStaleListener ==
    [][\A p \in Procs : phase[p] # "serving" /\ phase'[p] = "serving" => minimum <= Generation[p]]_fleetVars
=============================================================================

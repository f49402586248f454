--------------------------- MODULE ProjectionProofs ---------------------------
(***************************************************************************)
(* Safety of a projection's generations, for any number of projects,       *)
(* events, generations, relays, rebuilds and reads.                        *)
(*                                                                         *)
(* The invariant says who may write a generation: the relay that holds the *)
(* row lock writes the active one, a rebuild its own building one, and     *)
(* nobody the others; what a generation, a lock holder and a rebuild then  *)
(* know of the stream; and what a read knows of the generation it is in.   *)
(***************************************************************************)
EXTENDS ProjectionGenerations, FiniteSetTheorems, WellFoundedInduction, TLAPS

\* The positions of a stream below one.
Before(positions, n) == {i \in positions : 0 <= i /\ i < n}

\* Rows that show any of a project show what is older than its stream.
WithOlder(positions, rows) == rows # {} /\ -1 \in positions => -1 \in rows

\* Nothing refers to an event that is not committed.
Committed(d) == d \in Delivered /\ d[2] < head[d[1]]

StreamInv ==
    /\ \A p \in Projects : \A i \in ours[p] : i < head[p]
    /\ \A d \in due : Committed(d)
    /\ \A d \in Delivered : Row(d).status # "absent" => Committed(d)

\* A generation is complete up to its checkpoint and shows nothing uncommitted.
GenInv(p, g) ==
    LET gen == gens[p][g] IN
    /\ gen.next <= head[p]
    /\ gen.rows \subseteq ours[p]
    /\ Before(ours[p], gen.next) \subseteq gen.rows
    /\ WithOlder(ours[p], gen.rows)
    /\ gen.status = "none" => gen = NoGeneration
    /\ gen.status = "dropped" => gen.rows = {}

\* The relay in its transaction holds the lock of the active generation, or of
\* the one it bootstraps; what it is about to write continues that generation.
Locking == {"judge", "apply"}
Working == {"ask", "await", "settle", "release", "fail"} \cup Locking

RelayInv(w) ==
    LET p == relay[w].job[1]
        i == relay[w].job[2]
        g == relay[w].gen IN
    /\ \A d \in relay[w].batch : Committed(d)
    /\ relay[w].at \in Working => Committed(relay[w].job)
    /\ relay[w].at \in Locking =>
          /\ holder[p] = w
          /\ IF g = 0 THEN Active(p) = {} /\ Unused(p) # {} ELSE g \in Active(p)
    /\ relay[w].at = "apply" =>
          /\ i = Locked(w).next
          /\ relay[w].snap \subseteq ours[p]
          /\ Locked(w).rows \subseteq relay[w].snap
          /\ Before(ours[p], i + 1) \subseteq relay[w].snap
          /\ WithOlder(ours[p], relay[w].snap)

\* A rebuild owns a building generation; its barrier keeps the stream still.
RebuildInv(r) ==
    LET p == rebuild[r].project
        g == rebuild[r].gen IN
    rebuild[r].at # "idle" =>
        /\ p \in Projects /\ g \in Generations
        /\ gens[p][g].status = "building"
        /\ rebuild[r].upto <= head[p]
        /\ rebuild[r].at = "mark" => Before(ours[p], rebuild[r].upto) \subseteq gens[p][g].rows
        /\ rebuild[r].at \in {"tail", "swap"} => stream[p] = r
        /\ rebuild[r].at = "swap" => gens[p][g].next = head[p]

OwnBuild ==
    \A q, r \in Rebuilders :
        rebuild[q].at # "idle" /\ rebuild[r].at # "idle" /\ rebuild[q].project = rebuild[r].project
          /\ rebuild[q].gen = rebuild[r].gen => q = r

\* What is settled, or about to be, is in the generation that serves.
Reflected(d) == \E g \in Active(d[1]) : d[2] < gens[d[1]][g].next

SettledInv ==
    /\ \A w \in Relays, d \in Delivered : relay[w].at = "settle" /\ relay[w].job = d => Reflected(d)
    /\ SucceededIsReflected

\* A read is in a generation that was active.  Once it has found it caught up,
\* that generation shows what was canonical then, or nothing at all; so does what
\* a relay is about to write to it.
ReadInv(x) ==
    LET p == reader[x].project
        g == reader[x].gen
        canon == reader[x].canon IN
    /\ reader[x].at \in {"head", "rows"} =>
          /\ p \in Projects /\ g \in Generations
          /\ gens[p][g].status \in {"active", "retired", "dropped"}
    /\ reader[x].at = "head" => gens[p][g].status = "dropped" \/ reader[x].next <= gens[p][g].next
    /\ reader[x].at = "rows" =>
          /\ canon \subseteq ours[p]
          /\ gens[p][g].rows = {} \/ canon \subseteq gens[p][g].rows
          /\ \A w \in Relays :
                relay[w].at = "apply" /\ relay[w].job[1] = p /\ relay[w].gen = g
                    => relay[w].snap = {} \/ canon \subseteq relay[w].snap
    /\ reader[x].at = "served" => canon \subseteq reader[x].rows

ProjectionInv ==
    /\ TypeOK
    /\ StreamInv
    /\ \A p \in Projects, g \in Generations : GenInv(p, g)
    /\ \A w \in Relays : RelayInv(w)
    /\ \A r \in Rebuilders : RebuildInv(r)
    /\ OwnBuild
    /\ SettledInv
    /\ \A x \in Readers : ReadInv(x)
-----------------------------------------------------------------------------
LEMMA Least ==
    ASSUME NEW S, S \subseteq Nat, S # {}
    PROVE  \E m \in S : \A n \in S : m <= n
  <1> DEFINE R == {ss \in Nat \X Nat : ss[1] < ss[2]}
  <1>1. IsWellFoundedOn(R, Nat)
    BY NatLessThanWellFounded DEF OpToRel
  <1>2. PICK m \in S : \A n \in S : ~(<<n, m>> \in R)
    <2> HIDE DEF R
    <2> QED BY <1>1, WFMin
  <1>3. \A n \in S : ~(n < m)
    BY <1>2
  <1> QED BY <1>2, <1>3

\* A fresh generation is one that is not used yet.
LEMMA UnusedTaken ==
    ASSUME NEW p \in Projects, Unused(p) # {}
    PROVE  NextUnused(p) \in Unused(p) /\ NextUnused(p) \in Generations
  <1>1. Unused(p) \subseteq Nat /\ Unused(p) \subseteq Generations
    BY DEF Unused, Generations
  <1>2. \E g \in Unused(p) : \A f \in Unused(p) : g <= f
    BY <1>1, Least
  <1> QED BY <1>1, <1>2 DEF NextUnused

LEMMA AnotherUnused ==
    ASSUME NEW p \in Projects, Cardinality(Unused(p)) > 1, NEW g
    PROVE  Unused(p) \ {g} # {}
  <1>1. CASE Unused(p) = {}
    BY <1>1, FS_EmptySet
  <1>2. CASE Unused(p) = {g}
    <2>1. Cardinality({g}) = 1
      BY FS_Singleton
    <2> QED BY <1>2, <2>1
  <1> QED BY <1>1, <1>2
-----------------------------------------------------------------------------
RelayStep(w) == Deliver(w) \/ HandlerFails(w) \/ CrashRelay(w)
RowStep(d) == BackoffElapses(d) \/ LeaseExpires(d) \/ Retry(d)
BuildStep(r) == Build(r) \/ CrashRebuild(r) \/ \E p \in Projects : Allocate(r, p)

LEMMA NextSplit ==
    ASSUME [Next]_vars
    PROVE  \/ \E p \in Projects : Emit(p) \/ DropRetired(p)
           \/ \E w \in Relays : RelayStep(w)
           \/ \E d \in Delivered : RowStep(d)
           \/ \E r \in Rebuilders : BuildStep(r)
           \/ \E x \in Readers : Read(x)
           \/ UNCHANGED vars
  BY DEF Next, RelayStep, RowStep, BuildStep

LEMMA RelayFrame ==
    ASSUME TypeOK, NEW w \in Relays, RelayStep(w)
    PROVE  /\ UNCHANGED <<head, ours, stream, rebuild, reader>>
           /\ \A v \in Relays \ {w} : relay'[v] = relay[v]
  <1>1. UNCHANGED <<head, ours, stream, rebuild, reader>>
    BY DEF RelayStep, Deliver, HandlerFails, CrashRelay, Claim, EndPass, LoadRow, AskLock, TakeLock, Skip, Refresh, Apply,
           Settle, Fail, canonVars
  <1>2. \A v \in Relays \ {w} : relay'[v] = relay[v]
    BY DEF TypeOK, RelayStep, Deliver, HandlerFails, CrashRelay, Claim, EndPass, LoadRow, AskLock, TakeLock, Skip, Refresh,
           Apply, Settle, Fail, Step, NextJob, CommitGeneration
  <1> QED BY <1>1, <1>2

LEMMA RowFrame ==
    ASSUME NEW d \in Delivered, RowStep(d)
    PROVE  UNCHANGED <<head, ours, gens, holder, stream, relay, rebuild, reader>>
  BY DEF RowStep, BackoffElapses, LeaseExpires, Retry, canonVars

LEMMA BuildFrame ==
    ASSUME TypeOK, NEW r \in Rebuilders, BuildStep(r)
    PROVE  /\ UNCHANGED <<head, ours, holder, delivery, due, expired, relay, reader>>
           /\ \A q \in Rebuilders \ {r} : rebuild'[q] = rebuild[q]
  <1>1. UNCHANGED <<head, ours, holder, delivery, due, expired, relay, reader>>
    BY DEF BuildStep, Build, Seed, Replay, EndCatchUp, Barrier, FindPrevious, Swap, CrashRebuild, Allocate, canonVars, rowVars
  <1>2. \A q \in Rebuilders \ {r} : rebuild'[q] = rebuild[q]
    BY DEF TypeOK, BuildStep, Build, Seed, Replay, EndCatchUp, Barrier, FindPrevious, Swap, CrashRebuild, Allocate, EndRebuild,
           RStep
  <1> QED BY <1>1, <1>2

LEMMA ReadFrame ==
    ASSUME TypeOK, NEW x \in Readers, Read(x)
    PROVE  /\ UNCHANGED <<head, ours, gens, holder, stream, delivery, due, expired, relay, rebuild, bound>>
           /\ \A y \in Readers \ {x} : reader'[y] = reader[y]
  BY DEF TypeOK, Read, ReadHead, ReadRows, EndRead, ReadGeneration, canonVars, rowVars

LEMMA StreamFrame ==
    ASSUME NEW p \in Projects, Emit(p) \/ DropRetired(p)
    PROVE  /\ UNCHANGED <<holder, stream, expired, relay, rebuild, reader, bound>>
           /\ Emit(p) => gens' = gens
           /\ DropRetired(p) => UNCHANGED <<head, ours, delivery, due>>
  BY DEF Emit, DropRetired, canonVars, rowVars

\* The stream only grows, at its end and while nobody holds it.
Grows(p) ==
    \/ head'[p] = head[p] /\ ours'[p] = ours[p]
    \/ /\ stream[p] = Free
       /\ head'[p] = head[p] + 1
       /\ ours'[p] = ours[p] \/ ours'[p] = ours[p] \cup {head[p]}

LEMMA StreamGrows ==
    ASSUME TypeOK, [Next]_vars, NEW p \in Projects
    PROVE  Grows(p)
  <1>1. ASSUME NEW q \in Projects, Emit(q)
        PROVE  Grows(p)
    BY <1>1 DEF Emit, Grows, TypeOK
  <1>2. CASE UNCHANGED <<head, ours>>
    BY <1>2 DEF Grows
  <1> QED BY <1>1, <1>2, NextSplit, RelayFrame, RowFrame, BuildFrame, ReadFrame, StreamFrame DEF vars

\* What was before a committed position stays what it was.
LEMMA BeforeKept ==
    ASSUME TypeOK, [Next]_vars, NEW p \in Projects
    PROVE  /\ head[p] \in Nat /\ head'[p] \in Nat /\ head[p] <= head'[p]
           /\ ours[p] \subseteq ours'[p]
           /\ -1 \in ours'[p] => -1 \in ours[p]
           /\ \A n \in Nat : n <= head[p] => Before(ours'[p], n) = Before(ours[p], n)
  <1>1. head[p] \in Nat /\ ours[p] \subseteq Positions \cup {-1} /\ Positions \subseteq Nat
    BY DEF TypeOK, Positions
  <1>2. Grows(p)
    BY StreamGrows
  <1> QED BY <1>1, <1>2 DEF Grows, Before

\* A generation's new row, field by field.
Becomes(p, g, s, n, rows) ==
    gens'[p][g].status = s /\ gens'[p][g].next = n /\ gens'[p][g].rows = rows

\* The relay and the rebuild that may write a generation.
Writes(w, p, g) ==
    /\ relay[w].at \in Locking /\ relay[w].job[1] = p
    /\ IF relay[w].gen = 0 THEN Active(p) = {} /\ g \in Unused(p) ELSE g = relay[w].gen /\ g \in Active(p)

Owns(r, p, g) == rebuild[r].at # "idle" /\ rebuild[r].project = p /\ rebuild[r].gen = g

OwnerMove(r, p, g) ==
    LET gen == gens[p][g] IN
    \/ rebuild[r].at = "rows" /\ Becomes(p, g, "building", gen.next, ours[p])
    \/ rebuild[r].at = "mark" /\ Becomes(p, g, "building", rebuild[r].upto, gen.rows)
    \/ gen.next < head[p] /\ Becomes(p, g, "building", gen.next + 1, IF gen.next \in ours[p] THEN ours[p] ELSE gen.rows)
    \/ rebuild[r].at = "swap" /\ holder[p] = Free /\ Becomes(p, g, "active", gen.next, gen.rows)

\* Every way in which a step can change a generation.
GenMove(p, g) ==
    LET gen == gens[p][g] IN
    \/ gens'[p][g] = gen
    \/ \E w \in Relays : /\ Writes(w, p, g) /\ RelayStep(w)
                         /\ \/ Becomes(p, g, "active", gen.next, gen.rows)
                            \/ relay[w].at = "apply" /\ Becomes(p, g, "active", relay[w].job[2] + 1, relay[w].snap)
    \/ /\ gen.status = "none" /\ Becomes(p, g, "building", gen.next, gen.rows)
       /\ g = NextUnused(p) /\ \E r \in Rebuilders : Allocate(r, p)
    \/ \E r \in Rebuilders : Owns(r, p, g) /\ BuildStep(r) /\ OwnerMove(r, p, g)
    \/ /\ gen.status = "active" /\ Becomes(p, g, "retired", gen.next, gen.rows)
       /\ \E r \in Rebuilders : /\ rebuild[r].at = "swap" /\ rebuild[r].project = p /\ holder[p] = Free
                                /\ Becomes(p, rebuild[r].gen, "active", gens[p][rebuild[r].gen].next,
                                             gens[p][rebuild[r].gen].rows)
    \/ gen.status = "retired" /\ Becomes(p, g, "dropped", 0, {})

LEMMA CommitMoves ==
    ASSUME ProjectionInv, NEW w \in Relays, RelayStep(w), relay[w].at \in Locking, NEW row, NEW out,
           CommitGeneration(w, row, out), NEW p \in Projects, NEW g \in Generations,
           \/ row.next = Locked(w).next /\ row.rows = Locked(w).rows
           \/ relay[w].at = "apply" /\ row.next = relay[w].job[2] + 1 /\ row.rows = relay[w].snap,
           row \in GenerationRow
    PROVE  GenMove(p, g)
  <1> DEFINE P == relay[w].job[1]
             G == IF relay[w].gen = 0 THEN NextUnused(P) ELSE relay[w].gen
  <1>1. RelayInv(w) /\ relay[w] \in RelayState
    BY DEF ProjectionInv, TypeOK
  <1>2. P \in Projects /\ IF relay[w].gen = 0 THEN Active(P) = {} /\ Unused(P) # {} ELSE relay[w].gen \in Active(P)
    BY <1>1 DEF RelayInv, Committed, Delivered, Working, Locking
  <1>3. G \in Generations /\ Writes(w, P, G) /\ (relay[w].gen = 0 => G \in Unused(P))
    BY <1>2, UnusedTaken DEF Writes, Active
  <1>4. gens' = [gens EXCEPT ![P][G] = [row EXCEPT !.status = "active"]]
    BY DEF CommitGeneration
  <1>5. Locked(w).next = gens[P][G].next /\ Locked(w).rows = gens[P][G].rows
    <2>1. CASE relay[w].gen = 0
      <3>1. gens[P][G] = NoGeneration
        BY <1>2, <1>3, <2>1 DEF Unused, ProjectionInv, GenInv
      <3> QED BY <2>1, <3>1 DEF Locked
    <2>2. CASE relay[w].gen # 0
      BY <2>2 DEF Locked
    <2> QED BY <2>1, <2>2
  <1>6. gens \in [Projects -> [Generations -> GenerationRow]]
    BY DEF ProjectionInv, TypeOK
  <1>7. LET new == [row EXCEPT !.status = "active"] IN new.status = "active" /\ new.next = row.next /\ new.rows = row.rows
    BY DEF GenerationRow
  <1> HIDE DEF P, G
  <1>8. gens'[p][g] = IF p = P /\ g = G THEN [row EXCEPT !.status = "active"] ELSE gens[p][g]
    BY <1>2, <1>3, <1>4, <1>6
  <1>9. CASE p = P /\ g = G
    BY <1>3, <1>5, <1>7, <1>8, <1>9 DEF GenMove, Becomes
  <1>10. CASE ~(p = P /\ g = G)
    BY <1>8, <1>10 DEF GenMove
  <1> QED BY <1>9, <1>10

\* The row a relay's transaction works on is a generation's.
LEMMA LockedTyped ==
    ASSUME ProjectionInv, NEW w \in Relays, relay[w].at \in Locking
    PROVE  /\ relay[w].job[1] \in Projects /\ relay[w].job[2] \in Positions
           /\ Committed(relay[w].job)
           /\ Locked(w) \in GenerationRow
           /\ Locked(w).next <= head[relay[w].job[1]]
  <1>1. RelayInv(w) /\ relay[w] \in RelayState /\ gens \in [Projects -> [Generations -> GenerationRow]]
    BY DEF ProjectionInv, TypeOK
  <1>2. Committed(relay[w].job) /\ relay[w].job[1] \in Projects /\ relay[w].job[2] \in Positions
    BY <1>1 DEF RelayInv, Committed, Delivered, Working, Locking
  <1>3. relay[w].gen # 0 => relay[w].gen \in Generations
    BY <1>1 DEF RelayInv, Locking, Active
  <1>4. NoGeneration \in GenerationRow /\ NoGeneration.next = 0
    BY GenerationsAssumption DEF GenerationsAssumption, NoGeneration, GenerationRow
  <1>5. head[relay[w].job[1]] \in Nat
    BY <1>2 DEF ProjectionInv, TypeOK
  <1>6. relay[w].gen # 0 => gens[relay[w].job[1]][relay[w].gen].next <= head[relay[w].job[1]]
    BY <1>2, <1>3 DEF ProjectionInv, GenInv
  <1> QED BY <1>1, <1>2, <1>3, <1>4, <1>5, <1>6 DEF Locked

LEMMA RelayMoves ==
    ASSUME ProjectionInv, NEW w \in Relays, RelayStep(w), NEW p \in Projects, NEW g \in Generations
    PROVE  GenMove(p, g)
  <1>1. CASE Skip(w)
    <2>1. relay[w].at \in Locking
      BY <1>1 DEF Skip, Locking
    <2>2. Locked(w) \in GenerationRow
      BY <2>1, LockedTyped
    <2>3. LET blocked == [Locked(w) EXCEPT !.cursor = "blocked"] IN
            blocked \in GenerationRow /\ blocked.next = Locked(w).next /\ blocked.rows = Locked(w).rows
      BY <2>2 DEF GenerationRow
    <2>4. CASE CommitGeneration(w, Locked(w), "settle") \/ CommitGeneration(w, Locked(w), "release")
      BY <2>1, <2>2, <2>4, CommitMoves
    <2>5. CASE CommitGeneration(w, [Locked(w) EXCEPT !.cursor = "blocked"], "release")
      BY <2>1, <2>3, <2>5, CommitMoves
    <2> QED BY <1>1, <2>4, <2>5 DEF Skip
  <1>2. CASE Apply(w)
    <2>1. relay[w].at = "apply" /\ relay[w].at \in Locking
      BY <1>2 DEF Apply, Locking
    <2>2. /\ Locked(w) \in GenerationRow /\ relay[w].job[2] \in Positions /\ relay[w].snap \in SUBSET (Positions \cup {-1})
          /\ MaxEvents \in Nat
      BY <2>1, LockedTyped, GenerationsAssumption DEF ProjectionInv, TypeOK, RelayState, GenerationsAssumption
    <2>3. LET row == [Locked(w) EXCEPT !.next = relay[w].job[2] + 1, !.cursor = "live", !.rows = relay[w].snap] IN
            row \in GenerationRow /\ row.next = relay[w].job[2] + 1 /\ row.rows = relay[w].snap
      <3> DEFINE old == Locked(w)
                 n == relay[w].job[2] + 1
                 rows == relay[w].snap
      <3>1. n \in 0..MaxEvents
        BY <2>2 DEF Positions
      <3>2. old \in GenerationRow /\ rows \in SUBSET (Positions \cup {-1})
        BY <2>2
      <3> HIDE DEF old, n, rows
      <3>3. LET row == [old EXCEPT !.next = n, !.cursor = "live", !.rows = rows] IN
              row \in GenerationRow /\ row.next = n /\ row.rows = rows
        BY <3>1, <3>2 DEF GenerationRow
      <3> QED BY <3>3 DEF old, n, rows
    <2> QED BY <1>2, <2>1, <2>3, CommitMoves DEF Apply
  <1>3. CASE gens' = gens
    BY <1>3 DEF GenMove
  <1> QED BY <1>1, <1>2, <1>3 DEF RelayStep, Deliver, HandlerFails, CrashRelay, Claim, EndPass, LoadRow, AskLock, TakeLock,
          Refresh, Settle, Fail

LEMMA BuildMoves ==
    ASSUME ProjectionInv, NEW r \in Rebuilders, BuildStep(r), NEW p \in Projects, NEW g \in Generations
    PROVE  GenMove(p, g)
  <1> DEFINE P == rebuild[r].project
             G == rebuild[r].gen
  <1>1. /\ gens \in [Projects -> [Generations -> GenerationRow]]
        /\ rebuild[r].at # "idle" => P \in Projects /\ G \in Generations /\ gens[P][G].status = "building"
        /\ gens[p][g].status \in {"none", "building", "active", "retired", "dropped"}
    BY DEF ProjectionInv, TypeOK, RebuildInv, GenerationRow
  <1>2. ASSUME NEW q \in Projects, Allocate(r, q)
        PROVE  GenMove(p, g)
    <2>1. NextUnused(q) \in Unused(q) /\ NextUnused(q) \in Generations
      BY <1>2, UnusedTaken DEF Allocate
    <2>2. gens' = [gens EXCEPT ![q][NextUnused(q)].status = "building"]
      BY <1>2 DEF Allocate
    <2>3. CASE p = q /\ g = NextUnused(q)
      <3>1. gens'[p][g] = [gens[p][g] EXCEPT !.status = "building"]
        BY <1>1, <2>1, <2>2, <2>3
      <3>2. Becomes(p, g, "building", gens[p][g].next, gens[p][g].rows)
        BY <1>1, <3>1 DEF Becomes, GenerationRow
      <3> QED BY <1>2, <2>1, <2>3, <3>2 DEF GenMove, Unused
    <2>4. CASE ~(p = q /\ g = NextUnused(q))
      BY <1>1, <2>1, <2>2, <2>4 DEF GenMove
    <2> QED BY <2>3, <2>4
  <1>3. ASSUME NEW new, rebuild[r].at # "idle", gens' = [gens EXCEPT ![P][G] = new],
               gens'[P][G] = new => OwnerMove(r, P, G)
        PROVE  GenMove(p, g)
    <2>1. gens'[P][G] = new
      BY <1>1, <1>3
    <2>2. CASE p = P /\ g = G
      BY <1>3, <2>1, <2>2 DEF GenMove, Owns
    <2>3. CASE ~(p = P /\ g = G)
      <3> HIDE DEF P, G
      <3> QED BY <1>1, <1>3, <2>3 DEF GenMove
    <2> QED BY <2>2, <2>3
  <1>4. CASE Seed(r) /\ rebuild[r].at = "rows"
    <2>1. gens' = [gens EXCEPT ![P][G] = [gens[P][G] EXCEPT !.rows = ours[P]]] /\ rebuild[r].at # "idle"
      BY <1>1, <1>4 DEF Seed
    <2>2. LET new == [gens[P][G] EXCEPT !.rows = ours[P]] IN
            new.status = "building" /\ new.next = gens[P][G].next /\ new.rows = ours[P]
      BY <1>1, <1>4 DEF GenerationRow
    <2>3. gens'[P][G] = [gens[P][G] EXCEPT !.rows = ours[P]] => OwnerMove(r, P, G)
      BY <1>4, <2>2 DEF OwnerMove, Becomes
    <2> QED BY <1>3, <2>1, <2>3
  <1>5. CASE Seed(r) /\ rebuild[r].at = "mark"
    <2>1. gens' = [gens EXCEPT ![P][G] = [gens[P][G] EXCEPT !.next = rebuild[r].upto]] /\ rebuild[r].at # "idle"
      BY <1>1, <1>5 DEF Seed
    <2>2. LET new == [gens[P][G] EXCEPT !.next = rebuild[r].upto] IN
            new.status = "building" /\ new.next = rebuild[r].upto /\ new.rows = gens[P][G].rows
      BY <1>1, <1>5 DEF GenerationRow
    <2>3. gens'[P][G] = [gens[P][G] EXCEPT !.next = rebuild[r].upto] => OwnerMove(r, P, G)
      BY <1>5, <2>2 DEF OwnerMove, Becomes
    <2> QED BY <1>3, <2>1, <2>3
  <1>6. CASE Replay(r)
    <2> DEFINE i == gens[P][G].next
               new == [gens[P][G] EXCEPT !.next = i + 1, !.rows = IF i \in ours[P] THEN ours[P] ELSE gens[P][G].rows]
    <2>1. rebuild[r].at # "idle" /\ i < head[P]
      BY <1>6 DEF Replay, ApplyNext
    <2>2. gens' = [gens EXCEPT ![P][G] = new]
      BY <1>1, <1>6, <2>1 DEF Replay, ApplyNext
    <2>3. new.status = "building" /\ new.next = i + 1 /\ new.rows = (IF i \in ours[P] THEN ours[P] ELSE gens[P][G].rows)
      BY <1>1, <2>1 DEF GenerationRow
    <2>4. gens'[P][G] = new => OwnerMove(r, P, G)
      BY <2>1, <2>3 DEF OwnerMove, Becomes
    <2> QED BY <1>3, <2>1, <2>2, <2>4
  <1>7. CASE Swap(r)
    <2>1. rebuild[r].at = "swap" /\ holder[P] = Free /\ P \in Projects /\ G \in Generations
      BY <1>1, <1>7 DEF Swap
    <2>2. CASE gens' = gens
      BY <2>2 DEF GenMove
    <2>3. CASE gens' = [gens EXCEPT ![P] = [f \in Generations |->
                 CASE f = G -> [gens[P][f] EXCEPT !.status = "active", !.cursor = "live"]
                   [] f \in Active(P) -> [gens[P][f] EXCEPT !.status = "retired"]
                   [] OTHER -> gens[P][f]]]
      <3>1. gens'[P][G] = [gens[P][G] EXCEPT !.status = "active", !.cursor = "live"]
        <4>1. gens'[P] = [f \in Generations |->
                 CASE f = G -> [gens[P][f] EXCEPT !.status = "active", !.cursor = "live"]
                   [] f \in Active(P) -> [gens[P][f] EXCEPT !.status = "retired"]
                   [] OTHER -> gens[P][f]]
          BY <1>1, <2>1, <2>3
        <4>2. G \notin Active(P)
          BY <1>1, <2>1 DEF Active
        <4> HIDE DEF P, G
        <4> QED BY <2>1, <4>1, <4>2
      <3>2. Becomes(P, G, "active", gens[P][G].next, gens[P][G].rows)
        BY <1>1, <2>1, <3>1 DEF Becomes, GenerationRow
      <3>3. CASE p = P /\ g = G
        BY <1>7, <2>1, <3>2, <3>3 DEF GenMove, Owns, OwnerMove
      <3>4. CASE p = P /\ g # G /\ g \in Active(P)
        <4>1. gens'[p][g] = [gens[p][g] EXCEPT !.status = "retired"] /\ gens[p][g].status = "active"
          BY <1>1, <2>1, <2>3, <3>4 DEF Active
        <4>2. Becomes(p, g, "retired", gens[p][g].next, gens[p][g].rows)
          BY <1>1, <4>1 DEF Becomes, GenerationRow
        <4> QED BY <2>1, <3>2, <3>4, <4>1, <4>2 DEF GenMove
      <3>5. CASE p = P /\ g # G /\ g \notin Active(P)
        BY <1>1, <2>1, <2>3, <3>5 DEF GenMove
      <3>6. CASE p # P
        BY <1>1, <2>3, <3>6 DEF GenMove
      <3> QED BY <3>3, <3>4, <3>5, <3>6
    <2> QED BY <1>7, <2>2, <2>3 DEF Swap
  <1>8. CASE gens' = gens
    BY <1>8 DEF GenMove
  <1>9. Seed(r) => gens' = gens \/ rebuild[r].at \in {"rows", "mark"}
    BY DEF Seed
  <1> QED BY <1>2, <1>4, <1>5, <1>6, <1>7, <1>8, <1>9 DEF BuildStep, Build, EndCatchUp, Barrier, FindPrevious, CrashRebuild

LEMMA GenMoves ==
    ASSUME ProjectionInv, [Next]_vars, NEW p \in Projects, NEW g \in Generations
    PROVE  GenMove(p, g)
  <1>1. ASSUME NEW q \in Projects, DropRetired(q)
        PROVE  GenMove(p, g)
    <2>1. PICK f \in Generations : /\ gens[q][f].status = "retired"
                                   /\ gens' = [gens EXCEPT ![q][f] = [NoGeneration EXCEPT !.status = "dropped"]]
      BY <1>1 DEF DropRetired
    <2>2. gens \in [Projects -> [Generations -> GenerationRow]]
      BY DEF ProjectionInv, TypeOK
    <2>3. LET new == [NoGeneration EXCEPT !.status = "dropped"] IN new.status = "dropped" /\ new.next = 0 /\ new.rows = {}
      BY DEF NoGeneration
    <2>4. CASE p = q /\ f = g
      BY <2>1, <2>2, <2>3, <2>4 DEF GenMove, Becomes
    <2>5. CASE ~(p = q /\ f = g)
      BY <2>1, <2>2, <2>5 DEF GenMove
    <2> QED BY <2>4, <2>5
  <1>2. CASE gens' = gens
    BY <1>2 DEF GenMove
  <1>3. TypeOK
    BY DEF ProjectionInv
  <1> QED BY <1>1, <1>2, <1>3, NextSplit, RelayMoves, BuildMoves, RowFrame, ReadFrame, StreamFrame DEF vars

-----------------------------------------------------------------------------
\* What a relay that may write a generation is about to write.
LEMMA WriterKnows ==
    ASSUME ProjectionInv, NEW w \in Relays, NEW p \in Projects, NEW g \in Generations, Writes(w, p, g)
    PROVE  /\ holder[p] = w
           /\ gens[p][g].status \in {"none", "active"}
           /\ relay[w].job[2] < head[p] /\ relay[w].job[2] \in Positions
           /\ relay[w].at = "apply" =>
                /\ relay[w].job[2] = gens[p][g].next
                /\ relay[w].snap \subseteq ours[p]
                /\ gens[p][g].rows \subseteq relay[w].snap
                /\ Before(ours[p], relay[w].job[2] + 1) \subseteq relay[w].snap
                /\ WithOlder(ours[p], relay[w].snap)
  <1>1. RelayInv(w) /\ GenInv(p, g) /\ relay[w].at \in Locking /\ relay[w].job[1] = p
    BY DEF ProjectionInv, Writes
  <1>2. IF relay[w].gen = 0 THEN gens[p][g] = NoGeneration ELSE g = relay[w].gen /\ gens[p][g].status = "active"
    BY <1>1 DEF Writes, Unused, Active, GenInv
  <1>3. relay[w].at = "apply" => Locked(w).next = gens[p][g].next /\ Locked(w).rows = gens[p][g].rows
    BY <1>1, <1>2 DEF Locked
  <1> QED BY <1>1, <1>2, <1>3 DEF RelayInv, Working, Locking, Committed, NoGeneration, Delivered

LEMMA GenStep ==
    ASSUME ProjectionInv, [Next]_vars, NEW p \in Projects, NEW g \in Generations
    PROVE  GenInv(p, g)'
  <1>1. GenMove(p, g) /\ GenInv(p, g) /\ TypeOK
    BY GenMoves DEF ProjectionInv
  <1>2. /\ gens[p][g].next \in Nat /\ gens[p][g].next <= head[p] /\ head[p] \in Nat /\ head'[p] \in Nat /\ head[p] <= head'[p]
        /\ ours[p] \subseteq ours'[p] /\ (-1 \in ours'[p] => -1 \in ours[p])
        /\ \A n \in Nat : n <= head[p] => Before(ours'[p], n) = Before(ours[p], n)
        /\ Before(ours'[p], 0) = {}
    <2>1. gens[p][g].next \in Nat
      BY <1>1 DEF TypeOK, GenerationRow
    <2>2. Before(ours'[p], 0) = {}
      <3>1. ours[p] \subseteq Int
        BY <1>1 DEF TypeOK, Positions
      <3>2. Before(ours[p], 0) = {}
        BY <3>1 DEF Before
      <3> QED BY <1>1, <3>2, BeforeKept
    <2> QED BY <1>1, <2>1, <2>2, BeforeKept DEF GenInv
  <1> USE DEF Becomes, GenInv
  <1>3. CASE gens'[p][g] = gens[p][g]
    <2>1. Before(ours'[p], gens[p][g].next) = Before(ours[p], gens[p][g].next)
      BY <1>1, <1>2
    <2> QED BY <1>1, <1>2, <1>3, <2>1 DEF WithOlder
  <1>4. ASSUME NEW s, s \notin {"none", "dropped"}, Becomes(p, g, s, gens[p][g].next, gens[p][g].rows)
        PROVE  GenInv(p, g)'
    BY <1>1, <1>2, <1>4 DEF WithOlder, Before
  <1>5. ASSUME NEW w \in Relays, Writes(w, p, g), relay[w].at = "apply",
               Becomes(p, g, "active", relay[w].job[2] + 1, relay[w].snap)
        PROVE  GenInv(p, g)'
    <2>1. /\ relay[w].job[2] \in Nat /\ relay[w].job[2] < head[p]
          /\ relay[w].snap \subseteq ours[p] /\ Before(ours[p], relay[w].job[2] + 1) \subseteq relay[w].snap
          /\ WithOlder(ours[p], relay[w].snap)
      BY <1>5, WriterKnows DEF Positions
    <2> QED BY <1>2, <1>5, <2>1 DEF WithOlder, Before
  <1>6. ASSUME NEW r \in Rebuilders, Owns(r, p, g), OwnerMove(r, p, g)
        PROVE  GenInv(p, g)'
    <2>1. RebuildInv(r) /\ rebuild[r].upto \in Nat
      BY DEF ProjectionInv, TypeOK, RebuildState
    <2>2. rebuild[r].upto <= head[p] /\ (rebuild[r].at = "mark" => Before(ours[p], rebuild[r].upto) \subseteq gens[p][g].rows)
      BY <1>6, <2>1 DEF RebuildInv, Owns
    <2>3. CASE Becomes(p, g, "building", gens[p][g].next, ours[p])
      BY <1>1, <1>2, <2>3 DEF WithOlder, Before
    <2>4. CASE rebuild[r].at = "mark" /\ Becomes(p, g, "building", rebuild[r].upto, gens[p][g].rows)
      BY <1>1, <1>2, <2>1, <2>2, <2>4 DEF WithOlder, Before
    <2>5. CASE /\ gens[p][g].next < head[p]
               /\ Becomes(p, g, "building", gens[p][g].next + 1,
                    IF gens[p][g].next \in ours[p] THEN ours[p] ELSE gens[p][g].rows)
      <3>1. CASE gens[p][g].next \in ours[p]
        BY <1>1, <1>2, <2>5, <3>1 DEF WithOlder, Before
      <3>2. CASE gens[p][g].next \notin ours[p]
        <4>1. Before(ours[p], gens[p][g].next + 1) \subseteq gens[p][g].rows
          <5>1. ours[p] \subseteq Int
            BY <1>1 DEF TypeOK, Positions
          <5>2. Before(ours[p], gens[p][g].next + 1) \subseteq Before(ours[p], gens[p][g].next)
            BY <1>2, <3>2, <5>1 DEF Before
          <5> QED BY <1>1, <5>2
        <4>2. Before(ours'[p], gens[p][g].next + 1) = Before(ours[p], gens[p][g].next + 1)
          BY <1>2, <2>5
        <4> QED BY <1>1, <1>2, <2>5, <3>2, <4>1, <4>2 DEF WithOlder
      <3> QED BY <3>1, <3>2
    <2> QED BY <1>4, <1>6, <2>3, <2>4, <2>5 DEF OwnerMove
  <1>7. CASE Becomes(p, g, "dropped", 0, {})
    BY <1>2, <1>7 DEF WithOlder
  <1> QED BY <1>1, <1>3, <1>4, <1>5, <1>6, <1>7 DEF GenMove

\* The lock keeps others away from the generation and from the activation.
LEMMA LockKept ==
    ASSUME ProjectionInv, [Next]_vars, NEW w \in Relays, relay[w].at \in Locking, ~RelayStep(w),
           NEW p, p = relay[w].job[1]
    PROVE  /\ p \in Projects
           /\ relay'[w] = relay[w]
           /\ holder'[p] = w
           /\ Active(p)' = Active(p)
           /\ \A g \in Active(p) : gens'[p][g] = gens[p][g]
           /\ Active(p) = {} => Unused(p)' # {}
  <1>1. /\ TypeOK /\ p \in Projects /\ holder[p] = w /\ w # Free
        /\ Active(p) = {} => Unused(p) # {}
    BY LockedTyped, GenerationsAssumption DEF ProjectionInv, RelayInv, GenerationsAssumption, Active
  <1>2. relay'[w] = relay[w]
    BY <1>1, NextSplit, RelayFrame, RowFrame, BuildFrame, ReadFrame, StreamFrame DEF vars
  <1>3. holder'[p] = w
    <2>1. ASSUME NEW v \in Relays, RelayStep(v), v # w
          PROVE  holder'[p] = w
      <3>1. relay[v].at \in Locking => relay[v].job[1] # p
        BY <1>1, <2>1 DEF ProjectionInv, RelayInv
      <3>2. CASE TakeLock(v) \/ CrashRelay(v)
        BY <1>1, <2>1, <3>2 DEF TakeLock, CrashRelay, TypeOK
      <3>3. CASE Skip(v) \/ Apply(v) \/ HandlerFails(v)
        BY <1>1, <3>1, <3>3 DEF Skip, Apply, HandlerFails, CommitGeneration, Unlock, Locking, TypeOK
      <3> QED BY <1>1, <2>1, <3>2, <3>3 DEF RelayStep, Deliver, Claim, EndPass, LoadRow, AskLock, Refresh, Settle, Fail
    <2> QED BY <1>1, <2>1, NextSplit, RowFrame, BuildFrame, ReadFrame, StreamFrame DEF vars
  <1>4. ASSUME NEW g \in Generations
        PROVE  \/ gens'[p][g] = gens[p][g]
               \/ gens[p][g].status = "none" /\ g = NextUnused(p) /\ gens'[p][g].status # "active"
                  /\ \E r \in Rebuilders : Allocate(r, p)
               \/ gens[p][g].status \in {"building", "retired"} /\ gens'[p][g].status # "active"
    <2>1. GenMove(p, g)
      BY <1>1, GenMoves
    <2>2. ASSUME NEW v \in Relays, Writes(v, p, g), RelayStep(v)
          PROVE  FALSE
      BY <1>1, <2>2, WriterKnows
    <2>3. ASSUME NEW r \in Rebuilders, Owns(r, p, g)
          PROVE  gens[p][g].status = "building"
      BY <2>3 DEF ProjectionInv, RebuildInv, Owns
    <2> QED BY <1>1, <2>1, <2>2, <2>3 DEF GenMove, OwnerMove, Becomes
  <1>5. Active(p)' = Active(p) /\ \A g \in Active(p) : gens'[p][g] = gens[p][g]
    BY <1>4 DEF Active
  <1>6. ASSUME Active(p) = {}
        PROVE  Unused(p)' # {}
    <2>1. CASE \E r \in Rebuilders : Allocate(r, p)
      <3>1. Cardinality(Unused(p)) > 1
        BY <1>6, <2>1 DEF Allocate
      <3>2. PICK u \in Unused(p) : u # NextUnused(p)
        BY <1>1, <3>1, AnotherUnused
      <3> QED BY <1>4, <3>2 DEF Unused
    <2>2. CASE ~\E r \in Rebuilders : Allocate(r, p)
      BY <1>1, <1>4, <1>6, <2>2 DEF Unused
    <2> QED BY <2>1, <2>2
  <1> QED BY <1>1, <1>2, <1>3, <1>5, <1>6

LEMMA RelayOwn ==
    ASSUME ProjectionInv, NEW w \in Relays, RelayStep(w)
    PROVE  RelayInv(w)'
  <1>1. /\ TypeOK /\ RelayInv(w) /\ StreamInv
        /\ relay \in [Relays -> RelayState] /\ relay[w] \in RelayState
        /\ head' = head /\ ours' = ours
    BY RelayFrame DEF ProjectionInv, TypeOK
  <1>2. ASSUME relay'[w].at \notin Locking, \A d \in relay'[w].batch : Committed(d),
               relay'[w].at \in Working => Committed(relay'[w].job)
        PROVE  RelayInv(w)'
    BY <1>1, <1>2 DEF RelayInv, Committed, Locking
  <1>3. CASE Claim(w)
    <2>1. PICK batch \in SUBSET Claimable : relay' = [relay EXCEPT ![w].at = "dispatch", ![w].batch = batch]
      BY <1>3 DEF Claim
    <2>2. \A d \in batch : Committed(d)
      BY <1>1 DEF Claimable, StreamInv
    <2>3. relay'[w].at = "dispatch" /\ relay'[w].batch = batch
      BY <1>1, <2>1 DEF RelayState
    <2> QED BY <1>2, <2>2, <2>3 DEF Working, Locking
  <1>4. CASE EndPass(w) \/ AskLock(w) \/ HandlerFails(w) \/ Skip(w) \/ Apply(w)
    <2>1. /\ relay'[w].at \in {"idle", "await", "fail", "settle", "release"}
          /\ relay'[w].batch = relay[w].batch /\ relay'[w].job = relay[w].job
          /\ relay'[w].at # "idle" => relay[w].at \in Working
      BY <1>1, <1>4 DEF EndPass, AskLock, HandlerFails, Skip, Apply, Step, CommitGeneration, RelayState, Working, Locking
    <2> QED BY <1>1, <1>2, <2>1 DEF RelayInv, Working, Locking
  <1>5. CASE LoadRow(w)
    <2> DEFINE rest(d) == [relay[w] EXCEPT !.batch = relay[w].batch \ {d}]
               load(d) == [relay[w] EXCEPT !.batch = relay[w].batch \ {d}, !.job = d, !.tries = Row(d).attempts, !.at = "ask"]
    <2>1. PICK d \in relay[w].batch :
            relay' = [relay EXCEPT ![w] = IF Row(d).status \in {"succeeded", "dead"} THEN rest(d) ELSE load(d)]
      BY <1>5 DEF LoadRow
    <2>2. relay[w].at = "dispatch"
      BY <1>5 DEF LoadRow
    <2>3. /\ rest(d).at = "dispatch" /\ rest(d).batch \subseteq relay[w].batch
          /\ load(d).at = "ask" /\ load(d).batch \subseteq relay[w].batch /\ load(d).job = d
      BY <1>1, <2>2 DEF RelayState
    <2> HIDE DEF rest, load
    <2>4. relay'[w] = rest(d) \/ relay'[w] = load(d)
      BY <1>1, <2>1
    <2> QED BY <1>1, <1>2, <2>3, <2>4 DEF RelayInv, Working, Locking
  <1>6. CASE Settle(w) \/ Fail(w) \/ CrashRelay(w)
    <2>1. relay'[w].at \in {"idle", "dispatch"} /\ relay'[w].batch \subseteq relay[w].batch
      <3> DEFINE next == [IdleRelay EXCEPT !.at = "dispatch", !.batch = relay[w].batch]
      <3>1. relay'[w] = IdleRelay \/ relay'[w] = next
        BY <1>1, <1>6 DEF Settle, Fail, CrashRelay, NextJob
      <3>2. next.at = "dispatch" /\ next.batch = relay[w].batch /\ IdleRelay.at = "idle" /\ IdleRelay.batch = {}
        BY DEF IdleRelay
      <3> HIDE DEF next
      <3> QED BY <3>1, <3>2
    <2> QED BY <1>1, <1>2, <2>1 DEF RelayInv, Working, Locking
  <1>7. CASE TakeLock(w)
    <2> DEFINE p == relay[w].job[1]
    <2>1. /\ relay[w].at = "await" /\ Committed(relay[w].job) /\ p \in Projects /\ gens' = gens
          /\ relay'[w].batch = relay[w].batch /\ relay'[w].job = relay[w].job
      BY <1>1, <1>7 DEF TakeLock, Step, RelayInv, Working, Committed, Delivered, RelayState
    <2>2. CASE relay'[w].at = "fail"
      BY <1>1, <1>2, <2>1, <2>2 DEF RelayInv, Working, Locking
    <2>3. CASE relay'[w].at # "fail"
      <3>1. /\ holder' = [holder EXCEPT ![p] = w] /\ relay'[w].at = "judge"
            /\ \/ relay'[w].gen = relay[w].gen /\ relay[w].gen # 0 /\ relay[w].gen \in Active(p)
               \/ relay'[w].gen = 0 /\ Active(p) = {} /\ Unused(p) # {}
        BY <1>1, <1>7, <2>1, <2>3 DEF TakeLock, Step, RelayState
      <3>2. holder'[p] = w
        BY <1>1, <2>1, <3>1 DEF TypeOK
      <3> QED BY <1>1, <2>1, <3>1, <3>2 DEF RelayInv, Locking, Working, Committed, Active, Unused
    <2> QED BY <2>2, <2>3
  <1>8. CASE Refresh(w)
    <2> DEFINE p == relay[w].job[1]
               i == relay[w].job[2]
               snap == IF i \in ours[p] THEN ours[p] ELSE Locked(w).rows
    <2>1. /\ relay[w].at = "judge" /\ i = Locked(w).next /\ UNCHANGED <<gens, holder>>
          /\ relay'[w] = [relay[w] EXCEPT !.at = "apply", !.snap = snap]
      BY <1>1, <1>8 DEF Refresh
    <2>2. relay'[w].at = "apply" /\ relay'[w].snap = snap /\ relay'[w].batch = relay[w].batch
          /\ relay'[w].job = relay[w].job /\ relay'[w].gen = relay[w].gen
      BY <1>1, <2>1 DEF RelayState
    <2>3. /\ Committed(relay[w].job) /\ p \in Projects /\ i \in Nat /\ holder[p] = w
          /\ IF relay[w].gen = 0 THEN Active(p) = {} /\ Unused(p) # {} ELSE relay[w].gen \in Active(p)
      BY <1>1, <2>1 DEF RelayInv, Committed, Delivered, Working, Locking, Positions
    <2>4. /\ Locked(w).rows \subseteq ours[p] /\ Before(ours[p], i) \subseteq Locked(w).rows
          /\ WithOlder(ours[p], Locked(w).rows) /\ ours[p] \subseteq Int
      <3>1. ours[p] \subseteq Int
        BY <1>1, <2>3 DEF TypeOK, Positions
      <3>2. CASE relay[w].gen = 0
        <4>1. i = 0 /\ Locked(w).rows = {}
          BY <2>1, <3>2 DEF Locked, NoGeneration
        <4>2. Before(ours[p], 0) = {}
          BY <3>1 DEF Before
        <4> QED BY <3>1, <4>1, <4>2 DEF WithOlder
      <3>3. CASE relay[w].gen # 0
        <4>1. GenInv(p, relay[w].gen) /\ Locked(w) = gens[p][relay[w].gen]
          BY <2>3, <3>3 DEF ProjectionInv, Active, Locked
        <4> QED BY <2>1, <3>1, <4>1 DEF GenInv
      <3> QED BY <3>2, <3>3
    <2>5. snap \subseteq ours[p] /\ Locked(w).rows \subseteq snap /\ WithOlder(ours[p], snap)
      BY <2>4 DEF WithOlder
    <2>6. Before(ours[p], i + 1) \subseteq snap
      <3>1. CASE i \in ours[p]
        BY <3>1 DEF Before
      <3>2. CASE i \notin ours[p]
        <4>1. Before(ours[p], i + 1) \subseteq Before(ours[p], i)
          BY <2>3, <2>4, <3>2 DEF Before
        <4> QED BY <2>4, <3>2, <4>1
      <3> QED BY <3>1, <3>2
    <2>7. Locked(w)' = Locked(w) /\ Active(p)' = Active(p) /\ Unused(p)' = Unused(p)
      BY <2>1, <2>2 DEF Locked, Active, Unused
    <2> HIDE DEF snap
    <2> QED BY <1>1, <2>1, <2>2, <2>3, <2>5, <2>6, <2>7 DEF RelayInv, Committed, Working, Locking, Active, Unused
  <1> QED BY <1>3, <1>4, <1>5, <1>6, <1>7, <1>8 DEF RelayStep, Deliver

LEMMA RelayKept ==
    ASSUME TypeOK, [Next]_vars, NEW w \in Relays, ~RelayStep(w)
    PROVE  relay'[w] = relay[w]
  BY NextSplit, RelayFrame, RowFrame, BuildFrame, ReadFrame, StreamFrame DEF vars

LEMMA CommittedKept ==
    ASSUME TypeOK, [Next]_vars, NEW d, Committed(d)
    PROVE  Committed(d)'
  <1>1. d[1] \in Projects /\ d[2] \in Nat
    BY DEF Committed, Delivered, Positions
  <1>2. head[d[1]] \in Nat /\ head'[d[1]] \in Nat /\ head[d[1]] <= head'[d[1]]
    BY <1>1, BeforeKept
  <1> QED BY <1>1, <1>2 DEF Committed

LEMMA RelayOther ==
    ASSUME ProjectionInv, [Next]_vars, NEW w \in Relays, ~RelayStep(w)
    PROVE  RelayInv(w)'
  <1>1. TypeOK /\ RelayInv(w) /\ relay'[w] = relay[w]
    BY RelayKept DEF ProjectionInv
  <1>2. /\ \A d \in relay'[w].batch : Committed(d)'
        /\ relay'[w].at \in Working => Committed(relay[w].job)'
    BY <1>1, CommittedKept DEF RelayInv
  <1>3. CASE relay[w].at \notin Locking
    BY <1>1, <1>2, <1>3 DEF RelayInv, Committed, Locking
  <1>4. CASE relay[w].at \in Locking
    <2> DEFINE p == relay[w].job[1]
               i == relay[w].job[2]
               g == relay[w].gen
    <2>1. /\ p \in Projects /\ holder'[p] = w /\ Active(p)' = Active(p)
          /\ \A f \in Active(p) : gens'[p][f] = gens[p][f]
          /\ Active(p) = {} => Unused(p)' # {}
      BY <1>4, LockKept
    <2>2. IF g = 0 THEN Active(p) = {} ELSE g \in Active(p)
      BY <1>1, <1>4 DEF RelayInv
    <2>3. Locked(w)' = Locked(w)
      BY <1>1, <2>1, <2>2 DEF Locked
    <2>4. /\ ours[p] \subseteq ours'[p] /\ (-1 \in ours'[p] => -1 \in ours[p])
          /\ i \in Nat => Before(ours'[p], i + 1) = Before(ours[p], i + 1)
      <3>1. i \in Nat /\ i < head[p] /\ head[p] \in Nat
        BY <1>4, <2>1, LockedTyped, BeforeKept, <1>1 DEF Committed, Positions
      <3> QED BY <1>1, <2>1, <3>1, BeforeKept
    <2>5. relay[w].at = "apply" =>
            /\ i = Locked(w)'.next
            /\ relay[w].snap \subseteq ours'[p]
            /\ Locked(w)'.rows \subseteq relay[w].snap
            /\ Before(ours'[p], i + 1) \subseteq relay[w].snap
            /\ WithOlder(ours'[p], relay[w].snap)
      <3>1. i \in Nat
        BY <1>4, LockedTyped DEF Positions
      <3> QED BY <1>1, <2>3, <2>4, <3>1 DEF RelayInv, WithOlder
    <2>6. /\ holder'[p] = w
          /\ IF g = 0 THEN Active(p)' = {} /\ Unused(p)' # {} ELSE g \in Active(p)'
      BY <2>1, <2>2
    <2> QED BY <1>1, <1>2, <2>5, <2>6 DEF RelayInv, Active, Unused, Committed
  <1> QED BY <1>3, <1>4

LEMMA RebuildOwn ==
    ASSUME ProjectionInv, NEW r \in Rebuilders, BuildStep(r)
    PROVE  RebuildInv(r)'
  <1> DEFINE P == rebuild[r].project
             G == rebuild[r].gen
  <1>1. /\ TypeOK /\ RebuildInv(r) /\ head' = head /\ ours' = ours
        /\ rebuild \in [Rebuilders -> RebuildState] /\ rebuild[r] \in RebuildState
        /\ stream \in [Projects -> Rebuilders \cup {Free}]
        /\ gens \in [Projects -> [Generations -> GenerationRow]] /\ head \in [Projects -> Nat]
    BY BuildFrame DEF ProjectionInv, TypeOK
  <1>2. ASSUME rebuild'[r].at = "idle"
        PROVE  RebuildInv(r)'
    BY <1>2 DEF RebuildInv
  <1>3. CASE Swap(r) \/ CrashRebuild(r)
    <2>1. rebuild'[r] = IdleRebuild
      BY <1>1, <1>3 DEF Swap, CrashRebuild, EndRebuild
    <2> QED BY <1>2, <2>1 DEF IdleRebuild
  <1>4. ASSUME NEW q \in Projects, Allocate(r, q)
        PROVE  RebuildInv(r)'
    <2>1. NextUnused(q) \in Generations
      BY <1>4, UnusedTaken DEF Allocate
    <2>2. gens'[q][NextUnused(q)] = [gens[q][NextUnused(q)] EXCEPT !.status = "building"]
      BY <1>1, <1>4, <2>1 DEF Allocate
    <2>3. gens'[q][NextUnused(q)].status = "building"
      BY <1>1, <2>1, <2>2 DEF GenerationRow
    <2>4. rebuild'[r] = [IdleRebuild EXCEPT !.at = "seed", !.project = q, !.gen = NextUnused(q)]
      BY <1>1, <1>4 DEF Allocate
    <2>5. rebuild'[r].at = "seed" /\ rebuild'[r].project = q /\ rebuild'[r].gen = NextUnused(q) /\ rebuild'[r].upto = 0
      BY <2>4 DEF IdleRebuild
    <2> QED BY <1>1, <2>1, <2>3, <2>5 DEF RebuildInv
  <1>5. CASE Seed(r) \/ Replay(r) \/ EndCatchUp(r) \/ Barrier(r) \/ FindPrevious(r)
    <2>1. rebuild[r].at # "idle" /\ P \in Projects /\ G \in Generations /\ gens[P][G].status = "building"
      BY <1>1, <1>5 DEF RebuildInv, Seed, Replay, EndCatchUp, Barrier, FindPrevious
    <2>2. rebuild[r].upto <= head[P] /\ head[P] \in Nat /\ (rebuild[r].at \in {"tail", "swap"} => stream[P] = r)
      BY <1>1, <2>1 DEF RebuildInv
    <2>3. CASE Seed(r) /\ rebuild[r].at = "seed"
      <3>1. /\ rebuild' = [rebuild EXCEPT ![r].at = "rows", ![r].upto = head[P]] /\ UNCHANGED <<gens, stream>>
        BY <2>3 DEF Seed
      <3>2. /\ rebuild'[r].at = "rows" /\ rebuild'[r].upto = head[P] /\ rebuild'[r].project = P
            /\ rebuild'[r].gen = G
        BY <1>1, <3>1 DEF RebuildState
      <3> QED BY <1>1, <2>1, <2>2, <3>1, <3>2 DEF RebuildInv
    <2>4. CASE Seed(r) /\ rebuild[r].at = "rows"
      <3>1. /\ rebuild'[r] = [rebuild[r] EXCEPT !.at = "mark"]
            /\ gens'[P][G] = [gens[P][G] EXCEPT !.rows = ours[P]]
        BY <1>1, <2>1, <2>4 DEF Seed, RStep
      <3>2. /\ rebuild'[r].at = "mark" /\ rebuild'[r].upto = rebuild[r].upto /\ rebuild'[r].project = P
            /\ rebuild'[r].gen = G
        BY <1>1, <3>1 DEF RebuildState
      <3>3. gens'[P][G].rows = ours[P] /\ gens'[P][G].status = "building"
        BY <1>1, <2>1, <3>1 DEF GenerationRow
      <3> QED BY <1>1, <2>1, <2>2, <3>2, <3>3 DEF RebuildInv, Before
    <2>5. CASE Seed(r) /\ rebuild[r].at = "mark"
      <3>1. /\ rebuild'[r] = [rebuild[r] EXCEPT !.at = "replay"]
            /\ gens'[P][G] = [gens[P][G] EXCEPT !.next = rebuild[r].upto]
        BY <1>1, <2>1, <2>5 DEF Seed, RStep
      <3>2. /\ rebuild'[r].at = "replay" /\ rebuild'[r].upto = rebuild[r].upto /\ rebuild'[r].project = P
            /\ rebuild'[r].gen = G
        BY <1>1, <3>1 DEF RebuildState
      <3>3. gens'[P][G].status = "building"
        BY <1>1, <2>1, <3>1 DEF GenerationRow
      <3> QED BY <1>1, <2>1, <2>2, <3>2, <3>3 DEF RebuildInv
    <2>6. CASE Replay(r)
      <3>1. /\ rebuild' = rebuild /\ stream' = stream /\ rebuild[r].at \in {"replay", "tail"}
            /\ gens'[P][G] = [gens[P][G] EXCEPT !.next = gens[P][G].next + 1,
                                !.rows = IF gens[P][G].next \in ours[P] THEN ours[P] ELSE gens[P][G].rows]
        BY <1>1, <2>1, <2>6 DEF Replay, ApplyNext
      <3>2. gens'[P][G].status = "building"
        BY <1>1, <2>1, <3>1 DEF GenerationRow
      <3> QED BY <1>1, <2>1, <2>2, <3>1, <3>2 DEF RebuildInv
    <2>7. CASE EndCatchUp(r)
      <3>1. rebuild'[r] = [rebuild[r] EXCEPT !.at = "barrier"] /\ gens' = gens
        BY <1>1, <2>7 DEF EndCatchUp, RStep
      <3>2. /\ rebuild'[r].at = "barrier" /\ rebuild'[r].upto = rebuild[r].upto /\ rebuild'[r].project = P
            /\ rebuild'[r].gen = G
        BY <1>1, <3>1 DEF RebuildState
      <3> QED BY <1>1, <2>1, <2>2, <3>1, <3>2 DEF RebuildInv
    <2>8. CASE Barrier(r)
      <3>1. rebuild'[r] = [rebuild[r] EXCEPT !.at = "tail"] /\ gens' = gens /\ stream'[P] = r
        BY <1>1, <2>1, <2>8 DEF Barrier, RStep
      <3>2. /\ rebuild'[r].at = "tail" /\ rebuild'[r].upto = rebuild[r].upto /\ rebuild'[r].project = P
            /\ rebuild'[r].gen = G
        BY <1>1, <3>1 DEF RebuildState
      <3> QED BY <1>1, <2>1, <2>2, <3>1, <3>2 DEF RebuildInv
    <2>9. CASE FindPrevious(r)
      <3>1. /\ rebuild'[r] = [rebuild[r] EXCEPT !.at = "swap", !.prev = ActiveOf(P)]
            /\ UNCHANGED <<gens, stream>> /\ rebuild[r].at = "tail" /\ gens[P][G].next = head[P]
        BY <1>1, <2>9 DEF FindPrevious
      <3>2. /\ rebuild'[r].at = "swap" /\ rebuild'[r].upto = rebuild[r].upto /\ rebuild'[r].project = P
            /\ rebuild'[r].gen = G
        BY <1>1, <3>1 DEF RebuildState
      <3> QED BY <1>1, <2>1, <2>2, <3>1, <3>2 DEF RebuildInv
    <2> QED BY <1>5, <2>3, <2>4, <2>5, <2>6, <2>7, <2>8, <2>9 DEF Seed
  <1> QED BY <1>3, <1>4, <1>5 DEF BuildStep, Build

LEMMA RebuildKept ==
    ASSUME TypeOK, [Next]_vars, NEW r \in Rebuilders, ~BuildStep(r)
    PROVE  rebuild'[r] = rebuild[r]
  BY NextSplit, RelayFrame, RowFrame, BuildFrame, ReadFrame, StreamFrame DEF vars

LEMMA BarrierHeld ==
    ASSUME TypeOK, [Next]_vars, NEW r \in Rebuilders, ~BuildStep(r), NEW p \in Projects, stream[p] = r
    PROVE  stream'[p] = r /\ head'[p] = head[p] /\ ours'[p] = ours[p]
  <1>1. r # Free
    BY GenerationsAssumption DEF GenerationsAssumption
  <1>2. head'[p] = head[p] /\ ours'[p] = ours[p]
    BY <1>1, StreamGrows DEF Grows
  <1>3. ASSUME NEW q \in Rebuilders, BuildStep(q)
        PROVE  stream'[p] = r
    <2>1. q # r /\ stream \in [Projects -> Rebuilders \cup {Free}]
      BY <1>3 DEF TypeOK
    <2>2. CASE Barrier(q)
      BY <1>1, <2>1, <2>2 DEF Barrier
    <2>3. CASE Swap(q) \/ CrashRebuild(q)
      BY <1>1, <2>1, <2>3 DEF Swap, CrashRebuild, EndRebuild
    <2>4. CASE stream' = stream
      BY <2>4
    <2> QED BY <1>3, <2>2, <2>3, <2>4 DEF BuildStep, Build, Seed, Replay, EndCatchUp, FindPrevious, Allocate
  <1> QED BY <1>2, <1>3, NextSplit, RelayFrame, RowFrame, ReadFrame, StreamFrame DEF vars

\* Nobody else touches a rebuild's generation.
LEMMA BuildingKept ==
    ASSUME ProjectionInv, [Next]_vars, NEW r \in Rebuilders, ~BuildStep(r), NEW p \in Projects,
           NEW g \in Generations, Owns(r, p, g)
    PROVE  gens'[p][g] = gens[p][g]
  <1>1. gens[p][g].status = "building" /\ GenMove(p, g)
    BY GenMoves DEF ProjectionInv, RebuildInv, Owns
  <1>2. ASSUME NEW q \in Rebuilders, Owns(q, p, g)
        PROVE  q = r
    BY <1>2 DEF ProjectionInv, OwnBuild, Owns
  <1>3. ASSUME NEW w \in Relays, Writes(w, p, g)
        PROVE  FALSE
    BY <1>1, <1>3, WriterKnows
  <1> QED BY <1>1, <1>2, <1>3 DEF GenMove

LEMMA RebuildOther ==
    ASSUME ProjectionInv, [Next]_vars, NEW r \in Rebuilders, ~BuildStep(r)
    PROVE  RebuildInv(r)'
  <1> DEFINE P == rebuild[r].project
             G == rebuild[r].gen
  <1>1. TypeOK /\ RebuildInv(r) /\ rebuild'[r] = rebuild[r] /\ rebuild[r] \in RebuildState
    BY RebuildKept DEF ProjectionInv, TypeOK
  <1>2. CASE rebuild[r].at = "idle"
    BY <1>1, <1>2 DEF RebuildInv
  <1>3. CASE rebuild[r].at # "idle"
    <2>1. /\ P \in Projects /\ G \in Generations /\ rebuild[r].upto <= head[P] /\ rebuild[r].upto \in Nat
      BY <1>1, <1>3 DEF RebuildInv, RebuildState
    <2>2. gens'[P][G] = gens[P][G]
      BY <1>3, <2>1, BuildingKept DEF Owns
    <2>3. head[P] \in Nat /\ head'[P] \in Nat /\ head[P] <= head'[P]
          /\ Before(ours'[P], rebuild[r].upto) = Before(ours[P], rebuild[r].upto)
      BY <1>1, <2>1, BeforeKept
    <2>4. stream[P] = r => stream'[P] = r /\ head'[P] = head[P]
      BY <1>1, <2>1, BarrierHeld
    <2> QED BY <1>1, <1>3, <2>1, <2>2, <2>3, <2>4 DEF RebuildInv
  <1> QED BY <1>2, <1>3

LEMMA OwnBuildStep ==
    ASSUME ProjectionInv, [Next]_vars
    PROVE  OwnBuild'
  <1>1. TypeOK /\ OwnBuild
    BY DEF ProjectionInv
  <1>2. SUFFICES ASSUME NEW q \in Rebuilders, NEW r \in Rebuilders, q # r,
                        rebuild'[q].at # "idle", rebuild'[r].at # "idle",
                        rebuild'[q].project = rebuild'[r].project, rebuild'[q].gen = rebuild'[r].gen
                 PROVE  FALSE
    BY DEF OwnBuild
  <1>3. ASSUME NEW a \in Rebuilders, NEW b \in Rebuilders, a # b, BuildStep(a),
               rebuild'[a].at # "idle", rebuild'[b].at # "idle",
               rebuild'[a].project = rebuild'[b].project, rebuild'[a].gen = rebuild'[b].gen
        PROVE  FALSE
    <2>1. rebuild'[b] = rebuild[b] /\ rebuild \in [Rebuilders -> RebuildState] /\ rebuild[a] \in RebuildState
      BY <1>1, <1>3, BuildFrame DEF TypeOK
    <2>2. CASE \E p \in Projects : Allocate(a, p)
      <3>1. PICK p \in Projects : Allocate(a, p)
        BY <2>2
      <3>2. rebuild'[a] = [IdleRebuild EXCEPT !.at = "seed", !.project = p, !.gen = NextUnused(p)]
        BY <2>1, <3>1 DEF Allocate
      <3>3. rebuild'[a].project = p /\ rebuild'[a].gen = NextUnused(p)
        BY <3>2 DEF IdleRebuild
      <3>4. gens[p][NextUnused(p)].status = "none"
        BY <3>1, UnusedTaken DEF Allocate, Unused
      <3> QED BY <1>3, <2>1, <3>3, <3>4 DEF ProjectionInv, RebuildInv
    <2>3. CASE Swap(a) \/ CrashRebuild(a)
      <3>1. rebuild'[a] = IdleRebuild
        BY <2>1, <2>3 DEF Swap, CrashRebuild, EndRebuild
      <3> QED BY <1>3, <3>1 DEF IdleRebuild
    <2>4. CASE Seed(a) \/ Replay(a) \/ EndCatchUp(a) \/ Barrier(a) \/ FindPrevious(a)
      <3>1. rebuild[a].at # "idle" /\ rebuild'[a].project = rebuild[a].project /\ rebuild'[a].gen = rebuild[a].gen
        BY <2>1, <2>4 DEF Seed, Replay, EndCatchUp, Barrier, FindPrevious, RStep, RebuildState
      <3> QED BY <1>1, <1>3, <2>1, <3>1 DEF OwnBuild
    <2> QED BY <1>3, <2>2, <2>3, <2>4 DEF BuildStep, Build
  <1>4. CASE BuildStep(q)
    BY <1>2, <1>3, <1>4
  <1>5. CASE BuildStep(r)
    BY <1>2, <1>3, <1>5
  <1>6. CASE ~BuildStep(q) /\ ~BuildStep(r)
    BY <1>1, <1>2, <1>6, RebuildKept DEF OwnBuild
  <1> QED BY <1>4, <1>5, <1>6

-----------------------------------------------------------------------------
LEMMA RowTyped ==
    ASSUME NEW row \in DeliveryRow, NEW s \in {"absent", "pending", "leased", "succeeded", "dead"}
    PROVE  [row EXCEPT !.status = s] \in DeliveryRow
  BY DEF DeliveryRow

LEMMA SetRowTypes ==
    ASSUME TypeOK, NEW d \in Delivered, NEW row \in DeliveryRow, SetRow(d, row)
    PROVE  /\ delivery' \in [Projects -> [Positions -> DeliveryRow]]
           /\ expired' \subseteq Delivered
  BY DEF TypeOK, SetRow, Delivered

Bounds == [faults : 0..MaxFaults, crashes : 0..MaxCrashes, retries : 0..MaxRetries]

LEMMA FaultCounted ==
    ASSUME TypeOK, bound.faults < MaxFaults, bound' = [bound EXCEPT !.faults = @ + 1]
    PROVE  bound' \in Bounds
  <1>1. bound \in Bounds /\ bound.faults + 1 \in 0..MaxFaults
    BY GenerationsAssumption DEF TypeOK, Bounds, GenerationsAssumption
  <1> QED BY <1>1 DEF Bounds

LEMMA CrashCounted ==
    ASSUME TypeOK, bound.crashes < MaxCrashes, bound' = [bound EXCEPT !.crashes = @ + 1]
    PROVE  bound' \in Bounds
  <1>1. bound \in Bounds /\ bound.crashes + 1 \in 0..MaxCrashes
    BY GenerationsAssumption DEF TypeOK, Bounds, GenerationsAssumption
  <1> QED BY <1>1 DEF Bounds

LEMMA RetryCounted ==
    ASSUME TypeOK, bound.retries < MaxRetries, bound' = [bound EXCEPT !.retries = @ + 1]
    PROVE  bound' \in Bounds
  <1>1. bound \in Bounds /\ bound.retries + 1 \in 0..MaxRetries
    BY GenerationsAssumption DEF TypeOK, Bounds, GenerationsAssumption
  <1> QED BY <1>1 DEF Bounds

\* What a relay's step does to its own state.
LEMMA RelayStateTypes ==
    ASSUME ProjectionInv, NEW w \in Relays, RelayStep(w)
    PROVE  relay' \in [Relays -> RelayState]
  <1>1. TypeOK /\ relay \in [Relays -> RelayState] /\ relay[w] \in RelayState
    BY DEF ProjectionInv, TypeOK
  <1>2. ASSUME NEW s \in RelayState, relay' = [relay EXCEPT ![w] = s]
        PROVE  relay' \in [Relays -> RelayState]
    BY <1>1, <1>2
  <1>3. ASSUME NEW s \in {"idle", "dispatch", "ask", "await", "judge", "apply", "settle", "release", "fail"}
        PROVE  [relay[w] EXCEPT !.at = s] \in RelayState
    BY <1>1, <1>3 DEF RelayState
  <1>4. CASE EndPass(w) \/ Skip(w) \/ Apply(w) \/ HandlerFails(w)
    <2>1. \E s \in {"idle", "settle", "release", "fail"} : relay' = [relay EXCEPT ![w] = [relay[w] EXCEPT !.at = s]]
      BY <1>1, <1>4 DEF EndPass, Skip, Apply, HandlerFails, Step, CommitGeneration
    <2> QED BY <1>2, <1>3, <2>1
  <1>5. CASE Claim(w)
    <2>1. PICK batch \in SUBSET Claimable : relay' = [relay EXCEPT ![w].at = "dispatch", ![w].batch = batch]
      BY <1>5 DEF Claim
    <2>2. [relay[w] EXCEPT !.at = "dispatch", !.batch = batch] \in RelayState
      BY <1>1 DEF RelayState, TypeOK, Claimable
    <2> QED BY <1>1, <1>2, <2>1, <2>2
  <1>6. CASE LoadRow(w)
    <2> DEFINE rest(d) == [relay[w] EXCEPT !.batch = relay[w].batch \ {d}]
               load(d) == [relay[w] EXCEPT !.batch = relay[w].batch \ {d}, !.job = d, !.tries = Row(d).attempts,
                             !.at = "ask"]
    <2>1. PICK d \in relay[w].batch :
            relay' = [relay EXCEPT ![w] = IF Row(d).status \in {"succeeded", "dead"} THEN rest(d) ELSE load(d)]
      BY <1>6 DEF LoadRow
    <2>2. d \in Delivered
      BY <1>1 DEF RelayState
    <2>3. Row(d).attempts \in Nat
      BY <1>1, <2>2 DEF TypeOK, Row, DeliveryRow, Delivered
    <2>4. rest(d) \in RelayState /\ load(d) \in RelayState
      BY <1>1, <2>2, <2>3 DEF RelayState
    <2> HIDE DEF rest, load
    <2> QED BY <1>2, <2>1, <2>4
  <1>7. CASE AskLock(w)
    <2>1. ActiveOf(relay[w].job[1]) \in 0..MaxGenerations
      <3>1. Active(relay[w].job[1]) \subseteq 1..MaxGenerations /\ MaxGenerations \in Nat
        BY GenerationsAssumption DEF Active, Generations, GenerationsAssumption
      <3> QED BY <3>1 DEF ActiveOf
    <2>2. [relay[w] EXCEPT !.at = "await", !.gen = ActiveOf(relay[w].job[1])] \in RelayState
      BY <1>1, <2>1 DEF RelayState
    <2>3. relay' = [relay EXCEPT ![w] = [relay[w] EXCEPT !.at = "await", !.gen = ActiveOf(relay[w].job[1])]]
      BY <1>1, <1>7 DEF AskLock
    <2> QED BY <1>2, <2>2, <2>3
  <1>8. CASE TakeLock(w)
    <2>1. [relay[w] EXCEPT !.at = "judge", !.gen = 0] \in RelayState
      <3>1. 0 \in 0..MaxGenerations
        BY GenerationsAssumption DEF GenerationsAssumption
      <3> QED BY <1>1, <3>1 DEF RelayState
    <2>2. \/ \E s \in {"judge", "fail"} : relay' = [relay EXCEPT ![w] = [relay[w] EXCEPT !.at = s]]
          \/ relay' = [relay EXCEPT ![w] = [relay[w] EXCEPT !.at = "judge", !.gen = 0]]
      BY <1>1, <1>8 DEF TakeLock, Step
    <2> QED BY <1>2, <1>3, <2>1, <2>2
  <1>9. CASE Refresh(w)
    <2> DEFINE snap == IF relay[w].job[2] \in ours[relay[w].job[1]] THEN ours[relay[w].job[1]] ELSE Locked(w).rows
    <2>1. relay[w].at = "judge" /\ relay' = [relay EXCEPT ![w].at = "apply", ![w].snap = snap]
      BY <1>9 DEF Refresh
    <2>2. snap \subseteq Positions \cup {-1}
      <3>1. Locked(w) \in GenerationRow /\ relay[w].job[1] \in Projects
        BY <2>1, LockedTyped DEF Locking
      <3> QED BY <1>1, <3>1 DEF TypeOK, GenerationRow
    <2> HIDE DEF snap
    <2>3. [relay[w] EXCEPT !.at = "apply", !.snap = snap] \in RelayState
      BY <1>1, <2>2 DEF RelayState
    <2>4. relay' = [relay EXCEPT ![w] = [relay[w] EXCEPT !.at = "apply", !.snap = snap]]
      BY <1>1, <2>1
    <2> QED BY <1>2, <2>3, <2>4
  <1>10. CASE Settle(w) \/ Fail(w) \/ CrashRelay(w)
    <2>1. IdleRelay \in RelayState
      BY GenerationsAssumption DEF IdleRelay, RelayState, GenerationsAssumption
    <2>2. [IdleRelay EXCEPT !.at = "dispatch", !.batch = relay[w].batch] \in RelayState
      BY <1>1, <2>1 DEF RelayState
    <2> QED BY <1>2, <1>10, <2>1, <2>2 DEF Settle, Fail, CrashRelay, NextJob
  <1> QED BY <1>4, <1>5, <1>6, <1>7, <1>8, <1>9, <1>10 DEF RelayStep, Deliver

LEMMA RelayTypes ==
    ASSUME ProjectionInv, NEW w \in Relays, RelayStep(w)
    PROVE  TypeOK'
  <1>1. /\ TypeOK /\ relay' \in [Relays -> RelayState] /\ UNCHANGED <<head, ours, stream, rebuild, reader>>
        /\ relay[w] \in RelayState /\ RelayInv(w)
    BY RelayStateTypes, RelayFrame DEF ProjectionInv, TypeOK
  <1>2. gens' \in [Projects -> [Generations -> GenerationRow]]
    <2>1. ASSUME NEW row \in GenerationRow, NEW out, CommitGeneration(w, row, out), relay[w].at \in Locking
          PROVE  gens' \in [Projects -> [Generations -> GenerationRow]]
      <3> DEFINE g == IF relay[w].gen = 0 THEN NextUnused(relay[w].job[1]) ELSE relay[w].gen
      <3>1. [row EXCEPT !.status = "active"] \in GenerationRow
        BY DEF GenerationRow
      <3>2. g \in Generations
        BY <1>1, <2>1, LockedTyped, UnusedTaken DEF RelayInv, Active
      <3> HIDE DEF g
      <3> QED BY <1>1, <2>1, <3>1, <3>2 DEF TypeOK, CommitGeneration, g
    <2>2. CASE Skip(w)
      <3>1. Locked(w) \in GenerationRow /\ relay[w].at \in Locking
        BY <2>2, LockedTyped DEF Skip, Locking
      <3>2. [Locked(w) EXCEPT !.cursor = "blocked"] \in GenerationRow
        BY <3>1 DEF GenerationRow
      <3> QED BY <2>1, <2>2, <3>1, <3>2 DEF Skip
    <2>3. CASE Apply(w)
      <3>1. Locked(w) \in GenerationRow /\ relay[w].at \in Locking /\ relay[w].job[2] \in Positions
        BY <2>3, LockedTyped DEF Apply, Locking
      <3>2. relay[w].job[2] + 1 \in 0..MaxEvents /\ relay[w].snap \subseteq Positions \cup {-1}
        BY <1>1, <3>1, GenerationsAssumption DEF RelayState, Positions, GenerationsAssumption
      <3>3. [Locked(w) EXCEPT !.next = relay[w].job[2] + 1, !.cursor = "live", !.rows = relay[w].snap] \in GenerationRow
        BY <3>1, <3>2 DEF GenerationRow
      <3> QED BY <2>1, <2>3, <3>1, <3>3 DEF Apply
    <2>4. CASE gens' = gens
      BY <1>1, <2>4 DEF TypeOK
    <2> QED BY <2>2, <2>3, <2>4 DEF RelayStep, Deliver, HandlerFails, CrashRelay, Claim, EndPass, LoadRow, AskLock,
            TakeLock, Refresh, Settle, Fail
  <1>3. holder' \in [Projects -> Relays \cup {Free}]
    BY <1>1 DEF TypeOK, RelayStep, Deliver, HandlerFails, CrashRelay, Claim, EndPass, LoadRow, AskLock, TakeLock, Skip,
          Refresh, Apply, Settle, Fail, CommitGeneration, Unlock
  <1>4. /\ delivery' \in [Projects -> [Positions -> DeliveryRow]]
        /\ due' \subseteq Delivered /\ expired' \subseteq Delivered
    <2>1. CASE Claim(w)
      <3>1. PICK batch \in SUBSET Claimable :
               /\ delivery' = [p \in Projects |-> [i \in Positions |->
                    IF <<p, i>> \in batch THEN [delivery[p][i] EXCEPT !.status = "leased"] ELSE delivery[p][i]]]
               /\ expired' = expired \ batch /\ due' = due
        BY <2>1 DEF Claim
      <3>2. \A p \in Projects, i \in Positions :
               [delivery[p][i] EXCEPT !.status = "leased"] \in DeliveryRow /\ delivery[p][i] \in DeliveryRow
        BY <1>1, RowTyped DEF TypeOK
      <3> QED BY <1>1, <3>1, <3>2 DEF TypeOK
    <2>2. CASE Settle(w)
      <3>1. relay[w].job \in Delivered
        BY <1>1, <2>2 DEF Settle, RelayInv, Working, Committed
      <3>2. Row(relay[w].job) \in DeliveryRow
        BY <1>1, <3>1 DEF TypeOK, Row, Delivered
      <3> QED BY <1>1, <2>2, <3>1, <3>2, RowTyped, SetRowTypes DEF Settle, TypeOK
    <2>3. CASE Fail(w)
      <3>1. relay[w].job \in Delivered
        BY <1>1, <2>3 DEF Fail, RelayInv, Working, Committed
      <3>2. [status |-> IF relay[w].tries + 1 >= MaxAttempts THEN "dead" ELSE "pending",
             attempts |-> relay[w].tries + 1] \in DeliveryRow
        BY <1>1 DEF DeliveryRow, RelayState
      <3> QED BY <1>1, <2>3, <3>1, <3>2, SetRowTypes DEF Fail, TypeOK
    <2>4. CASE UNCHANGED rowVars
      BY <1>1, <2>4 DEF TypeOK, rowVars
    <2> QED BY <2>1, <2>2, <2>3, <2>4 DEF RelayStep, Deliver, HandlerFails, CrashRelay, EndPass, LoadRow, AskLock,
            TakeLock, Skip, Refresh, Apply
  <1>5. bound' \in Bounds
    <2>1. CASE HandlerFails(w)
      BY <1>1, <2>1, FaultCounted DEF HandlerFails
    <2>2. CASE CrashRelay(w)
      BY <1>1, <2>2, CrashCounted DEF CrashRelay
    <2>3. CASE bound' = bound
      BY <1>1, <2>3 DEF TypeOK, Bounds
    <2> QED BY <2>1, <2>2, <2>3 DEF RelayStep, Deliver, Claim, EndPass, LoadRow, AskLock, TakeLock, Skip, Refresh, Apply,
            Settle, Fail
  <1> QED BY <1>1, <1>2, <1>3, <1>4, <1>5 DEF TypeOK, Bounds

LEMMA RowTypes ==
    ASSUME ProjectionInv, NEW d \in Delivered, RowStep(d)
    PROVE  TypeOK'
  <1>1. TypeOK /\ UNCHANGED <<head, ours, gens, holder, stream, relay, rebuild, reader>>
    BY RowFrame DEF ProjectionInv
  <1>2. CASE BackoffElapses(d) \/ LeaseExpires(d)
    BY <1>1, <1>2 DEF BackoffElapses, LeaseExpires, TypeOK
  <1>3. CASE Retry(d)
    <2>1. [status |-> "pending", attempts |-> 0] \in DeliveryRow
      BY DEF DeliveryRow
    <2>2. bound' \in Bounds
      BY <1>1, <1>3, RetryCounted DEF Retry
    <2>3. due' \subseteq Delivered
      BY <1>1, <1>3 DEF TypeOK, Retry
    <2> QED BY <1>1, <1>3, <2>1, <2>2, <2>3, SetRowTypes DEF Retry, TypeOK, Bounds
  <1> QED BY <1>2, <1>3 DEF RowStep

LEMMA StreamTypes ==
    ASSUME ProjectionInv, NEW p \in Projects, Emit(p) \/ DropRetired(p)
    PROVE  TypeOK'
  <1>1. TypeOK /\ UNCHANGED <<holder, stream, expired, relay, rebuild, reader, bound>>
    BY StreamFrame DEF ProjectionInv
  <1>2. CASE Emit(p)
    <2>1. head[p] \in Positions
      BY <1>1, <1>2, GenerationsAssumption DEF Emit, TypeOK, Positions, GenerationsAssumption
    <2>2. head' \in [Projects -> 0..MaxEvents] /\ ours' \in [Projects -> SUBSET (Positions \cup {-1})]
      <3>1. head[p] + 1 \in 0..MaxEvents
        BY <2>1, GenerationsAssumption DEF Positions, GenerationsAssumption
      <3>2. head' \in [Projects -> 0..MaxEvents]
        BY <1>1, <1>2, <3>1 DEF Emit, TypeOK
      <3>3. ours[p] \cup {head[p]} \in SUBSET (Positions \cup {-1})
        BY <1>1, <2>1 DEF TypeOK
      <3>4. ours' \in [Projects -> SUBSET (Positions \cup {-1})]
        BY <1>1, <1>2, <3>3 DEF Emit, TypeOK
      <3> QED BY <3>2, <3>4
    <2>3. delivery[p][head[p]] \in DeliveryRow
      BY <1>1, <2>1 DEF TypeOK
    <2>4. delivery' = [delivery EXCEPT ![p][head[p]] = [delivery[p][head[p]] EXCEPT !.status = "pending"]]
      BY <1>1, <1>2, <2>1 DEF Emit, TypeOK
    <2>5. delivery' \in [Projects -> [Positions -> DeliveryRow]]
      BY <1>1, <2>1, <2>3, <2>4, RowTyped DEF TypeOK
    <2>6. due' \subseteq Delivered /\ gens' = gens
      BY <1>1, <1>2, <2>1 DEF Emit, TypeOK, Delivered
    <2> QED BY <1>1, <2>2, <2>5, <2>6 DEF TypeOK
  <1>3. CASE DropRetired(p)
    <2>1. [NoGeneration EXCEPT !.status = "dropped"] \in GenerationRow
      BY GenerationsAssumption DEF NoGeneration, GenerationRow, GenerationsAssumption
    <2>2. gens' \in [Projects -> [Generations -> GenerationRow]]
      BY <1>1, <1>3, <2>1 DEF DropRetired, TypeOK
    <2> QED BY <1>1, <1>3, <2>2, StreamFrame DEF TypeOK
  <1> QED BY <1>2, <1>3

LEMMA ReadTypes ==
    ASSUME ProjectionInv, NEW x \in Readers, Read(x)
    PROVE  TypeOK'
  <1>1. /\ TypeOK /\ UNCHANGED <<head, ours, gens, holder, stream, delivery, due, expired, relay, rebuild, bound>>
        /\ reader \in [Readers -> ReadState] /\ reader[x] \in ReadState /\ ReadInv(x)
    BY ReadFrame DEF ProjectionInv, TypeOK
  <1>2. ASSUME NEW s \in ReadState, reader' = [reader EXCEPT ![x] = s]
        PROVE  TypeOK'
    BY <1>1, <1>2 DEF TypeOK
  <1>3. IdleRead \in ReadState
    BY GenerationsAssumption DEF IdleRead, ReadState, GenerationsAssumption
  <1>4. ASSUME NEW p \in Projects, ReadGeneration(x, p)
        PROVE  TypeOK'
    <2> DEFINE g == ActiveOf(p)
    <2>1. g \in Generations
      BY <1>4 DEF ReadGeneration, ActiveOf, Active
    <2>2. gens[p][g].next \in 0..MaxEvents /\ g \in 0..MaxGenerations
      <3> HIDE DEF g
      <3> QED BY <1>1, <2>1, GenerationsAssumption DEF TypeOK, GenerationRow, Generations, GenerationsAssumption
    <2>3. reader' = [reader EXCEPT ![x] = [IdleRead EXCEPT !.at = "head", !.project = p, !.gen = g,
                                             !.next = gens[p][g].next]]
      BY <1>4 DEF ReadGeneration
    <2> HIDE DEF g
    <2>4. [IdleRead EXCEPT !.at = "head", !.project = p, !.gen = g, !.next = gens[p][g].next] \in ReadState
      BY <1>3, <2>2 DEF ReadState
    <2> QED BY <1>2, <2>3, <2>4
  <1>5. CASE ReadHead(x)
    <2>1. reader[x].project \in Projects
      BY <1>1, <1>5 DEF ReadHead, ReadInv
    <2>2. [reader[x] EXCEPT !.at = "rows", !.canon = ours[reader[x].project]] \in ReadState
      BY <1>1, <2>1 DEF ReadState, TypeOK
    <2>3. \/ reader' = [reader EXCEPT ![x] = IdleRead]
          \/ reader' = [reader EXCEPT ![x] = [reader[x] EXCEPT !.at = "rows", !.canon = ours[reader[x].project]]]
      BY <1>1, <1>5 DEF ReadHead
    <2> QED BY <1>2, <1>3, <2>2, <2>3
  <1>6. CASE ReadRows(x)
    <2> DEFINE rows == gens[reader[x].project][reader[x].gen].rows
    <2>1. rows \subseteq Positions \cup {-1}
      <3>1. reader[x].project \in Projects /\ reader[x].gen \in Generations
        BY <1>1, <1>6 DEF ReadRows, ReadInv
      <3>2. gens[reader[x].project][reader[x].gen] \in GenerationRow
        BY <1>1, <3>1 DEF TypeOK
      <3> QED BY <3>2 DEF GenerationRow
    <2>2. \/ reader' = [reader EXCEPT ![x] = IdleRead]
          \/ reader' = [reader EXCEPT ![x] = [reader[x] EXCEPT !.at = "served", !.rows = rows]]
      BY <1>1, <1>6 DEF ReadRows
    <2> HIDE DEF rows
    <2>3. [reader[x] EXCEPT !.at = "served", !.rows = rows] \in ReadState
      BY <1>1, <2>1 DEF ReadState
    <2> QED BY <1>2, <1>3, <2>2, <2>3
  <1>7. CASE EndRead(x)
    BY <1>2, <1>3, <1>7 DEF EndRead
  <1> QED BY <1>4, <1>5, <1>6, <1>7 DEF Read

LEMMA BuildTypes ==
    ASSUME ProjectionInv, NEW r \in Rebuilders, BuildStep(r)
    PROVE  TypeOK'
  <1> DEFINE P == rebuild[r].project
             G == rebuild[r].gen
  <1>1. /\ TypeOK /\ UNCHANGED <<head, ours, holder, delivery, due, expired, relay, reader>>
        /\ rebuild \in [Rebuilders -> RebuildState] /\ rebuild[r] \in RebuildState
        /\ gens \in [Projects -> [Generations -> GenerationRow]]
        /\ rebuild[r].at # "idle" => P \in Projects /\ G \in Generations
    BY BuildFrame DEF ProjectionInv, TypeOK, RebuildInv
  <1>2. gens' \in [Projects -> [Generations -> GenerationRow]]
    <2>1. ASSUME NEW q \in Projects, NEW g \in Generations, NEW row \in GenerationRow,
                 gens' = [gens EXCEPT ![q][g] = row]
          PROVE  gens' \in [Projects -> [Generations -> GenerationRow]]
      BY <1>1, <2>1
    <2>2. ASSUME NEW row \in GenerationRow, NEW s \in {"building", "active", "retired"}
          PROVE  [row EXCEPT !.status = s] \in GenerationRow
      BY <2>2 DEF GenerationRow
    <2>3. ASSUME NEW q \in Projects, Allocate(r, q)
          PROVE  gens' \in [Projects -> [Generations -> GenerationRow]]
      <3>1. NextUnused(q) \in Generations
        BY <2>3, UnusedTaken DEF Allocate
      <3>2. [gens[q][NextUnused(q)] EXCEPT !.status = "building"] \in GenerationRow
        BY <1>1, <2>2, <3>1
      <3>3. gens' = [gens EXCEPT ![q][NextUnused(q)] = [gens[q][NextUnused(q)] EXCEPT !.status = "building"]]
        BY <1>1, <2>3, <3>1 DEF Allocate
      <3> QED BY <2>1, <3>1, <3>2, <3>3
    <2>4. CASE Seed(r) /\ gens' # gens
      <3>1. P \in Projects /\ G \in Generations
        BY <1>1, <2>4 DEF Seed
      <3>2. [gens[P][G] EXCEPT !.rows = ours[P]] \in GenerationRow
        <4>1. gens[P][G] \in GenerationRow /\ ours[P] \in SUBSET (Positions \cup {-1})
          BY <1>1, <3>1 DEF TypeOK
        <4> QED BY <4>1 DEF GenerationRow
      <3>3. [gens[P][G] EXCEPT !.next = rebuild[r].upto] \in GenerationRow
        <4>1. gens[P][G] \in GenerationRow /\ rebuild[r].upto \in 0..MaxEvents
          BY <1>1, <3>1 DEF RebuildState
        <4> QED BY <4>1 DEF GenerationRow
      <3>4. \/ gens' = [gens EXCEPT ![P][G] = [gens[P][G] EXCEPT !.rows = ours[P]]]
            \/ gens' = [gens EXCEPT ![P][G] = [gens[P][G] EXCEPT !.next = rebuild[r].upto]]
        BY <1>1, <2>4, <3>1 DEF Seed
      <3> QED BY <2>1, <3>1, <3>2, <3>3, <3>4
    <2>5. CASE Replay(r)
      <3> DEFINE i == gens[P][G].next
                 rows == IF i \in ours[P] THEN ours[P] ELSE gens[P][G].rows
      <3>1. P \in Projects /\ G \in Generations /\ i < head[P]
        BY <1>1, <2>5 DEF Replay, ApplyNext
      <3>2. i + 1 \in 0..MaxEvents
        <4>1. i \in 0..MaxEvents /\ head[P] \in 0..MaxEvents
          BY <1>1, <3>1 DEF TypeOK, GenerationRow
        <4> QED BY <3>1, <4>1, GenerationsAssumption DEF GenerationsAssumption
      <3>3. rows \subseteq Positions \cup {-1}
        BY <1>1, <3>1 DEF TypeOK, GenerationRow
      <3>4. gens' = [gens EXCEPT ![P][G] = [gens[P][G] EXCEPT !.next = i + 1, !.rows = rows]]
        BY <1>1, <2>5, <3>1 DEF Replay, ApplyNext
      <3>5. \A row \in GenerationRow : [row EXCEPT !.next = i + 1, !.rows = rows] \in GenerationRow
        <4> HIDE DEF i, rows
        <4> QED BY <3>2, <3>3 DEF GenerationRow
      <3>6. gens[P][G] \in GenerationRow
        BY <1>1, <3>1
      <3> HIDE DEF i, rows
      <3> QED BY <2>1, <3>1, <3>4, <3>5, <3>6
    <2>6. CASE Swap(r) /\ gens' # gens
      <3> DEFINE row(f) == CASE f = G -> [gens[P][f] EXCEPT !.status = "active", !.cursor = "live"]
                             [] f \in Active(P) -> [gens[P][f] EXCEPT !.status = "retired"]
                             [] OTHER -> gens[P][f]
      <3>1. gens' = [gens EXCEPT ![P] = [f \in Generations |-> row(f)]] /\ P \in Projects
        BY <1>1, <2>6 DEF Swap
      <3>2. ASSUME NEW f \in Generations
            PROVE  row(f) \in GenerationRow
        <4>1. gens[P][f] \in GenerationRow
          BY <1>1, <3>1
        <4>2. [gens[P][f] EXCEPT !.status = "active", !.cursor = "live"] \in GenerationRow
          BY <4>1 DEF GenerationRow
        <4>3. [gens[P][f] EXCEPT !.status = "retired"] \in GenerationRow
          BY <2>2, <4>1
        <4> QED BY <4>1, <4>2, <4>3
      <3> HIDE DEF row
      <3>3. [f \in Generations |-> row(f)] \in [Generations -> GenerationRow]
        BY <3>2
      <3> QED BY <1>1, <3>1, <3>3
    <2>7. CASE gens' = gens
      BY <1>1, <2>7
    <2> QED BY <2>3, <2>4, <2>5, <2>6, <2>7 DEF BuildStep, Build, EndCatchUp, Barrier, FindPrevious, CrashRebuild
  <1>3. stream' \in [Projects -> Rebuilders \cup {Free}]
    BY <1>1 DEF TypeOK, BuildStep, Build, Seed, Replay, EndCatchUp, Barrier, FindPrevious, Swap, CrashRebuild, Allocate, EndRebuild
  <1>4. rebuild' \in [Rebuilders -> RebuildState]
    <2>1. ASSUME NEW s \in RebuildState, rebuild' = [rebuild EXCEPT ![r] = s]
          PROVE  rebuild' \in [Rebuilders -> RebuildState]
      BY <1>1, <2>1
    <2>2. IdleRebuild \in RebuildState
      BY GenerationsAssumption DEF IdleRebuild, RebuildState, GenerationsAssumption
    <2>3. ASSUME NEW q \in Projects, Allocate(r, q)
          PROVE  rebuild' \in [Rebuilders -> RebuildState]
      <3>1. NextUnused(q) \in 0..MaxGenerations
        BY <2>3, UnusedTaken, GenerationsAssumption DEF Allocate, Generations, GenerationsAssumption
      <3>2. [IdleRebuild EXCEPT !.at = "seed", !.project = q, !.gen = NextUnused(q)] \in RebuildState
        BY <2>2, <3>1 DEF RebuildState
      <3> QED BY <2>1, <2>3, <3>2 DEF Allocate
    <2>4. CASE Seed(r) \/ EndCatchUp(r) \/ Barrier(r)
      <3>1. P \in Projects
        BY <1>1, <2>4 DEF Seed, EndCatchUp, Barrier
      <3>2. [rebuild[r] EXCEPT !.at = "rows", !.upto = head[P]] \in RebuildState
        BY <1>1, <3>1 DEF RebuildState, TypeOK
      <3>3. \A s \in {"mark", "replay", "barrier", "tail"} : [rebuild[r] EXCEPT !.at = s] \in RebuildState
        BY <1>1 DEF RebuildState
      <3>4. \/ rebuild' = [rebuild EXCEPT ![r] = [rebuild[r] EXCEPT !.at = "rows", !.upto = head[P]]]
            \/ \E s \in {"mark", "replay", "barrier", "tail"} : rebuild' = [rebuild EXCEPT ![r] = [rebuild[r] EXCEPT !.at = s]]
        BY <1>1, <2>4 DEF Seed, EndCatchUp, Barrier, RStep
      <3> QED BY <2>1, <3>2, <3>3, <3>4
    <2>5. CASE FindPrevious(r)
      <3>1. ActiveOf(P) \in 0..MaxGenerations
        <4>1. Active(P) \subseteq 1..MaxGenerations /\ MaxGenerations \in Nat
          BY GenerationsAssumption DEF Active, Generations, GenerationsAssumption
        <4> QED BY <4>1 DEF ActiveOf
      <3>2. [rebuild[r] EXCEPT !.at = "swap", !.prev = ActiveOf(P)] \in RebuildState
        BY <1>1, <3>1 DEF RebuildState
      <3>3. rebuild' = [rebuild EXCEPT ![r] = [rebuild[r] EXCEPT !.at = "swap", !.prev = ActiveOf(P)]]
        BY <1>1, <2>5 DEF FindPrevious
      <3> QED BY <2>1, <3>2, <3>3
    <2>6. CASE Swap(r) \/ CrashRebuild(r)
      BY <2>1, <2>2, <2>6 DEF Swap, CrashRebuild, EndRebuild
    <2>7. CASE Replay(r)
      BY <1>1, <2>7 DEF Replay
    <2> QED BY <2>3, <2>4, <2>5, <2>6, <2>7 DEF BuildStep, Build
  <1>5. bound' \in Bounds
    <2>1. CASE CrashRebuild(r)
      BY <1>1, <2>1, CrashCounted DEF CrashRebuild
    <2>2. CASE bound' = bound
      BY <1>1, <2>2 DEF TypeOK, Bounds
    <2> QED BY <2>1, <2>2 DEF BuildStep, Build, Seed, Replay, EndCatchUp, Barrier, FindPrevious, Swap, Allocate
  <1> QED BY <1>1, <1>2, <1>3, <1>4, <1>5 DEF TypeOK, Bounds

LEMMA TypeStep ==
    ASSUME ProjectionInv, [Next]_vars
    PROVE  TypeOK'
  <1>1. CASE UNCHANGED vars
    BY <1>1 DEF ProjectionInv, TypeOK, vars
  <1> QED BY <1>1, NextSplit, RelayTypes, RowTypes, StreamTypes, ReadTypes, BuildTypes
-----------------------------------------------------------------------------
\* Every way in which a step can change a delivery's row.
RowMove(p, i) ==
    LET row == delivery[p][i]
        d == <<p, i>> IN
    \/ row.status = delivery'[p][i].status /\ (d \in due' => d \in due)
    \/ delivery'[p][i].status = "pending" /\ i = head[p] /\ head'[p] = head[p] + 1
    \/ Committed(d) /\ delivery'[p][i].status # "succeeded"
    \/ Committed(d) /\ \E w \in Relays : relay[w].at = "settle" /\ relay[w].job = d

LEMMA SetRowMoves ==
    ASSUME TypeOK, NEW d \in Delivered, NEW row, SetRow(d, row), NEW p \in Projects, NEW i \in Positions
    PROVE  delivery'[p][i] = IF d = <<p, i>> THEN row ELSE delivery[p][i]
  <1>1. d = <<d[1], d[2]>> /\ d[1] \in Projects /\ d[2] \in Positions
    BY DEF Delivered
  <1>2. delivery' = [delivery EXCEPT ![d[1]][d[2]] = row]
    BY DEF SetRow
  <1>3. d = <<p, i>> <=> p = d[1] /\ i = d[2]
    BY <1>1
  <1> QED BY <1>1, <1>2, <1>3 DEF TypeOK

LEMMA RowMoves ==
    ASSUME ProjectionInv, [Next]_vars, NEW p \in Projects, NEW i \in Positions
    PROVE  RowMove(p, i)
  <1>1. TypeOK /\ StreamInv /\ <<p, i>> \in Delivered /\ Row(<<p, i>>) = delivery[p][i]
    BY DEF ProjectionInv, Delivered, Row
  <1>2. ASSUME NEW q \in Projects, Emit(q)
        PROVE  RowMove(p, i)
    <2>1. head[q] \in Positions /\ due' = due \cup {<<q, head[q]>>} /\ head'[q] = head[q] + 1
      BY <1>1, <1>2, GenerationsAssumption DEF Emit, TypeOK, Positions, GenerationsAssumption
    <2>2. delivery' = [delivery EXCEPT ![q][head[q]] = [delivery[q][head[q]] EXCEPT !.status = "pending"]]
      BY <1>1, <1>2, <2>1 DEF Emit, TypeOK
    <2>3. CASE p = q /\ i = head[q]
      <3>1. delivery'[p][i] = [delivery[p][i] EXCEPT !.status = "pending"] /\ delivery[p][i] \in DeliveryRow
        BY <1>1, <2>1, <2>2, <2>3 DEF TypeOK
      <3>2. delivery'[p][i].status = "pending"
        BY <3>1 DEF DeliveryRow
      <3> QED BY <2>1, <2>3, <3>2 DEF RowMove
    <2>4. CASE ~(p = q /\ i = head[q])
      BY <1>1, <2>1, <2>2, <2>4 DEF RowMove, TypeOK
    <2> QED BY <2>3, <2>4
  <1>3. ASSUME NEW w \in Relays, RelayStep(w)
        PROVE  RowMove(p, i)
    <2>1. RelayInv(w) /\ relay[w] \in RelayState
      BY DEF ProjectionInv, TypeOK
    <2>2. CASE Claim(w)
      <3>1. PICK batch \in SUBSET Claimable :
               delivery' = [q \in Projects |-> [k \in Positions |->
                    IF <<q, k>> \in batch THEN [delivery[q][k] EXCEPT !.status = "leased"] ELSE delivery[q][k]]]
        BY <2>2 DEF Claim
      <3>2. due' = due
        BY <2>2 DEF Claim
      <3>3. CASE <<p, i>> \in batch
        <4>1. delivery'[p][i] = [delivery[p][i] EXCEPT !.status = "leased"] /\ delivery[p][i] \in DeliveryRow
          BY <1>1, <3>1, <3>3 DEF TypeOK
        <4>2. delivery'[p][i].status = "leased"
          BY <4>1 DEF DeliveryRow
        <4>3. Committed(<<p, i>>)
          BY <1>1, <3>3 DEF Claimable, StreamInv
        <4> QED BY <4>2, <4>3 DEF RowMove
      <3>4. CASE <<p, i>> \notin batch
        BY <3>1, <3>2, <3>4 DEF RowMove
      <3> QED BY <3>3, <3>4
    <2>3. ASSUME NEW row, SetRow(relay[w].job, row), relay[w].at \in {"settle", "release", "fail"}, due' \subseteq due,
                 relay[w].at # "settle" => row.status # "succeeded"
          PROVE  RowMove(p, i)
      <3>1. Committed(relay[w].job) /\ relay[w].job \in Delivered
        BY <2>1, <2>3 DEF RelayInv, Working, Committed
      <3>2. delivery'[p][i] = IF relay[w].job = <<p, i>> THEN row ELSE delivery[p][i]
        BY <1>1, <2>3, <3>1, SetRowMoves
      <3> QED BY <2>3, <3>1, <3>2 DEF RowMove
    <2>4. CASE Settle(w)
      <3>1. CASE relay[w].at = "settle"
        BY <2>3, <2>4, <3>1 DEF Settle
      <3>2. CASE relay[w].at = "release"
        <4>1. relay[w].job \in Delivered
          BY <2>1, <3>2 DEF RelayInv, Working, Committed
        <4>2. Row(relay[w].job) \in DeliveryRow
          BY <1>1, <4>1 DEF TypeOK, Row, Delivered
        <4>3. [Row(relay[w].job) EXCEPT !.status = "pending"].status = "pending"
          BY <4>2 DEF DeliveryRow
        <4> QED BY <2>3, <2>4, <3>2, <4>3 DEF Settle
      <3> QED BY <2>4, <3>1, <3>2 DEF Settle
    <2>5. CASE Fail(w)
      BY <2>3, <2>5 DEF Fail
    <2>6. CASE UNCHANGED <<delivery, due>>
      BY <2>6 DEF RowMove
    <2> QED BY <1>3, <2>2, <2>4, <2>5, <2>6 DEF RelayStep, Deliver, HandlerFails, CrashRelay, EndPass, LoadRow, AskLock,
            TakeLock, Skip, Refresh, Apply, rowVars
  <1>4. ASSUME NEW d \in Delivered, RowStep(d)
        PROVE  RowMove(p, i)
    <2>1. CASE BackoffElapses(d)
      <3>1. due' = due \cup {d} /\ delivery' = delivery /\ Committed(d) /\ Row(d).status = "pending"
        BY <1>1, <2>1 DEF BackoffElapses, StreamInv
      <3> QED BY <1>1, <3>1 DEF RowMove
    <2>2. CASE LeaseExpires(d)
      BY <2>2 DEF LeaseExpires, RowMove
    <2>3. CASE Retry(d)
      <3>1. due' = due \cup {d} /\ Committed(d) /\ SetRow(d, [status |-> "pending", attempts |-> 0])
        BY <1>1, <2>3 DEF Retry, StreamInv
      <3>2. delivery'[p][i] = IF d = <<p, i>> THEN [status |-> "pending", attempts |-> 0] ELSE delivery[p][i]
        BY <1>1, <3>1, SetRowMoves
      <3> QED BY <3>1, <3>2 DEF RowMove
    <2> QED BY <1>4, <2>1, <2>2, <2>3 DEF RowStep
  <1>5. CASE UNCHANGED <<delivery, due>>
    BY <1>5 DEF RowMove
  <1> QED BY <1>1, <1>2, <1>3, <1>4, <1>5, NextSplit, BuildFrame, ReadFrame, StreamFrame DEF vars

LEMMA StreamStep ==
    ASSUME ProjectionInv, [Next]_vars
    PROVE  StreamInv'
  <1>1. TypeOK /\ TypeOK' /\ StreamInv
    BY TypeStep DEF ProjectionInv
  <1>2. ASSUME NEW p \in Projects, NEW i \in ours'[p]
        PROVE  i < head'[p]
    <2>1. head[p] \in Nat /\ ours[p] \subseteq Int
      BY <1>1 DEF TypeOK, Positions
    <2>2. i \in ours[p] => i < head[p]
      BY <1>1 DEF StreamInv
    <2> QED BY <1>1, <1>2, <2>1, <2>2, StreamGrows DEF Grows
  <1>3. ASSUME NEW d \in Delivered, d \in due' \/ Row(d)'.status # "absent"
        PROVE  Committed(d)'
    <2>1. PICK p \in Projects, i \in Positions : d = <<p, i>>
      BY DEF Delivered
    <2>2. RowMove(p, i) /\ Row(d) = delivery[p][i] /\ Row(d)' = delivery'[p][i]
      BY <2>1, RowMoves DEF Row
    <2>3. CASE i = head[p] /\ head'[p] = head[p] + 1
      BY <1>1, <2>1, <2>3 DEF Committed, TypeOK
    <2>4. CASE Committed(d)
      BY <1>1, <2>4, CommittedKept
    <2> QED BY <1>1, <1>3, <2>1, <2>2, <2>3, <2>4 DEF RowMove, StreamInv
  <1> QED BY <1>1, <1>2, <1>3 DEF StreamInv, TypeOK

-----------------------------------------------------------------------------
\* The checkpoint that serves never moves back.
LEMMA ServeStep ==
    ASSUME ProjectionInv, [Next]_vars, NEW p \in Projects, NEW g \in Active(p)
    PROVE  \E f \in Active(p)' : gens'[p][f].next >= gens[p][g].next
  <1>1. /\ g \in Generations /\ gens[p][g].status = "active" /\ GenMove(p, g) /\ GenInv(p, g)
        /\ gens[p][g].next \in Nat
    BY GenMoves DEF Active, ProjectionInv, TypeOK, GenerationRow
  <1>2. CASE gens'[p][g] = gens[p][g]
    BY <1>1, <1>2 DEF Active
  <1>3. ASSUME NEW w \in Relays, Writes(w, p, g),
               \/ Becomes(p, g, "active", gens[p][g].next, gens[p][g].rows)
               \/ relay[w].at = "apply" /\ Becomes(p, g, "active", relay[w].job[2] + 1, relay[w].snap)
        PROVE  \E f \in Active(p)' : gens'[p][f].next >= gens[p][g].next
    <2>1. gens'[p][g].status = "active" /\ gens'[p][g].next >= gens[p][g].next
      BY <1>1, <1>3, WriterKnows DEF Becomes
    <2> QED BY <1>1, <2>1 DEF Active
  <1>4. ASSUME NEW r \in Rebuilders, rebuild[r].at = "swap", rebuild[r].project = p,
               Becomes(p, rebuild[r].gen, "active", gens[p][rebuild[r].gen].next, gens[p][rebuild[r].gen].rows)
        PROVE  \E f \in Active(p)' : gens'[p][f].next >= gens[p][g].next
    <2>1. rebuild[r].gen \in Generations /\ gens[p][rebuild[r].gen].next = head[p] /\ head[p] \in Nat
      BY <1>4 DEF ProjectionInv, RebuildInv, TypeOK
    <2>2. gens'[p][rebuild[r].gen].status = "active" /\ gens'[p][rebuild[r].gen].next >= gens[p][g].next
      BY <1>1, <1>4, <2>1 DEF Becomes, GenInv
    <2> QED BY <2>1, <2>2 DEF Active
  <1>5. ASSUME NEW r \in Rebuilders, Owns(r, p, g)
        PROVE  FALSE
    BY <1>1, <1>5 DEF ProjectionInv, RebuildInv, Owns
  <1> QED BY <1>1, <1>2, <1>3, <1>4, <1>5 DEF GenMove

LEMMA ReflectedKept ==
    ASSUME ProjectionInv, [Next]_vars, NEW d \in Delivered, Reflected(d)
    PROVE  Reflected(d)'
  <1>1. /\ d[1] \in Projects /\ d[2] \in Nat
        /\ gens \in [Projects -> [Generations -> GenerationRow]] /\ gens' \in [Projects -> [Generations -> GenerationRow]]
    <2>1. TypeOK /\ TypeOK'
      BY TypeStep DEF ProjectionInv
    <2>2. gens \in [Projects -> [Generations -> GenerationRow]] /\ gens' \in [Projects -> [Generations -> GenerationRow]]
      BY <2>1 DEF TypeOK
    <2> QED BY <2>2 DEF Delivered, Positions
  <1>2. PICK g \in Active(d[1]) : d[2] < gens[d[1]][g].next
    BY DEF Reflected
  <1>3. PICK f \in Active(d[1])' : gens'[d[1]][f].next >= gens[d[1]][g].next
    BY <1>1, <1>2, ServeStep
  <1>4. gens[d[1]][g].next \in Nat /\ gens'[d[1]][f].next \in Nat
    BY <1>1, <1>2, <1>3 DEF Active, GenerationRow
  <1>5. d[2] < gens'[d[1]][f].next
    BY <1>1, <1>2, <1>3, <1>4
  <1> QED BY <1>3, <1>5 DEF Reflected

\* A transaction that ends in a settlement leaves the position applied.
LEMMA SettleReflects ==
    ASSUME ProjectionInv, NEW w \in Relays, RelayStep(w), relay'[w].at = "settle", NEW d, relay'[w].job = d
    PROVE  Reflected(d)'
  <1> DEFINE p == relay[w].job[1]
             g == IF relay[w].gen = 0 THEN NextUnused(p) ELSE relay[w].gen
  <1>1. relay \in [Relays -> RelayState] /\ relay[w] \in RelayState /\ TypeOK /\ RelayInv(w)
    BY DEF ProjectionInv, TypeOK
  <1>2. Skip(w) \/ Apply(w)
    <2>1. CASE EndPass(w) \/ AskLock(w) \/ HandlerFails(w) \/ TakeLock(w) \/ Refresh(w) \/ Claim(w)
      <3>1. relay'[w].at \in {"idle", "await", "fail", "judge", "apply", "dispatch"}
        BY <1>1, <2>1 DEF EndPass, AskLock, HandlerFails, TakeLock, Refresh, Claim, Step, RelayState
      <3> QED BY <3>1
    <2>2. CASE LoadRow(w)
      <3> DEFINE rest(e) == [relay[w] EXCEPT !.batch = relay[w].batch \ {e}]
                 load(e) == [relay[w] EXCEPT !.batch = relay[w].batch \ {e}, !.job = e, !.tries = Row(e).attempts,
                               !.at = "ask"]
      <3>1. PICK e \in relay[w].batch :
              relay' = [relay EXCEPT ![w] = IF Row(e).status \in {"succeeded", "dead"} THEN rest(e) ELSE load(e)]
        BY <2>2 DEF LoadRow
      <3>2. rest(e).at = "dispatch" /\ load(e).at = "ask"
        BY <1>1, <2>2 DEF RelayState, LoadRow
      <3> HIDE DEF rest, load
      <3>3. relay'[w] = rest(e) \/ relay'[w] = load(e)
        BY <1>1, <3>1
      <3> QED BY <3>2, <3>3
    <2>3. CASE Settle(w) \/ Fail(w) \/ CrashRelay(w)
      <3> DEFINE next == [IdleRelay EXCEPT !.at = "dispatch", !.batch = relay[w].batch]
      <3>1. relay'[w] = IdleRelay \/ relay'[w] = next
        BY <1>1, <2>3 DEF Settle, Fail, CrashRelay, NextJob
      <3>2. next.at = "dispatch" /\ IdleRelay.at = "idle"
        BY DEF IdleRelay
      <3> HIDE DEF next
      <3> QED BY <3>1, <3>2
    <2> QED BY <2>1, <2>2, <2>3 DEF RelayStep, Deliver
  <1>3. relay[w].at \in Locking /\ relay'[w].job = relay[w].job
    BY <1>1, <1>2 DEF Skip, Apply, CommitGeneration, Step, Locking, RelayState
  <1>4. /\ p \in Projects /\ relay[w].job[2] \in Nat /\ relay[w].job \in Delivered /\ Locked(w) \in GenerationRow
        /\ g \in Generations /\ gens \in [Projects -> [Generations -> GenerationRow]]
    <2>1. IF relay[w].gen = 0 THEN Unused(p) # {} ELSE relay[w].gen \in Active(p)
      BY <1>1, <1>3 DEF RelayInv
    <2>2. p \in Projects
      BY <1>3, LockedTyped
    <2> QED BY <1>1, <1>3, <2>1, <2>2, LockedTyped, UnusedTaken DEF Active, Committed, Positions, TypeOK
  <1>5. gens'[p][g].status = "active" /\ relay[w].job[2] < gens'[p][g].next
    <2>1. ASSUME NEW row \in GenerationRow, NEW out, CommitGeneration(w, row, out), relay[w].job[2] < row.next
          PROVE  gens'[p][g].status = "active" /\ relay[w].job[2] < gens'[p][g].next
      <3>1. gens' = [gens EXCEPT ![p][g] = [row EXCEPT !.status = "active"]]
        BY <2>1 DEF CommitGeneration
      <3> HIDE DEF p, g
      <3>2. gens'[p][g] = [row EXCEPT !.status = "active"]
        BY <1>4, <3>1
      <3>3. gens'[p][g].status = "active" /\ gens'[p][g].next = row.next
        BY <3>2 DEF GenerationRow
      <3> QED BY <2>1, <3>3
    <2>2. CASE Skip(w)
      <3>1. relay[w].job[2] < Locked(w).next /\ CommitGeneration(w, Locked(w), "settle")
        BY <1>1, <1>3, <2>2 DEF Skip, CommitGeneration, Step, RelayState
      <3> QED BY <1>4, <2>1, <3>1
    <2>3. CASE Apply(w)
      <3> DEFINE row == [Locked(w) EXCEPT !.next = relay[w].job[2] + 1, !.cursor = "live", !.rows = relay[w].snap]
      <3>1. relay[w].job[2] + 1 \in 0..MaxEvents /\ relay[w].snap \subseteq Positions \cup {-1}
        BY <1>1, <1>3, <1>4, LockedTyped, GenerationsAssumption DEF RelayState, Positions, GenerationsAssumption
      <3>2. row \in GenerationRow /\ row.next = relay[w].job[2] + 1
        BY <1>4, <3>1 DEF GenerationRow
      <3> HIDE DEF row
      <3>3. CommitGeneration(w, row, "settle")
        BY <2>3 DEF Apply, row
      <3> QED BY <1>4, <2>1, <3>2, <3>3
    <2> QED BY <1>2, <2>2, <2>3
  <1>6. d[1] = p /\ d[2] = relay[w].job[2]
    BY <1>3
  <1> HIDE DEF p, g
  <1> QED BY <1>4, <1>5, <1>6 DEF Reflected, Active

LEMMA SettledStep ==
    ASSUME ProjectionInv, [Next]_vars
    PROVE  SettledInv'
  <1>1. TypeOK /\ SettledInv
    BY DEF ProjectionInv
  <1>2. ASSUME NEW w \in Relays, NEW d \in Delivered, relay'[w].at = "settle", relay'[w].job = d
        PROVE  Reflected(d)'
    <2>1. CASE RelayStep(w)
      BY <1>2, <2>1, SettleReflects
    <2>2. CASE ~RelayStep(w)
      <3>1. relay'[w] = relay[w]
        BY <1>1, <2>2, RelayKept
      <3>2. Reflected(d)
        BY <1>1, <1>2, <3>1 DEF SettledInv
      <3> QED BY <3>2, ReflectedKept
    <2> QED BY <2>1, <2>2
  <1>3. ASSUME NEW d \in Delivered, Row(d)'.status = "succeeded"
        PROVE  Reflected(d)'
    <2>1. PICK p \in Projects, i \in Positions : d = <<p, i>>
      BY DEF Delivered
    <2>2. RowMove(p, i) /\ Row(d) = delivery[p][i] /\ Row(d)' = delivery'[p][i]
      BY <2>1, RowMoves DEF Row
    <2>3. Reflected(d)
      BY <1>1, <1>3, <2>1, <2>2 DEF RowMove, SettledInv, SucceededIsReflected, Reflected
    <2> QED BY <2>3, ReflectedKept
  <1>4. SucceededIsReflected'
    BY <1>3 DEF SucceededIsReflected, Reflected, Active
  <1> QED BY <1>2, <1>4 DEF SettledInv
-----------------------------------------------------------------------------
\* A generation that has reached the head shows everything, or nothing.
LEMMA CaughtUpShows ==
    ASSUME ProjectionInv, NEW p \in Projects, NEW g \in Generations, gens[p][g].next >= head[p]
    PROVE  gens[p][g].rows = {} \/ ours[p] \subseteq gens[p][g].rows
  <1>1. /\ GenInv(p, g) /\ head[p] \in Nat /\ ours[p] \subseteq Positions \cup {-1} /\ gens[p][g].next \in Nat
        /\ \A i \in ours[p] : i < head[p]
    BY DEF ProjectionInv, TypeOK, GenerationRow, StreamInv
  <1>2. \A i \in ours[p] : i = -1 \/ i \in Before(ours[p], gens[p][g].next)
    BY <1>1 DEF Positions, Before
  <1> QED BY <1>1, <1>2 DEF GenInv, WithOlder

LEMMA ReadOwn ==
    ASSUME ProjectionInv, NEW x \in Readers, Read(x)
    PROVE  ReadInv(x)'
  <1> DEFINE p == reader[x].project
             g == reader[x].gen
  <1>1. /\ TypeOK /\ UNCHANGED <<head, ours, gens, relay>> /\ reader \in [Readers -> ReadState] /\ reader[x] \in ReadState
        /\ ReadInv(x) /\ gens \in [Projects -> [Generations -> GenerationRow]]
    BY ReadFrame DEF ProjectionInv, TypeOK
  <1>2. ASSUME reader'[x] = IdleRead
        PROVE  ReadInv(x)'
    <2>1. reader'[x].at = "idle"
      BY <1>2 DEF IdleRead
    <2> QED BY <2>1 DEF ReadInv
  <1>3. CASE EndRead(x)
    BY <1>1, <1>2, <1>3 DEF EndRead
  <1>4. ASSUME NEW q \in Projects, ReadGeneration(x, q)
        PROVE  ReadInv(x)'
    <2> DEFINE f == ActiveOf(q)
    <2>1. f \in Active(q)
      BY <1>4 DEF ReadGeneration, ActiveOf
    <2>2. reader'[x] = [IdleRead EXCEPT !.at = "head", !.project = q, !.gen = f, !.next = gens[q][f].next]
      BY <1>1, <1>4 DEF ReadGeneration
    <2> HIDE DEF f
    <2>3. reader'[x].at = "head" /\ reader'[x].project = q /\ reader'[x].gen = f /\ reader'[x].next = gens[q][f].next
      BY <2>2 DEF IdleRead
    <2>4. f \in Generations /\ gens[q][f].status = "active" /\ gens[q][f].next \in Nat
      BY <1>1, <2>1 DEF Active, GenerationRow
    <2> QED BY <1>1, <2>3, <2>4 DEF ReadInv
  <1>5. CASE ReadHead(x)
    <2>1. /\ p \in Projects /\ g \in Generations /\ reader[x].at = "head"
          /\ gens[p][g].status \in {"active", "retired", "dropped"}
          /\ gens[p][g].status = "dropped" \/ reader[x].next <= gens[p][g].next
      BY <1>1, <1>5 DEF ReadHead, ReadInv
    <2>2. CASE reader'[x] = IdleRead
      BY <1>2, <2>2
    <2>3. CASE CaughtUp(x) /\ reader'[x] = [reader[x] EXCEPT !.at = "rows", !.canon = ours[p]]
      <3>1. reader'[x].at = "rows" /\ reader'[x].canon = ours[p] /\ reader'[x].project = p /\ reader'[x].gen = g
        BY <1>1, <2>3 DEF ReadState
      <3>2. gens[p][g].status = "dropped" \/ gens[p][g].next >= head[p]
        <4>1. reader[x].next \in Int /\ gens[p][g].next \in Int /\ head[p] \in Int
          BY <1>1, <2>1 DEF ReadState, GenerationRow, TypeOK
        <4> QED BY <2>1, <2>3, <4>1 DEF CaughtUp
      <3>3. gens[p][g].rows = {} \/ ours[p] \subseteq gens[p][g].rows
        <4>1. gens[p][g].status = "dropped" => gens[p][g].rows = {}
          BY <2>1 DEF ProjectionInv, GenInv
        <4> QED BY <2>1, <3>2, <4>1, CaughtUpShows
      <3>4. ASSUME NEW w \in Relays, relay[w].at = "apply", relay[w].job[1] = p, relay[w].gen = g
            PROVE  FALSE
        <4>1. g # 0 /\ gens[p][g].next \in Int /\ head[p] \in Int
          <5>1. g # 0
            BY <2>1 DEF Generations
          <5> QED BY <1>1, <2>1, <5>1 DEF GenerationRow, TypeOK
        <4>2. relay[w].job[2] = gens[p][g].next /\ gens[p][g].status = "active" /\ relay[w].job[2] < head[p]
          BY <3>4, <4>1 DEF ProjectionInv, RelayInv, Locking, Working, Active, Locked, Committed
        <4> QED BY <3>2, <4>1, <4>2
      <3> QED BY <1>1, <2>1, <3>1, <3>3, <3>4 DEF ReadInv
    <2> QED BY <1>1, <1>5, <2>2, <2>3 DEF ReadHead
  <1>6. CASE ReadRows(x)
    <2> DEFINE rows == gens[p][g].rows
    <2>1. reader[x].at = "rows" /\ (rows = {} \/ reader[x].canon \subseteq rows)
      BY <1>1, <1>6 DEF ReadRows, ReadInv
    <2>2. CASE rows = {}
      BY <1>1, <1>2, <1>6, <2>2 DEF ReadRows
    <2>3. CASE rows # {}
      <3>1. reader'[x] = [reader[x] EXCEPT !.at = "served", !.rows = rows]
        BY <1>1, <1>6, <2>3 DEF ReadRows
      <3> HIDE DEF rows
      <3>2. reader'[x].at = "served" /\ reader'[x].canon = reader[x].canon /\ reader'[x].rows = rows
        BY <1>1, <3>1 DEF ReadState
      <3> QED BY <2>1, <2>3, <3>2 DEF ReadInv
    <2> QED BY <2>2, <2>3
  <1> QED BY <1>3, <1>4, <1>5, <1>6 DEF Read

\* A relay comes to hold rows to write by refreshing them.
LEMMA SnapTaken ==
    ASSUME ProjectionInv, NEW w \in Relays, RelayStep(w), relay'[w].at = "apply"
    PROVE  /\ relay'[w].job = relay[w].job /\ relay'[w].gen = relay[w].gen /\ relay[w].at \in Locking
           /\ relay'[w].snap = ours[relay[w].job[1]] \/ relay'[w].snap = Locked(w).rows
  <1>1. relay \in [Relays -> RelayState] /\ relay[w] \in RelayState
    BY DEF ProjectionInv, TypeOK
  <1>2. CASE Refresh(w)
    <2> DEFINE snap == IF relay[w].job[2] \in ours[relay[w].job[1]] THEN ours[relay[w].job[1]] ELSE Locked(w).rows
    <2>1. relay[w].at = "judge" /\ relay' = [relay EXCEPT ![w].at = "apply", ![w].snap = snap]
      BY <1>2 DEF Refresh
    <2>2. snap = ours[relay[w].job[1]] \/ snap = Locked(w).rows
      OBVIOUS
    <2> HIDE DEF snap
    <2>3. relay'[w] = [relay[w] EXCEPT !.at = "apply", !.snap = snap]
      BY <1>1, <2>1
    <2>4. relay'[w].snap = snap /\ relay'[w].job = relay[w].job /\ relay'[w].gen = relay[w].gen
      BY <1>1, <2>3 DEF RelayState
    <2> QED BY <2>1, <2>2, <2>4 DEF Locking
  <1>3. CASE EndPass(w) \/ AskLock(w) \/ HandlerFails(w) \/ TakeLock(w) \/ Claim(w) \/ Skip(w) \/ Apply(w)
    <2>1. relay'[w].at \in {"idle", "await", "fail", "judge", "dispatch", "settle", "release"}
      <3>1. CASE EndPass(w) \/ AskLock(w) \/ HandlerFails(w) \/ TakeLock(w)
        BY <1>1, <3>1 DEF EndPass, AskLock, HandlerFails, TakeLock, Step, RelayState
      <3>2. CASE Claim(w) \/ Skip(w) \/ Apply(w)
        BY <1>1, <3>2 DEF Claim, Skip, Apply, CommitGeneration, Step, RelayState
      <3> QED BY <1>3, <3>1, <3>2
    <2> QED BY <2>1
  <1>4. CASE LoadRow(w)
    <2> DEFINE rest(d) == [relay[w] EXCEPT !.batch = relay[w].batch \ {d}]
               load(d) == [relay[w] EXCEPT !.batch = relay[w].batch \ {d}, !.job = d, !.tries = Row(d).attempts,
                             !.at = "ask"]
    <2>1. PICK d \in relay[w].batch :
            relay' = [relay EXCEPT ![w] = IF Row(d).status \in {"succeeded", "dead"} THEN rest(d) ELSE load(d)]
      BY <1>4 DEF LoadRow
    <2>2. rest(d).at = "dispatch" /\ load(d).at = "ask"
      BY <1>1, <1>4 DEF RelayState, LoadRow
    <2> HIDE DEF rest, load
    <2>3. relay'[w] = rest(d) \/ relay'[w] = load(d)
      BY <1>1, <2>1
    <2> QED BY <2>2, <2>3
  <1>5. CASE Settle(w) \/ Fail(w) \/ CrashRelay(w)
    <2> DEFINE next == [IdleRelay EXCEPT !.at = "dispatch", !.batch = relay[w].batch]
    <2>1. relay'[w] = IdleRelay \/ relay'[w] = next
      BY <1>1, <1>5 DEF Settle, Fail, CrashRelay, NextJob
    <2>2. next.at = "dispatch" /\ IdleRelay.at = "idle"
      BY DEF IdleRelay
    <2> HIDE DEF next
    <2> QED BY <2>1, <2>2
  <1> QED BY <1>2, <1>3, <1>4, <1>5 DEF RelayStep, Deliver

LEMMA ReadOther ==
    ASSUME ProjectionInv, [Next]_vars, NEW x \in Readers, reader'[x] = reader[x]
    PROVE  ReadInv(x)'
  <1> DEFINE p == reader[x].project
             g == reader[x].gen
             canon == reader[x].canon
  <1>1. TypeOK /\ TypeOK' /\ ReadInv(x) /\ gens \in [Projects -> [Generations -> GenerationRow]]
        /\ reader[x] \in ReadState
    BY TypeStep DEF ProjectionInv, TypeOK
  <1>2. CASE reader[x].at \notin {"head", "rows"}
    BY <1>1, <1>2 DEF ReadInv
  <1>3. CASE reader[x].at \in {"head", "rows"}
    <2>1. p \in Projects /\ g \in Generations /\ gens[p][g].status \in {"active", "retired", "dropped"} /\ g # 0
      BY <1>1, <1>3 DEF ReadInv, Generations
    <2>2. \/ gens'[p][g] = gens[p][g]
          \/ Becomes(p, g, "active", gens[p][g].next, gens[p][g].rows)
          \/ \E w \in Relays : /\ relay[w].at = "apply" /\ relay[w].job[1] = p /\ relay[w].gen = g
                               /\ gens[p][g].next = relay[w].job[2] /\ relay[w].job[2] \in Positions
                               /\ Becomes(p, g, "active", relay[w].job[2] + 1, relay[w].snap)
          \/ Becomes(p, g, "retired", gens[p][g].next, gens[p][g].rows)
          \/ Becomes(p, g, "dropped", 0, {})
      <3>1. ASSUME NEW r \in Rebuilders, Owns(r, p, g)
            PROVE  FALSE
        BY <2>1, <3>1 DEF ProjectionInv, RebuildInv, Owns
      <3>2. ASSUME NEW w \in Relays, Writes(w, p, g)
            PROVE  /\ relay[w].gen = g /\ relay[w].job[1] = p
                   /\ relay[w].at = "apply" => relay[w].job[2] = gens[p][g].next /\ relay[w].job[2] \in Positions
        BY <2>1, <3>2, WriterKnows DEF Writes, Unused
      <3>3. GenMove(p, g)
        BY <2>1, GenMoves
      <3> QED BY <2>1, <3>1, <3>2, <3>3 DEF GenMove
    <2>3. gens'[p][g].status \in {"active", "retired", "dropped"}
      BY <2>1, <2>2 DEF Becomes
    <2>4. CASE reader[x].at = "head"
      <3>1. gens[p][g].next \in Int /\ reader[x].next \in Int
        BY <1>1, <2>1 DEF GenerationRow, ReadState
      <3>2. gens[p][g].status = "dropped" => gens'[p][g] = gens[p][g] \/ gens'[p][g].status = "dropped"
        <4>1. ASSUME gens[p][g].status = "dropped"
              PROVE  gens'[p][g] = gens[p][g]
          <5>1. ASSUME NEW r \in Rebuilders, Owns(r, p, g)
                PROVE  FALSE
            BY <4>1, <5>1 DEF ProjectionInv, RebuildInv, Owns
          <5>2. ASSUME NEW w \in Relays, Writes(w, p, g)
                PROVE  FALSE
            BY <2>1, <4>1, <5>2, WriterKnows
          <5>3. GenMove(p, g)
            BY <2>1, GenMoves
          <5> QED BY <4>1, <5>1, <5>2, <5>3 DEF GenMove
        <4> QED BY <4>1
      <3>3. gens[p][g].status = "dropped" \/ reader[x].next <= gens[p][g].next
        BY <1>1, <2>4 DEF ReadInv
      <3>4. gens'[p][g].status = "dropped" \/ reader[x].next <= gens'[p][g].next
        <4>1. \/ gens'[p][g] = gens[p][g]
              \/ gens'[p][g].next = gens[p][g].next
              \/ gens'[p][g].next = gens[p][g].next + 1
              \/ gens'[p][g].status = "dropped"
          BY <2>2 DEF Becomes
        <4> HIDE DEF p, g
        <4> QED BY <3>1, <3>2, <3>3, <4>1
      <3> QED BY <1>1, <2>1, <2>3, <2>4, <3>4 DEF ReadInv
    <2>5. CASE reader[x].at = "rows"
      <3>1. canon \subseteq ours[p] /\ (gens[p][g].rows = {} \/ canon \subseteq gens[p][g].rows)
        BY <1>1, <2>5 DEF ReadInv
      <3>2. canon \subseteq ours'[p]
        BY <1>1, <2>1, <3>1, BeforeKept
      <3>3. \A w \in Relays : relay[w].at = "apply" /\ relay[w].job[1] = p /\ relay[w].gen = g
              => relay[w].snap = {} \/ canon \subseteq relay[w].snap
        BY <1>1, <2>5 DEF ReadInv
      <3>4. gens'[p][g].rows = {} \/ canon \subseteq gens'[p][g].rows
        BY <2>2, <3>1, <3>3 DEF Becomes
      <3>5. ASSUME NEW w \in Relays, relay'[w].at = "apply", relay'[w].job[1] = p, relay'[w].gen = g
            PROVE  relay'[w].snap = {} \/ canon \subseteq relay'[w].snap
        <4>1. CASE RelayStep(w)
          <5>1. /\ relay[w].job[1] = p /\ relay[w].gen = g
                /\ relay'[w].snap = ours[p] \/ relay'[w].snap = Locked(w).rows
            BY <3>5, <4>1, SnapTaken
          <5>2. Locked(w).rows = gens[p][g].rows
            BY <2>1, <5>1 DEF Locked
          <5> QED BY <3>1, <5>1, <5>2
        <4>2. CASE ~RelayStep(w)
          BY <1>1, <3>3, <3>5, <4>2, RelayKept
        <4> QED BY <4>1, <4>2
      <3> QED BY <1>1, <2>1, <2>3, <2>5, <3>2, <3>4, <3>5 DEF ReadInv
    <2> QED BY <1>3, <2>4, <2>5
  <1> QED BY <1>2, <1>3

LEMMA ReadStep ==
    ASSUME ProjectionInv, [Next]_vars, NEW x \in Readers
    PROVE  ReadInv(x)'
  <1>1. CASE Read(x)
    BY <1>1, ReadOwn
  <1>2. CASE ~Read(x)
    <2>1. TypeOK
      BY DEF ProjectionInv
    <2>2. reader'[x] = reader[x]
      BY <1>2, <2>1, NextSplit, RelayFrame, RowFrame, BuildFrame, ReadFrame, StreamFrame DEF vars
    <2> QED BY <2>2, ReadOther
  <1> QED BY <1>1, <1>2
-----------------------------------------------------------------------------
LEMMA ProjectionStart ==
    ASSUME Init
    PROVE  ProjectionInv
  <1> USE DEF Init
  <1>1. TypeOK
    <2>1. NoGeneration \in GenerationRow /\ NoRow \in DeliveryRow
      BY GenerationsAssumption DEF NoGeneration, GenerationRow, NoRow, DeliveryRow, GenerationsAssumption
    <2>2. IdleRelay \in RelayState /\ IdleRebuild \in RebuildState /\ IdleRead \in ReadState
      BY GenerationsAssumption DEF IdleRelay, RelayState, IdleRebuild, RebuildState, IdleRead, ReadState,
         GenerationsAssumption
    <2>3. head \in [Projects -> 0..MaxEvents] /\ ours \in [Projects -> SUBSET (Positions \cup {-1})]
      BY GenerationsAssumption DEF GenerationsAssumption
    <2>4. bound \in [faults : 0..MaxFaults, crashes : 0..MaxCrashes, retries : 0..MaxRetries]
      BY GenerationsAssumption DEF GenerationsAssumption
    <2> QED BY <2>1, <2>2, <2>3, <2>4 DEF TypeOK
  <1>2. \A d \in Delivered : Row(d) = NoRow
    BY DEF Row, Delivered
  <1>3. StreamInv
    BY <1>2 DEF StreamInv, NoRow
  <1>4. ASSUME NEW p \in Projects, NEW g \in Generations
        PROVE  GenInv(p, g)
    BY <1>4 DEF GenInv, NoGeneration, Before, WithOlder
  <1>5. ASSUME NEW w \in Relays
        PROVE  RelayInv(w)
    BY <1>5 DEF RelayInv, IdleRelay, Working, Locking
  <1>6. (\A r \in Rebuilders : RebuildInv(r)) /\ OwnBuild
    BY DEF RebuildInv, OwnBuild, IdleRebuild
  <1>7. SettledInv
    BY <1>2 DEF SettledInv, SucceededIsReflected, IdleRelay, NoRow
  <1>8. \A x \in Readers : ReadInv(x)
    BY DEF ReadInv, IdleRead
  <1> QED BY <1>1, <1>3, <1>4, <1>5, <1>6, <1>7, <1>8 DEF ProjectionInv

LEMMA ProjectionStep ==
    ASSUME ProjectionInv, [Next]_vars
    PROVE  ProjectionInv'
  <1>1. TypeOK' /\ StreamInv' /\ OwnBuild' /\ SettledInv'
    BY TypeStep, StreamStep, OwnBuildStep, SettledStep
  <1>2. \A p \in Projects, g \in Generations : GenInv(p, g)'
    BY GenStep
  <1>3. \A w \in Relays : RelayInv(w)'
    BY RelayOwn, RelayOther
  <1>4. \A r \in Rebuilders : RebuildInv(r)'
    BY RebuildOwn, RebuildOther
  <1>5. \A x \in Readers : ReadInv(x)'
    BY ReadStep
  <1> QED BY <1>1, <1>2, <1>3, <1>4, <1>5 DEF ProjectionInv

\* Who may write a generation, and what it then knows of the stream, whatever
\* relays, rebuilds, crashes, retries and clean-ups interleave.
THEOREM ProjectionInvariant == Spec => []ProjectionInv
  <1>1. Init => ProjectionInv
    BY ProjectionStart
  <1>2. ProjectionInv /\ [Next]_vars => ProjectionInv'
    BY ProjectionStep
  <1> QED BY <1>1, <1>2, PTL DEF Spec

\* A generation shows every change up to its checkpoint whoever applied it, and a
\* delivery that is settled is in the generation that serves, also after a swap.
THEOREM NothingIsLost == Spec => []NoEventIsLost
  <1>1. ProjectionInv => NoEventIsLost
    <2>1. ASSUME ProjectionInv
          PROVE  GenerationComplete
      BY <2>1 DEF ProjectionInv, GenInv, Before, GenerationComplete
    <2> QED BY <2>1 DEF NoEventIsLost, ProjectionInv, SettledInv
  <1> QED BY <1>1, ProjectionInvariant, PTL

\* What a module read serves from a generation shows everything that was canonical
\* when it asked.
THEOREM ServedReadsAreCurrent == Spec => []ServedIsCurrent
  <1>1. ProjectionInv => ServedIsCurrent
    BY DEF ProjectionInv, ReadInv, ServedIsCurrent
  <1> QED BY <1>1, ProjectionInvariant, PTL

\* Neither an apply nor a swap hands readers an older generation.
THEOREM ServingNeverGoesBack == Spec => ServingAdvances
  <1> DEFINE Advance == \A p \in Projects : \A g \in Active(p) :
                          \E f \in Active(p)' : gens'[p][f].next >= gens[p][g].next
  <1>1. ProjectionInv /\ [Next]_vars => [Advance]_vars
    BY ServeStep
  <1> QED BY <1>1, ProjectionInvariant, PTL DEF Spec, ServingAdvances

===============================================================================

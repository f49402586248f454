---------------------------- MODULE SumTheorems ----------------------------
(* Sums over finite sets, as the models take them with SumFunction of the  *)
(* community modules.  SumFunction chooses a recursive function over the   *)
(* subsets of its domain: it exists and is what it says for every finite   *)
(* domain, which a smallest counterexample would have to contradict.       *)
EXTENDS Integers, FiniteSets, Functions, FiniteSetTheorems, WellFoundedInduction, TLAPS

LEMMA Least ==
    ASSUME NEW S, S \subseteq Nat, S # {}
    PROVE  \E m \in S : \A n \in S : m <= n
  <1> DEFINE R == {ss \in Nat \X Nat : ss[1] < ss[2]}
  <1>1. IsWellFoundedOn(R, Nat)
    BY NatLessThanWellFounded DEF OpToRel
  <1>2. PICK m \in S : \A n \in S : ~(<<n, m>> \in R)
    <2> HIDE DEF R
    <2> QED BY <1>1, WFMin
  <1>3. \A n \in S : ~(n < m)
    BY <1>2
  <1> QED BY <1>2, <1>3

PickOf(s) == CHOOSE x \in s : TRUE

\* g is the sum of f over every one of the sets in P.
SumsOn(g, f, P) ==
    g = [s \in P |-> IF s = {} THEN 0 ELSE f[PickOf(s)] + g[s \ {PickOf(s)}]]

LEMMA Picked ==
    ASSUME NEW s, s # {}
    PROVE  PickOf(s) \in s
  BY DEF PickOf

\* One element fewer.
LEMMA Smaller ==
    ASSUME NEW s, IsFiniteSet(s), NEW x \in s
    PROVE  /\ IsFiniteSet(s \ {x}) /\ Cardinality(s) \in Nat
           /\ Cardinality(s) \in Nat \ {0} /\ Cardinality(s \ {x}) = Cardinality(s) - 1
  <1>1. Cardinality(s) \in Nat /\ Cardinality(s) # 0
    BY FS_CardinalityType, FS_EmptySet
  <1> QED BY <1>1, FS_RemoveElement

\* A sum of so many elements is defined once the smaller ones are.
LEMMA SumsExist ==
    ASSUME NEW f, NEW S, IsFiniteSet(S)
    PROVE  \E g : SumsOn(g, f, SUBSET S)
  <1> DEFINE Upto(n) == {s \in SUBSET S : Cardinality(s) <= n}
             Bad == {n \in Nat : ~\E g : SumsOn(g, f, Upto(n))}
  <1>0. \A s \in SUBSET S : IsFiniteSet(s) /\ Cardinality(s) \in Nat
    BY FS_Subset, FS_CardinalityType
  <1>1. ASSUME NEW n \in Nat, NEW g, SumsOn(g, f, Upto(n))
        PROVE  \E h : SumsOn(h, f, Upto(n + 1))
    <2> DEFINE h == [s \in Upto(n + 1) |-> IF s = {} THEN 0 ELSE f[PickOf(s)] + g[s \ {PickOf(s)}]]
    <2>1. \A s \in Upto(n) : h[s] = g[s]
      <3>1. Upto(n) \subseteq Upto(n + 1)
        BY <1>0
      <3> QED BY <1>1, <3>1 DEF SumsOn
    <2>2. ASSUME NEW s \in Upto(n + 1), s # {} PROVE h[s \ {PickOf(s)}] = g[s \ {PickOf(s)}]
      <3>1. s \ {PickOf(s)} \in Upto(n)
        <4>1. PickOf(s) \in s /\ s \subseteq S /\ Cardinality(s) <= n + 1 /\ IsFiniteSet(s)
          BY <1>0, <2>2, Picked
        <4>2. Cardinality(s \ {PickOf(s)}) = Cardinality(s) - 1 /\ Cardinality(s) \in Nat
          BY <4>1, Smaller
        <4> QED BY <4>1, <4>2
      <3> QED BY <2>1, <3>1
    <2>3. h = [s \in Upto(n + 1) |-> IF s = {} THEN 0 ELSE f[PickOf(s)] + h[s \ {PickOf(s)}]]
      <3> HIDE DEF Upto
      <3> QED BY <2>2
    <2> QED BY <2>3 DEF SumsOn
  <1>2. \E g : SumsOn(g, f, Upto(0))
    <2> DEFINE g == [s \in Upto(0) |-> 0]
    <2>1. \A s \in Upto(0) : s = {}
      BY <1>0, FS_EmptySet
    <2>2. g = [s \in Upto(0) |-> IF s = {} THEN 0 ELSE f[PickOf(s)] + g[s \ {PickOf(s)}]]
      <3> HIDE DEF Upto
      <3> QED BY <2>1
    <2> QED BY <2>2 DEF SumsOn
  <1>3. Bad = {}
    <2> SUFFICES ASSUME Bad # {} PROVE FALSE
      OBVIOUS
    <2>1. PICK m \in Bad : \A n \in Bad : m <= n
      <3> HIDE DEF Bad
      <3>1. Bad \subseteq Nat
        BY DEF Bad
      <3> QED BY <3>1, Least
    <2>2. CASE m = 0
      BY <1>2, <2>1, <2>2
    <2>3. CASE m # 0
      <3>0. m \in Nat
        BY <2>1
      <3> HIDE DEF Upto
      <3>1. m - 1 \in Nat /\ m - 1 \notin Bad /\ (m - 1) + 1 = m
        <4> HIDE DEF Bad
        <4> QED BY <2>1, <2>3, <3>0
      <3>2. PICK g : SumsOn(g, f, Upto(m - 1))
        BY <3>1
      <3>3. \E h : SumsOn(h, f, Upto((m - 1) + 1))
        BY <1>1, <3>1, <3>2
      <3> QED BY <2>1, <3>1, <3>3
    <2> QED BY <2>2, <2>3
  <1>4. Upto(Cardinality(S)) = SUBSET S
    BY FS_Subset, <1>0
  <1>5. Cardinality(S) \in Nat
    BY FS_CardinalityType
  <1> QED BY <1>3, <1>4, <1>5

\* What SumFunction is, by the definitions of the folds it is made of.
LEMMA SumIs ==
    ASSUME NEW f, IsFiniteSet(DOMAIN f)
    PROVE  \E g : SumsOn(g, f, SUBSET DOMAIN f) /\ SumFunction(f) = g[DOMAIN f]
  <1> DEFINE g == CHOOSE g : SumsOn(g, f, SUBSET DOMAIN f)
  <1>1. SumFunction(f) = g[DOMAIN f]
    BY DEF SumFunction, SumFunctionOnSet, FoldFunctionOnSet, MapThenFoldSet, SumsOn, PickOf
  <1>2. SumsOn(g, f, SUBSET DOMAIN f)
    BY SumsExist
  <1> QED BY <1>1, <1>2

\* One step of the sum over a part of the domain.
LEMMA SumStep ==
    ASSUME NEW f, NEW S, NEW g, SumsOn(g, f, SUBSET S)
    PROVE  \A s \in SUBSET S : g[s] = IF s = {} THEN 0 ELSE f[PickOf(s)] + g[s \ {PickOf(s)}]
  BY DEF SumsOn

LEMMA SumOfNone ==
    ASSUME NEW f, NEW S, NEW g, SumsOn(g, f, SUBSET S)
    PROVE  g[{}] = 0
  BY SumStep

\* It is a number, and any element may be counted first.
Countable(g, f, s) == g[s] \in Int /\ \A x \in s : g[s] = f[x] + g[s \ {x}]

LEMMA AnyFirst ==
    ASSUME NEW S, IsFiniteSet(S), NEW f \in [S -> Int], NEW g, SumsOn(g, f, SUBSET S)
    PROVE  \A s \in SUBSET S : Countable(g, f, s)
  <1> DEFINE Bad == {n \in Nat : \E s \in SUBSET S : Cardinality(s) = n /\ ~Countable(g, f, s)}
  <1>0. \A s \in SUBSET S : IsFiniteSet(s) /\ Cardinality(s) \in Nat
    BY FS_Subset, FS_CardinalityType
  <1>p. \A s \in SUBSET S : g[s] = IF s = {} THEN 0 ELSE f[PickOf(s)] + g[s \ {PickOf(s)}]
    BY DEF SumsOn
  <1>1. SUFFICES Bad = {}
    BY <1>0
  <1> SUFFICES ASSUME Bad # {} PROVE FALSE
    OBVIOUS
  <1>2. PICK m \in Bad : \A n \in Bad : m <= n
    <2>1. Bad \subseteq Nat
      OBVIOUS
    <2> HIDE DEF Bad
    <2> QED BY <2>1, Least
  <1>3. PICK s \in SUBSET S : Cardinality(s) = m /\ ~Countable(g, f, s)
    BY <1>2
  <1>4. m \in Nat /\ \A t \in SUBSET S : Cardinality(t) < m => Countable(g, f, t)
    BY <1>0, <1>2
  <1> HIDE DEF Bad
  <1>5. ASSUME NEW t \in SUBSET S, NEW x \in t
        PROVE  t \ {x} \in SUBSET S /\ Cardinality(t \ {x}) = Cardinality(t) - 1
    BY <1>0, <1>5, Smaller
  <1>6. s # {}
    <2> SUFFICES ASSUME s = {} PROVE FALSE
      OBVIOUS
    <2>1. g[s] = 0
      BY <1>p
    <2> QED BY <1>3, <2>1 DEF Countable
  <1>7. PICK c \in s : g[s] = f[c] + g[s \ {c}]
    <2>1. PickOf(s) \in s
      BY <1>6, Picked
    <2>2. g[s] = f[PickOf(s)] + g[s \ {PickOf(s)}]
      BY <1>6, <1>p
    <2> QED BY <2>1, <2>2
  <1>8. \A x \in s : Countable(g, f, s \ {x})
    <2> SUFFICES ASSUME NEW x \in s PROVE Countable(g, f, s \ {x})
      OBVIOUS
    <2>1. s \ {x} \in SUBSET S /\ Cardinality(s \ {x}) = m - 1
      BY <1>3, <1>5
    <2> QED BY <1>4, <2>1
  <1>9. f[c] \in Int /\ g[s \ {c}] \in Int /\ g[s] \in Int
    <2>1. g[s \ {c}] \in Int
      BY <1>8 DEF Countable
    <2>2. f[c] \in Int
      OBVIOUS
    <2> QED BY <1>7, <2>1, <2>2
  <1>10. ASSUME NEW x \in s, x # c PROVE g[s] = f[x] + g[s \ {x}]
    <2>1. g[s \ {c}] = f[x] + g[(s \ {c}) \ {x}]
      BY <1>8, <1>10 DEF Countable
    <2>2. g[s \ {x}] = f[c] + g[(s \ {x}) \ {c}]
      BY <1>8, <1>10 DEF Countable
    <2>3. (s \ {c}) \ {x} = (s \ {x}) \ {c}
      OBVIOUS
    <2>4. g[(s \ {x}) \ {c}] \in Int
      <3>1. s \ {x} \in SUBSET S /\ Cardinality(s \ {x}) = m - 1 /\ c \in s \ {x}
        BY <1>3, <1>5, <1>10
      <3>2. (s \ {x}) \ {c} \in SUBSET S /\ Cardinality((s \ {x}) \ {c}) = (m - 1) - 1
        BY <1>5, <3>1
      <3>3. Countable(g, f, (s \ {x}) \ {c})
        BY <1>4, <3>2
      <3> QED BY <3>3 DEF Countable
    <2>5. f[x] \in Int
      OBVIOUS
    <2> DEFINE rest == g[(s \ {x}) \ {c}]
    <2>6. f[c] + (f[x] + rest) = f[x] + (f[c] + rest)
      <3> HIDE DEF rest
      <3>1. rest \in Int
        BY <2>4 DEF rest
      <3> QED BY <1>9, <2>5, <3>1
    <2>7. g[s] = f[c] + (f[x] + rest)
      BY <1>7, <2>1, <2>3
    <2> QED BY <2>2, <2>6, <2>7
  <1> QED BY <1>3, <1>7, <1>9, <1>10 DEF Countable

\* A part, with no smaller values, has no smaller a sum.
Under(f, k, s, t) == s \subseteq t /\ \A x \in s : f[x] <= k[x]

LEMMA PartsSum ==
    ASSUME NEW S, IsFiniteSet(S), NEW f \in [S -> Nat], NEW g, SumsOn(g, f, SUBSET S),
           NEW T, IsFiniteSet(T), NEW k \in [T -> Nat], NEW h, SumsOn(h, k, SUBSET T)
    PROVE  \A t \in SUBSET T, s \in SUBSET S : Under(f, k, s, t) => g[s] <= h[t]
  <1> DEFINE Bad == {n \in Nat : \E t \in SUBSET T, s \in SUBSET S :
                        Cardinality(t) = n /\ Under(f, k, s, t) /\ ~(g[s] <= h[t])}
  <1>0. \A t \in SUBSET T : IsFiniteSet(t) /\ Cardinality(t) \in Nat
    BY FS_Subset, FS_CardinalityType
  <1>1. SUFFICES Bad = {}
    BY <1>0
  <1> SUFFICES ASSUME Bad # {} PROVE FALSE
    OBVIOUS
  <1>2. PICK m \in Bad : \A n \in Bad : m <= n
    <2>1. Bad \subseteq Nat
      OBVIOUS
    <2> HIDE DEF Bad
    <2> QED BY <2>1, Least
  <1>3. PICK t \in SUBSET T, s \in SUBSET S : Cardinality(t) = m /\ Under(f, k, s, t) /\ ~(g[s] <= h[t])
    BY <1>2
  <1>4. m \in Nat /\ \A u \in SUBSET T, v \in SUBSET S : Cardinality(u) < m /\ Under(f, k, v, u) => g[v] <= h[u]
    BY <1>0, <1>2
  <1> HIDE DEF Bad
  <1>5. (\A v \in SUBSET S : Countable(g, f, v)) /\ (\A v \in SUBSET T : Countable(h, k, v))
    <2>0. f \in [S -> Int] /\ k \in [T -> Int]
      OBVIOUS
    <2>1. \A v \in SUBSET S : Countable(g, f, v)
      BY <2>0, AnyFirst
    <2>2. \A v \in SUBSET T : Countable(h, k, v)
      BY <2>0, AnyFirst
    <2> QED BY <2>1, <2>2
  <1>6. CASE t = {}
    <2>1. s = {}
      BY <1>3, <1>6 DEF Under
    <2>2. g[s] = 0
      BY <2>1, SumOfNone
    <2>3. h[t] = 0
      BY <1>6, SumOfNone
    <2> QED BY <1>3, <2>2, <2>3
  <1>7. CASE t # {}
    <2>1. PICK x : x \in t
      BY <1>7
    <2>2. t \ {x} \in SUBSET T /\ Cardinality(t \ {x}) < m
      <3>1. Cardinality(t \ {x}) = m - 1
        BY <1>0, <1>3, <2>1, Smaller
      <3> QED BY <1>4, <3>1
    <2>3. h[t] = k[x] + h[t \ {x}] /\ h[t \ {x}] \in Int /\ k[x] \in Nat
      BY <1>5, <2>1, <2>2 DEF Countable
    <2>4. CASE x \in s
      <3>1. s \ {x} \in SUBSET S /\ Under(f, k, s \ {x}, t \ {x}) /\ f[x] <= k[x] /\ f[x] \in Nat
        BY <1>3, <2>4 DEF Under
      <3>2. g[s] = f[x] + g[s \ {x}] /\ g[s \ {x}] \in Int
        BY <1>5, <2>4, <3>1 DEF Countable
      <3>3. g[s \ {x}] <= h[t \ {x}]
        BY <1>4, <2>2, <3>1
      <3> QED BY <1>3, <2>3, <3>1, <3>2, <3>3
    <2>5. CASE x \notin s
      <3>1. Under(f, k, s, t \ {x})
        BY <1>3, <2>5 DEF Under
      <3>2. g[s] <= h[t \ {x}]
        BY <1>4, <2>2, <3>1
      <3>3. g[s] \in Int
        BY <1>5 DEF Countable
      <3> QED BY <1>3, <2>3, <3>2, <3>3
    <2> QED BY <2>4, <2>5
  <1> QED BY <1>6, <1>7

\* Where two functions agree, so do their sums.
Agree(f, k, s) == \A x \in s : f[x] = k[x]
Same(g, h, s) == g[s] = h[s]

LEMMA PartsAgree ==
    ASSUME NEW S, IsFiniteSet(S), NEW f \in [S -> Int], NEW g, SumsOn(g, f, SUBSET S),
           NEW T, IsFiniteSet(T), NEW k \in [T -> Int], NEW h, SumsOn(h, k, SUBSET T)
    PROVE  \A s \in SUBSET S : s \in SUBSET T /\ Agree(f, k, s) => Same(g, h, s)
  <1> DEFINE Bad == {n \in Nat : \E s \in SUBSET S : Cardinality(s) = n /\ s \in SUBSET T /\ Agree(f, k, s) /\ ~Same(g, h, s)}
  <1>0. \A s \in SUBSET S : IsFiniteSet(s) /\ Cardinality(s) \in Nat
    BY FS_Subset, FS_CardinalityType
  <1>1. SUFFICES Bad = {}
    BY <1>0
  <1> SUFFICES ASSUME Bad # {} PROVE FALSE
    OBVIOUS
  <1>2. PICK m \in Bad : \A n \in Bad : m <= n
    <2>1. Bad \subseteq Nat
      OBVIOUS
    <2> HIDE DEF Bad
    <2> QED BY <2>1, Least
  <1>3. PICK s \in SUBSET S : Cardinality(s) = m /\ s \in SUBSET T /\ Agree(f, k, s) /\ ~Same(g, h, s)
    BY <1>2
  <1>4. m \in Nat /\ \A t \in SUBSET S : Cardinality(t) < m /\ t \in SUBSET T /\ Agree(f, k, t) => Same(g, h, t)
    BY <1>0, <1>2
  <1> HIDE DEF Bad
  <1>5. s # {}
    <2>1. g[{}] = 0 /\ h[{}] = 0
      BY DEF SumsOn
    <2> QED BY <1>3, <2>1 DEF Same
  <1>6. PickOf(s) \in s
    BY <1>5, Picked
  <1>7. s \ {PickOf(s)} \in SUBSET S /\ Cardinality(s \ {PickOf(s)}) < m
    <2>1. Cardinality(s \ {PickOf(s)}) = m - 1
      BY <1>0, <1>3, <1>6, Smaller
    <2> QED BY <1>4, <2>1
  <1>8. g[s \ {PickOf(s)}] = h[s \ {PickOf(s)}]
    BY <1>3, <1>4, <1>7 DEF Agree, Same
  <1>9. g[s] = f[PickOf(s)] + g[s \ {PickOf(s)}]
    <2>1. \A t \in SUBSET S : g[t] = IF t = {} THEN 0 ELSE f[PickOf(t)] + g[t \ {PickOf(t)}]
      BY DEF SumsOn
    <2> QED BY <1>5, <2>1
  <1>10. h[s] = k[PickOf(s)] + h[s \ {PickOf(s)}]
    <2>1. \A t \in SUBSET T : h[t] = IF t = {} THEN 0 ELSE k[PickOf(t)] + h[t \ {PickOf(t)}]
      BY DEF SumsOn
    <2> QED BY <1>3, <1>5, <2>1
  <1>11. f[PickOf(s)] = k[PickOf(s)]
    BY <1>3, <1>6 DEF Agree
  <1> QED BY <1>3, <1>8, <1>9, <1>10, <1>11 DEF Same

LEMMA SumInInt ==
    ASSUME NEW S, IsFiniteSet(S), NEW f \in [S -> Int]
    PROVE  SumFunction(f) \in Int
  <1>1. PICK g : SumsOn(g, f, SUBSET S) /\ SumFunction(f) = g[S]
    BY SumIs
  <1> QED BY <1>1, AnyFirst DEF Countable

LEMMA SumInNat ==
    ASSUME NEW S, IsFiniteSet(S), NEW f \in [S -> Nat]
    PROVE  SumFunction(f) \in Nat
  <1>1. PICK g : SumsOn(g, f, SUBSET S) /\ SumFunction(f) = g[S]
    BY SumIs
  <1>2. g[S] \in Int
    <2>1. f \in [S -> Int]
      OBVIOUS
    <2> QED BY <1>1, <2>1, AnyFirst DEF Countable
  <1>3. g[{}] <= g[S]
    <2>1. {} \in SUBSET S /\ S \in SUBSET S /\ Under(f, f, {}, S)
      BY DEF Under
    <2>2. \A t \in SUBSET S, s \in SUBSET S : Under(f, f, s, t) => g[s] <= g[t]
      BY <1>1, PartsSum
    <2> QED BY <2>1, <2>2
  <1>4. g[{}] = 0
    BY <1>1, SumOfNone
  <1> QED BY <1>1, <1>2, <1>3, <1>4

LEMMA SumNone ==
    ASSUME NEW f, DOMAIN f = {}
    PROVE  SumFunction(f) = 0
  <1>1. PICK g : SumsOn(g, f, SUBSET {}) /\ SumFunction(f) = g[{}]
    BY SumIs, FS_EmptySet
  <1> QED BY <1>1, SumStep

LEMMA SumGrows ==
    ASSUME NEW S, IsFiniteSet(S), NEW f \in [S -> Nat], NEW T, IsFiniteSet(T), NEW k \in [T -> Nat],
           S \subseteq T, \A x \in S : f[x] <= k[x]
    PROVE  SumFunction(f) <= SumFunction(k)
  <1>1. PICK g : SumsOn(g, f, SUBSET S) /\ SumFunction(f) = g[S]
    BY SumIs
  <1>2. PICK h : SumsOn(h, k, SUBSET T) /\ SumFunction(k) = h[T]
    BY SumIs
  <1>3. Under(f, k, S, T)
    BY DEF Under
  <1>4. \A t \in SUBSET T, s \in SUBSET S : Under(f, k, s, t) => g[s] <= h[t]
    BY <1>1, <1>2, PartsSum
  <1> QED BY <1>1, <1>2, <1>3, <1>4

\* The sum without one element of the domain.
LEMMA SumSplit ==
    ASSUME NEW S, IsFiniteSet(S), NEW f \in [S -> Int], NEW x \in S, NEW r \in [S \ {x} -> Int],
           \A y \in S \ {x} : r[y] = f[y]
    PROVE  SumFunction(f) = f[x] + SumFunction(r)
  <1>1. PICK g : SumsOn(g, f, SUBSET S) /\ SumFunction(f) = g[S]
    BY SumIs
  <1>2. IsFiniteSet(S \ {x})
    BY FS_Subset
  <1>3. PICK h : SumsOn(h, r, SUBSET (S \ {x})) /\ SumFunction(r) = h[S \ {x}]
    BY <1>2, SumIs
  <1>4. g[S] = f[x] + g[S \ {x}]
    <2>1. \A s \in SUBSET S : Countable(g, f, s)
      BY <1>1, AnyFirst
    <2> QED BY <2>1 DEF Countable
  <1>5. h[S \ {x}] = g[S \ {x}]
    <2>1. Agree(r, f, S \ {x}) /\ S \ {x} \in SUBSET S /\ S \ {x} \in SUBSET (S \ {x})
      BY DEF Agree
    <2>2. \A s \in SUBSET (S \ {x}) : s \in SUBSET S /\ Agree(r, f, s) => Same(h, g, s)
      BY <1>1, <1>2, <1>3, PartsAgree
    <2> QED BY <2>1, <2>2 DEF Same
  <1> QED BY <1>1, <1>3, <1>4, <1>5

\* One element's share, and the sum over one element.
LEMMA SumOfOne ==
    ASSUME NEW S, IsFiniteSet(S), NEW f \in [S -> Nat], NEW x \in S
    PROVE  /\ f[x] \in Nat /\ f[x] <= SumFunction(f)
           /\ S = {x} => SumFunction(f) = f[x]
  <1> DEFINE r == [y \in S \ {x} |-> f[y]]
  <1>1. f \in [S -> Int] /\ r \in [S \ {x} -> Int] /\ r \in [S \ {x} -> Nat] /\ \A y \in S \ {x} : r[y] = f[y]
    OBVIOUS
  <1>2. IsFiniteSet(S \ {x})
    BY FS_Subset
  <1>3. S = {x} => DOMAIN r = {}
    OBVIOUS
  <1> HIDE DEF r
  <1>4. SumFunction(f) = f[x] + SumFunction(r)
    BY <1>1, SumSplit
  <1>5. SumFunction(r) \in Nat
    BY <1>1, <1>2, SumInNat
  <1>6. S = {x} => SumFunction(r) = 0
    BY <1>3, SumNone
  <1>7. f[x] \in Nat
    OBVIOUS
  <1> QED BY <1>4, <1>5, <1>6, <1>7

\* A sum of nothing but zeros.
LEMMA SumZeros ==
    ASSUME NEW S, IsFiniteSet(S), NEW f \in [S -> Nat], \A x \in S : f[x] = 0
    PROVE  SumFunction(f) = 0
  <1>1. PICK g : SumsOn(g, f, SUBSET S) /\ SumFunction(f) = g[S]
    BY SumIs
  <1> DEFINE Bad == {n \in Nat : \E s \in SUBSET S : Cardinality(s) = n /\ g[s] # 0}
  <1>3. Bad = {}
    <2> SUFFICES ASSUME Bad # {} PROVE FALSE
      OBVIOUS
    <2>1. PICK m \in Bad : \A n \in Bad : m <= n
      <3>1. Bad \subseteq Nat
        OBVIOUS
      <3> HIDE DEF Bad
      <3>q. QED
        BY <3>1, Least
    <2>2. PICK s \in SUBSET S : Cardinality(s) = m /\ g[s] # 0
      BY <2>1
    <2>3. m \in Nat /\ IsFiniteSet(s) /\ s # {}
      <3>1. m \in Nat
        BY <2>1
      <3>2. IsFiniteSet(s)
        BY FS_Subset
      <3>3. s # {}
        BY <1>1, <2>2, SumOfNone
      <3>q. QED
        BY <3>1, <3>2, <3>3
    <2>4. PICK x : x \in s
      BY <2>3
    <2>5. Cardinality(s \ {x}) = m - 1 /\ m - 1 \in Nat
      <3>1. Cardinality(s \ {x}) = Cardinality(s) - 1 /\ Cardinality(s) \in Nat \ {0}
        BY <2>3, <2>4, Smaller
      <3>q. QED
        BY <2>2, <3>1
    <2>6. g[s \ {x}] = 0
      <3>1. m - 1 \notin Bad
        <4> HIDE DEF Bad
        <4>q. QED
          BY <2>1, <2>3, <2>5
      <3>q. QED
        BY <2>5, <3>1
    <2>7. g[s] = f[x] + g[s \ {x}]
      <3>1. Countable(g, f, s)
        <4>1. f \in [S -> Int]
          OBVIOUS
        <4>q. QED
          BY <1>1, <4>1, AnyFirst
      <3>q. QED
        BY <2>4, <3>1 DEF Countable
    <2>q. QED
      BY <2>2, <2>4, <2>6, <2>7
  <1>4. IsFiniteSet(S) /\ Cardinality(S) \in Nat
    BY FS_CardinalityType
  <1>q. QED
    BY <1>1, <1>3, <1>4

\* Two sums that differ at one element at most.
At(f, S, x) == IF x \in S THEN f[x] ELSE 0

LEMMA OneDiffers ==
    ASSUME NEW S, IsFiniteSet(S), NEW f \in [S -> Int], NEW T, IsFiniteSet(T), NEW k \in [T -> Int],
           NEW x, S \ {x} = T \ {x}, \A y \in S \ {x} : f[y] = k[y]
    PROVE  /\ SumFunction(f) \in Int /\ SumFunction(k) \in Int
           /\ SumFunction(k) + At(f, S, x) = SumFunction(f) + At(k, T, x)
  <1> DEFINE r == [y \in S \ {x} |-> f[y]]
  <1>1. r \in [S \ {x} -> Int] /\ r \in [T \ {x} -> Int]
    OBVIOUS
  <1>2. (\A y \in S \ {x} : r[y] = f[y]) /\ (\A y \in T \ {x} : r[y] = k[y])
    OBVIOUS
  <1>3. r = f \/ x \in S
    OBVIOUS
  <1>4. r = k \/ x \in T
    <2> SUFFICES ASSUME x \notin T PROVE r = k
      OBVIOUS
    <2>1. S \ {x} = T
      OBVIOUS
    <2>q. QED
      BY <1>2, <2>1
  <1> HIDE DEF r
  <1>5. SumFunction(f) = At(f, S, x) + SumFunction(r)
    <2>1. CASE x \in S
      BY <1>1, <1>2, <2>1, SumSplit DEF At
    <2>2. CASE x \notin S
      <3>1. SumFunction(f) \in Int
        BY SumInInt
      <3>q. QED
        BY <1>3, <2>2, <3>1 DEF At
    <2>q. QED
      BY <2>1, <2>2
  <1>6. SumFunction(k) = At(k, T, x) + SumFunction(r)
    <2>1. CASE x \in T
      BY <1>1, <1>2, <2>1, SumSplit DEF At
    <2>2. CASE x \notin T
      <3>1. SumFunction(k) \in Int
        BY SumInInt
      <3>q. QED
        BY <1>4, <2>2, <3>1 DEF At
    <2>q. QED
      BY <2>1, <2>2
  <1>7. At(f, S, x) \in Int /\ At(k, T, x) \in Int
    BY DEF At
  <1>8. SumFunction(r) \in Int
    <2>1. IsFiniteSet(S \ {x})
      BY FS_Subset
    <2>q. QED
      BY <1>1, <2>1, SumInInt
  <1>q. QED
    BY <1>5, <1>6, <1>7, <1>8

LEMMA OneChanges ==
    ASSUME NEW S, IsFiniteSet(S), NEW f \in [S -> Nat], NEW T, IsFiniteSet(T), NEW k \in [T -> Nat],
           NEW x, S \ {x} = T \ {x}, \A y \in S \ {x} : f[y] = k[y]
    PROVE  /\ SumFunction(f) \in Nat /\ SumFunction(k) \in Nat
           /\ SumFunction(k) + At(f, S, x) = SumFunction(f) + At(k, T, x)
  <1>1. f \in [S -> Int] /\ k \in [T -> Int]
    OBVIOUS
  <1>2. SumFunction(k) + At(f, S, x) = SumFunction(f) + At(k, T, x)
    BY <1>1, OneDiffers
  <1>3. SumFunction(f) \in Nat /\ SumFunction(k) \in Nat
    BY SumInNat
  <1> QED BY <1>2, <1>3

\* The elements of s that count for something are matched, one to one, with
\* elements of t that count for no less.
Matches(f, k, m, s, t) ==
    \A x \in s : f[x] # 0 => /\ m[x] \in t /\ f[x] <= k[m[x]]
                             /\ \A y \in s : f[y] # 0 /\ m[y] = m[x] => y = x

LEMMA PartsFit ==
    ASSUME NEW S, IsFiniteSet(S), NEW f \in [S -> Nat], NEW g, SumsOn(g, f, SUBSET S),
           NEW T, IsFiniteSet(T), NEW k \in [T -> Nat], NEW h, SumsOn(h, k, SUBSET T), NEW m
    PROVE  \A s \in SUBSET S, t \in SUBSET T : Matches(f, k, m, s, t) => g[s] <= h[t]
  <1> DEFINE Bad == {n \in Nat : \E s \in SUBSET S, t \in SUBSET T :
                        Cardinality(s) = n /\ Matches(f, k, m, s, t) /\ ~(g[s] <= h[t])}
  <1>0. \A s \in SUBSET S : IsFiniteSet(s) /\ Cardinality(s) \in Nat
    BY FS_Subset, FS_CardinalityType
  <1>1. SUFFICES Bad = {}
    BY <1>0
  <1> SUFFICES ASSUME Bad # {} PROVE FALSE
    OBVIOUS
  <1>2. PICK n \in Bad : \A o \in Bad : n <= o
    <2>1. Bad \subseteq Nat
      OBVIOUS
    <2> HIDE DEF Bad
    <2> QED BY <2>1, Least
  <1>3. PICK s \in SUBSET S, t \in SUBSET T : Cardinality(s) = n /\ Matches(f, k, m, s, t) /\ ~(g[s] <= h[t])
    BY <1>2
  <1>4. n \in Nat /\ \A v \in SUBSET S, u \in SUBSET T : Cardinality(v) < n /\ Matches(f, k, m, v, u) => g[v] <= h[u]
    BY <1>0, <1>2
  <1> HIDE DEF Bad
  <1>5. (\A v \in SUBSET S : Countable(g, f, v)) /\ (\A v \in SUBSET T : Countable(h, k, v))
    <2>0. f \in [S -> Int] /\ k \in [T -> Int]
      OBVIOUS
    <2>1. \A v \in SUBSET S : Countable(g, f, v)
      BY <2>0, AnyFirst
    <2>2. \A v \in SUBSET T : Countable(h, k, v)
      BY <2>0, AnyFirst
    <2> QED BY <2>1, <2>2
  <1>6. CASE s = {}
    <2>1. g[s] = 0 /\ h[{}] = 0
      BY <1>6, SumOfNone
    <2>2. \A v, u \in SUBSET T : Under(k, k, v, u) => h[v] <= h[u]
      BY PartsSum
    <2>3. Under(k, k, {}, t) /\ {} \in SUBSET T
      BY DEF Under
    <2>4. h[{}] <= h[t]
      BY <2>2, <2>3
    <2> QED BY <1>3, <2>1, <2>4
  <1>7. CASE s # {}
    <2>1. PICK x : x \in s
      BY <1>7
    <2>2. s \ {x} \in SUBSET S /\ Cardinality(s \ {x}) < n
      <3>1. Cardinality(s \ {x}) = n - 1
        BY <1>0, <1>3, <2>1, Smaller
      <3> QED BY <1>4, <3>1
    <2>3. g[s] = f[x] + g[s \ {x}] /\ g[s \ {x}] \in Int /\ f[x] \in Nat
      BY <1>5, <2>1, <2>2 DEF Countable
    <2>4. CASE f[x] = 0
      <3>1. Matches(f, k, m, s \ {x}, t)
        BY <1>3 DEF Matches
      <3>2. g[s \ {x}] <= h[t]
        BY <1>4, <2>2, <3>1
      <3> QED BY <1>3, <2>3, <2>4, <3>2
    <2>5. CASE f[x] # 0
      <3>1. m[x] \in t /\ f[x] <= k[m[x]] /\ k[m[x]] \in Nat
        BY <1>3, <2>1, <2>5 DEF Matches
      <3>2. Matches(f, k, m, s \ {x}, t \ {m[x]})
        BY <1>3, <2>1, <2>5 DEF Matches
      <3>3. t \ {m[x]} \in SUBSET T
        OBVIOUS
      <3>4. g[s \ {x}] <= h[t \ {m[x]}]
        BY <1>4, <2>2, <3>2, <3>3
      <3>5. h[t] = k[m[x]] + h[t \ {m[x]}] /\ h[t \ {m[x]}] \in Int
        BY <1>5, <3>1, <3>3 DEF Countable
      <3> QED BY <1>3, <2>3, <3>1, <3>4, <3>5
    <2> QED BY <2>4, <2>5
  <1> QED BY <1>6, <1>7

\* The rows of one table, matched one to one with those of another that count
\* for no less; what counts for nothing needs no match.
LEMMA SumFits ==
    ASSUME NEW S, IsFiniteSet(S), NEW f \in [S -> Nat], NEW T, IsFiniteSet(T), NEW k \in [T -> Nat],
           NEW m, Matches(f, k, m, S, T)
    PROVE  SumFunction(f) <= SumFunction(k)
  <1>1. PICK g : SumsOn(g, f, SUBSET S) /\ SumFunction(f) = g[S]
    BY SumIs
  <1>2. PICK h : SumsOn(h, k, SUBSET T) /\ SumFunction(k) = h[T]
    BY SumIs
  <1>3. \A s \in SUBSET S, t \in SUBSET T : Matches(f, k, m, s, t) => g[s] <= h[t]
    BY <1>1, <1>2, PartsFit
  <1> QED BY <1>1, <1>2, <1>3

------------------------------------------------------------------------------
(* A part of a ledger: the values v of the rows whose key is in K.          *)

RowsWith(key, K) == {x \in DOMAIN key : key[x] \in K}
PartSum(key, v, K) == SumFunction([x \in RowsWith(key, K) |-> v[x]])

\* A ledger of finitely many rows with values that are no less than zero.
IsLedger(key, v) == IsFiniteSet(DOMAIN key) /\ v \in [DOMAIN key -> Nat]

LEMMA PartIs ==
    ASSUME NEW key, NEW v, IsLedger(key, v), NEW K
    PROVE  /\ IsFiniteSet(RowsWith(key, K)) /\ [x \in RowsWith(key, K) |-> v[x]] \in [RowsWith(key, K) -> Nat]
           /\ PartSum(key, v, K) \in Nat
  <1>1. IsFiniteSet(RowsWith(key, K))
    BY FS_Subset DEF IsLedger, RowsWith
  <1>2. [x \in RowsWith(key, K) |-> v[x]] \in [RowsWith(key, K) -> Nat]
    BY DEF IsLedger, RowsWith
  <1> QED BY <1>1, <1>2, SumInNat DEF PartSum

\* Two ledgers count alike, but perhaps for row x.
AlikeBut(key, v, K, key2, v2, K2, x) ==
    /\ RowsWith(key, K) \ {x} = RowsWith(key2, K2) \ {x}
    /\ \A y \in RowsWith(key, K) \ {x} : v[y] = v2[y]

LEMMA PartMoves ==
    ASSUME NEW key, NEW v, IsLedger(key, v), NEW K, NEW key2, NEW v2, IsLedger(key2, v2), NEW K2,
           NEW x, AlikeBut(key, v, K, key2, v2, K2, x)
    PROVE  /\ PartSum(key, v, K) \in Nat /\ PartSum(key2, v2, K2) \in Nat
           /\ x \notin RowsWith(key, K) /\ x \notin RowsWith(key2, K2) => PartSum(key2, v2, K2) = PartSum(key, v, K)
           /\ x \notin RowsWith(key, K) /\ x \in RowsWith(key2, K2) => PartSum(key2, v2, K2) = PartSum(key, v, K) + v2[x]
           /\ x \in RowsWith(key, K) /\ x \notin RowsWith(key2, K2) => PartSum(key, v, K) = PartSum(key2, v2, K2) + v[x]
           /\ x \in RowsWith(key, K) /\ x \in RowsWith(key2, K2) => PartSum(key2, v2, K2) + v[x] = PartSum(key, v, K) + v2[x]
  <1> DEFINE S == RowsWith(key, K)
             T == RowsWith(key2, K2)
             f == [y \in S |-> v[y]]
             k == [y \in T |-> v2[y]]
  <1>1. IsFiniteSet(S) /\ f \in [S -> Nat] /\ PartSum(key, v, K) \in Nat /\ PartSum(key, v, K) = SumFunction(f)
    BY PartIs DEF PartSum
  <1>2. IsFiniteSet(T) /\ k \in [T -> Nat] /\ PartSum(key2, v2, K2) \in Nat /\ PartSum(key2, v2, K2) = SumFunction(k)
    BY PartIs DEF PartSum
  <1>3. S \ {x} = T \ {x} /\ \A y \in S \ {x} : f[y] = k[y]
    BY DEF AlikeBut
  <1>4. (x \in S => f[x] = v[x] /\ v[x] \in Nat) /\ (x \in T => k[x] = v2[x] /\ v2[x] \in Nat)
    BY DEF RowsWith, IsLedger
  <1> HIDE DEF S, T, f, k
  <1>5. SumFunction(k) + At(f, S, x) = SumFunction(f) + At(k, T, x)
    BY <1>1, <1>2, <1>3, OneChanges
  <1>6. (x \notin S => At(f, S, x) = 0) /\ (x \notin T => At(k, T, x) = 0)
        /\ (x \in S => At(f, S, x) = v[x]) /\ (x \in T => At(k, T, x) = v2[x])
    BY <1>4 DEF At
  <1> USE DEF S, T
  <1>7. CASE x \notin S /\ x \notin T
    BY <1>1, <1>2, <1>5, <1>6, <1>7
  <1>8. CASE x \notin S /\ x \in T
    BY <1>1, <1>2, <1>4, <1>5, <1>6, <1>8
  <1>9. CASE x \in S /\ x \notin T
    BY <1>1, <1>2, <1>4, <1>5, <1>6, <1>9
  <1>10. CASE x \in S /\ x \in T
    BY <1>1, <1>2, <1>4, <1>5, <1>6, <1>10
  <1> QED BY <1>1, <1>2, <1>7, <1>8, <1>9, <1>10

\* The same rows with the same values.
LEMMA PartSame ==
    ASSUME NEW key, NEW v, NEW K, NEW key2, NEW v2, NEW K2,
           RowsWith(key, K) = RowsWith(key2, K2), \A y \in RowsWith(key, K) : v[y] = v2[y]
    PROVE  PartSum(key2, v2, K2) = PartSum(key, v, K)
  <1>1. [x \in RowsWith(key, K) |-> v[x]] = [x \in RowsWith(key2, K2) |-> v2[x]]
    OBVIOUS
  <1> QED BY <1>1 DEF PartSum

LEMMA PartGrows ==
    ASSUME NEW key, NEW v, IsLedger(key, v), NEW K, NEW key2, NEW v2, IsLedger(key2, v2), NEW K2,
           RowsWith(key, K) \subseteq RowsWith(key2, K2), \A y \in RowsWith(key, K) : v[y] <= v2[y]
    PROVE  PartSum(key, v, K) <= PartSum(key2, v2, K2)
  <1> DEFINE f == [x \in RowsWith(key, K) |-> v[x]]
             k == [x \in RowsWith(key2, K2) |-> v2[x]]
  <1>1. IsFiniteSet(RowsWith(key, K)) /\ f \in [RowsWith(key, K) -> Nat]
    BY PartIs
  <1>2. IsFiniteSet(RowsWith(key2, K2)) /\ k \in [RowsWith(key2, K2) -> Nat]
    BY PartIs
  <1>3. \A y \in RowsWith(key, K) : f[y] <= k[y]
    OBVIOUS
  <1>4. PartSum(key, v, K) = SumFunction(f) /\ PartSum(key2, v2, K2) = SumFunction(k)
    BY DEF PartSum
  <1> HIDE DEF f, k
  <1> QED BY <1>1, <1>2, <1>3, <1>4, SumGrows

\* No row counts for more than the whole, and nothing adds up to nothing.
LEMMA PartOfWhole ==
    ASSUME NEW key, NEW v, IsLedger(key, v), NEW K, NEW x \in RowsWith(key, K)
    PROVE  v[x] \in Nat /\ v[x] <= PartSum(key, v, K)
  <1> DEFINE f == [y \in RowsWith(key, K) |-> v[y]]
  <1>1. IsFiniteSet(RowsWith(key, K)) /\ f \in [RowsWith(key, K) -> Nat]
    BY PartIs
  <1>2. f[x] = v[x] /\ PartSum(key, v, K) = SumFunction(f)
    BY DEF PartSum
  <1>3. f[x] \in Nat /\ f[x] <= SumFunction(f)
    <2> HIDE DEF f
    <2> QED BY <1>1, SumOfOne
  <1> QED BY <1>2, <1>3

LEMMA PartNone ==
    ASSUME NEW key, NEW v, NEW K, RowsWith(key, K) = {}
    PROVE  PartSum(key, v, K) = 0
  <1>1. DOMAIN [x \in RowsWith(key, K) |-> v[x]] = {}
    OBVIOUS
  <1> QED BY <1>1, SumNone DEF PartSum

LEMMA PartZeros ==
    ASSUME NEW key, NEW v, IsLedger(key, v), NEW K, \A x \in RowsWith(key, K) : v[x] = 0
    PROVE  PartSum(key, v, K) = 0
  <1> DEFINE f == [x \in RowsWith(key, K) |-> v[x]]
  <1>1. IsFiniteSet(RowsWith(key, K)) /\ f \in [RowsWith(key, K) -> Nat] /\ \A x \in RowsWith(key, K) : f[x] = 0
    BY PartIs
  <1>2. PartSum(key, v, K) = SumFunction(f)
    BY DEF PartSum
  <1> HIDE DEF f
  <1> QED BY <1>1, <1>2, SumZeros

=============================================================================

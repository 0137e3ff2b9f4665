----------------------------- MODULE HoldingsProofs -----------------------------
(***************************************************************************)
(* Theorems about Holdings for any goroutines, amounts, limits and bounds. *)
(* Sums and folds over finite sets are first shown to be what they look    *)
(* like: the library computes both with a function on the subsets of a     *)
(* finite set, and an equation between two such functions fails, if it     *)
(* does, on a smallest subset.                                             *)
(***************************************************************************)
EXTENDS Holdings, FiniteSetTheorems, FunctionTheorems, SequenceTheorems, TLAPS

\* A non-empty set of finite sets has a smallest member.
LEMMA SmallestSet ==
    ASSUME NEW D, IsFiniteSet(D), NEW T \in SUBSET SUBSET D, T # {}
    PROVE  \E x \in T : \A y \in T : y \subseteq x => y = x
<1>1. T \in SUBSET FiniteSubsetsOf(D)
  BY FS_Subset DEF FiniteSubsetsOf
<1>2. PICK x \in T : \A y \in T : ~(<<y, x>> \in StrictSubsetOrdering(D))
  BY <1>1, WFMin, FS_StrictSubsetOrderingWellFounded
<1> QED BY <1>1, <1>2 DEF StrictSubsetOrdering, FiniteSubsetsOf

\* A non-empty set of naturals up to a bound has a smallest and a largest member.
LEMMA LeastExists ==
    ASSUME NEW n \in Nat, NEW T \in SUBSET (1..n), T # {}
    PROVE  \E x \in T : \A y \in T : x <= y
<1> DEFINE D == 1..n
           U == {1..x : x \in T}
<1>1. U \in SUBSET SUBSET D /\ U # {} /\ IsFiniteSet(D)
  <2>1. \A x \in T : 1..x \in SUBSET D
    OBVIOUS
  <2>2. IsFiniteSet(D)
    BY FS_Interval
  <2> QED BY <2>1, <2>2
<1> HIDE DEF D, U
<1>2. PICK u \in U : \A y \in U : y \subseteq u => y = u
  BY <1>1, SmallestSet
<1>3. PICK x \in T : u = 1..x
  BY DEF U
<1>4. ASSUME NEW y \in T, y < x PROVE FALSE
  <2>1. 1..y \in U /\ 1..y \subseteq 1..x /\ x \in 1..x /\ x \notin 1..y
    BY <1>4 DEF U
  <2> QED BY <1>2, <1>3, <2>1
<1> QED BY <1>4

LEMMA GreatestExists ==
    ASSUME NEW n \in Nat, NEW T \in SUBSET (1..n), T # {}
    PROVE  \E x \in T : \A y \in T : x >= y
<1> DEFINE R == {n + 1 - x : x \in T}
<1>1. R \in SUBSET (1..n) /\ R # {} /\ \A y \in T : n + 1 - y \in R
  <2>1. \A y \in T : n + 1 - y \in 1..n
    OBVIOUS
  <2>2. R \in SUBSET (1..n)
    BY <2>1
  <2>3. \A y \in T : n + 1 - y \in R
    OBVIOUS
  <2> HIDE DEF R
  <2> QED BY <2>2, <2>3
<1>2. \A z \in R : \E x \in T : z = n + 1 - x
  OBVIOUS
<1> HIDE DEF R
<1>3. PICK z \in R : \A y \in R : z <= y
  BY <1>1, LeastExists
<1>4. PICK x \in T : z = n + 1 - x
  BY <1>2
<1>5. ASSUME NEW y \in T PROVE x >= y
  <2>1. z <= n + 1 - y
    BY <1>1, <1>3
  <2> QED BY <1>4, <2>1
<1> QED BY <1>5
-----------------------------------------------------------------------------
\* Sums.  A function on the subsets of D that adds up f as MapThenSumSet does.
Pick(s) == CHOOSE x \in s : TRUE

AddsUp(f, D, g) ==
    g = [s \in SUBSET D |-> IF s = {} THEN 0 ELSE f[Pick(s)] + g[s \ {Pick(s)}]]

Sum(f, D) == MapThenSumSet(LAMBDA x : f[x], D)

LEMMA PickIn == \A s : s # {} => Pick(s) \in s
BY DEF Pick

LEMMA AddsUpOnce ==
    ASSUME NEW D, IsFiniteSet(D), NEW f, NEW g, AddsUp(f, D, g), NEW h, AddsUp(f, D, h)
    PROVE  g = h
<1>0. /\ \A s \in SUBSET D : g[s] = IF s = {} THEN 0 ELSE f[Pick(s)] + g[s \ {Pick(s)}]
      /\ \A s \in SUBSET D : h[s] = IF s = {} THEN 0 ELSE f[Pick(s)] + h[s \ {Pick(s)}]
  BY DEF AddsUp
<1> DEFINE T == {s \in SUBSET D : g[s] # h[s]}
<1>1. ASSUME T # {} PROVE FALSE
  <2>0. T \in SUBSET SUBSET D
    OBVIOUS
  <2>1. PICK x \in T : \A y \in T : y \subseteq x => y = x
    <3> HIDE DEF T
    <3> QED BY <1>1, <2>0, SmallestSet
  <2>2. x # {} /\ Pick(x) \in x /\ x \in SUBSET D /\ g[x] # h[x]
    BY <1>0, PickIn
  <2>3. x \ {Pick(x)} \notin T /\ x \ {Pick(x)} \in SUBSET D
    BY <2>1, <2>2
  <2>4. g[x \ {Pick(x)}] = h[x \ {Pick(x)}]
    BY <2>3
  <2>5. g[x] = f[Pick(x)] + g[x \ {Pick(x)}] /\ h[x] = f[Pick(x)] + h[x \ {Pick(x)}]
    BY <1>0, <2>2
  <2> QED BY <2>2, <2>4, <2>5
<1>2. \A s \in SUBSET D : g[s] = h[s]
  BY <1>1
<1>3. g = [s \in SUBSET D |-> g[s]] /\ h = [s \in SUBSET D |-> h[s]]
  BY DEF AddsUp
<1> QED BY <1>2, <1>3

\* It restricts to the subsets of a subset.
LEMMA AddsUpRestricted ==
    ASSUME NEW D, NEW f, NEW g, AddsUp(f, D, g), NEW E \in SUBSET D
    PROVE  AddsUp(f, E, [s \in SUBSET E |-> g[s]])
<1>0. \A s \in SUBSET D : g[s] = IF s = {} THEN 0 ELSE f[Pick(s)] + g[s \ {Pick(s)}]
  BY DEF AddsUp
<1> DEFINE h == [s \in SUBSET E |-> g[s]]
           k == [s \in SUBSET E |-> IF s = {} THEN 0 ELSE f[Pick(s)] + h[s \ {Pick(s)}]]
<1>1. ASSUME NEW s \in SUBSET E PROVE h[s] = k[s]
  <2>1. s \in SUBSET D /\ s \ {Pick(s)} \in SUBSET E
    OBVIOUS
  <2> QED BY <1>0, <2>1
<1>2. h = k
  BY <1>1
<1> QED BY <1>2 DEF AddsUp

LEMMA AddsUpExists == ASSUME NEW D, IsFiniteSet(D), NEW f PROVE \E g : AddsUp(f, D, g)
<1> DEFINE T == {s \in SUBSET D : ~\E g : AddsUp(f, s, g)}
<1>1. ASSUME T # {} PROVE FALSE
  <2>0. T \in SUBSET SUBSET D
    OBVIOUS
  <2>1. PICK x \in T : \A y \in T : y \subseteq x => y = x
    <3> HIDE DEF T
    <3> QED BY <1>1, <2>0, SmallestSet
  <2> DEFINE G(u) == CHOOSE g : AddsUp(f, u, g)
             h == [s \in SUBSET x |-> IF s = {} THEN 0
                     ELSE f[Pick(s)] + G(s \ {Pick(s)})[s \ {Pick(s)}]]
  <2>2. ASSUME NEW u \in SUBSET x, u # x PROVE AddsUp(f, u, G(u))
    <3>1. \E g : AddsUp(f, u, g)
      BY <2>1, <2>2
    <3> QED BY <3>1
  <2> HIDE DEF G
  <2>3. ASSUME NEW u \in SUBSET x, u # x, u # {}
        PROVE  G(u)[u] = f[Pick(u)] + G(u \ {Pick(u)})[u \ {Pick(u)}]
    <3> DEFINE v == u \ {Pick(u)}
    <3>1. Pick(u) \in u /\ v \in SUBSET u /\ v \in SUBSET x /\ v # x
      BY <2>3, PickIn
    <3> HIDE DEF v
    <3>2. AddsUp(f, u, G(u)) /\ AddsUp(f, v, G(v)) /\ IsFiniteSet(v)
      BY <2>2, <2>3, <3>1, FS_Subset
    <3>3. AddsUp(f, v, [s \in SUBSET v |-> G(u)[s]])
      BY <3>1, <3>2, AddsUpRestricted
    <3>4. G(v) = [s \in SUBSET v |-> G(u)[s]]
      BY <3>2, <3>3, AddsUpOnce
    <3>5. G(v)[v] = G(u)[v]
      BY <3>4
    <3>6. G(u)[u] = f[Pick(u)] + G(u)[v]
      BY <2>3, <3>2 DEF AddsUp, v
    <3> QED BY <3>5, <3>6 DEF v
  <2>4. ASSUME NEW u \in SUBSET x, u # x PROVE G(u)[u] = h[u]
    <3>1. CASE u = {}
      BY <2>2, <3>1 DEF AddsUp
    <3>2. CASE u # {}
      BY <2>3, <2>4, <3>2
    <3> QED BY <3>1, <3>2
  <2> DEFINE k == [s \in SUBSET x |-> IF s = {} THEN 0 ELSE f[Pick(s)] + h[s \ {Pick(s)}]]
  <2>5. ASSUME NEW s \in SUBSET x PROVE h[s] = k[s]
    <3>1. CASE s = {}
      BY <3>1
    <3>2. CASE s # {}
      <4>1. Pick(s) \in s /\ s \ {Pick(s)} \in SUBSET x /\ s \ {Pick(s)} # x
        BY <3>2, PickIn
      <4>2. G(s \ {Pick(s)})[s \ {Pick(s)}] = h[s \ {Pick(s)}]
        BY <2>4, <4>1
      <4> HIDE DEF G
      <4> QED BY <3>2, <4>2
    <3> QED BY <3>1, <3>2
  <2>6. h = k
    BY <2>5
  <2>7. AddsUp(f, x, h)
    BY <2>6 DEF AddsUp
  <2> QED BY <2>7
<1> QED BY <1>1

\* Sum picks an element and adds the rest.
LEMMA SumUnfolds ==
    ASSUME NEW D, IsFiniteSet(D), NEW f
    PROVE  /\ D = {} => Sum(f, D) = 0
           /\ D # {} => Sum(f, D) = f[Pick(D)] + Sum(f, D \ {Pick(D)})
<1>1. \A E : Sum(f, E) = (CHOOSE g : AddsUp(f, E, g))[E]
  BY DEF Sum, MapThenSumSet, MapThenFoldSet, AddsUp, Pick
<1> DEFINE G(E) == CHOOSE g : AddsUp(f, E, g)
<1>2. ASSUME NEW E \in SUBSET D PROVE AddsUp(f, E, G(E))
  BY AddsUpExists, FS_Subset
<1>3. \A E : Sum(f, E) = G(E)[E]
  BY <1>1
<1> HIDE DEF G
<1>4. CASE D = {}
  BY <1>2, <1>3, <1>4 DEF AddsUp
<1>5. CASE D # {}
  <2> DEFINE v == D \ {Pick(D)}
  <2>1. v \in SUBSET D
    OBVIOUS
  <2>2. G(D)[D] = f[Pick(D)] + G(D)[v]
    BY <1>2, <1>5 DEF AddsUp
  <2> HIDE DEF v
  <2>3. AddsUp(f, D, G(D)) /\ AddsUp(f, v, G(v)) /\ IsFiniteSet(v)
    BY <1>2, <2>1, FS_Subset
  <2>4. AddsUp(f, v, [s \in SUBSET v |-> G(D)[s]])
    BY <2>1, <2>3, AddsUpRestricted
  <2>5. G(v) = [s \in SUBSET v |-> G(D)[s]]
    BY <2>3, <2>4, AddsUpOnce
  <2>6. G(v)[v] = G(D)[v]
    BY <2>5
  <2> QED BY <1>3, <1>5, <2>2, <2>6 DEF v
<1> QED BY <1>4, <1>5

\* Sums of naturals are naturals, take their elements in any order, and depend on the
\* summands only.
LEMMA SumType ==
    ASSUME NEW D, IsFiniteSet(D), NEW f, \A x \in D : f[x] \in Nat
    PROVE  Sum(f, D) \in Nat
<1> DEFINE T == {s \in SUBSET D : Sum(f, s) \notin Nat}
<1>0. T \in SUBSET SUBSET D
  OBVIOUS
<1>1. ASSUME T # {} PROVE FALSE
  <2>1. PICK x \in T : \A y \in T : y \subseteq x => y = x
    <3> HIDE DEF T
    <3> QED BY <1>0, <1>1, SmallestSet
  <2>2. x \in SUBSET D /\ IsFiniteSet(x) /\ Sum(f, x) \notin Nat
    BY FS_Subset
  <2>3. x # {} /\ Sum(f, x) = f[Pick(x)] + Sum(f, x \ {Pick(x)})
    BY <2>2, SumUnfolds
  <2>4. Pick(x) \in x /\ x \ {Pick(x)} \in SUBSET D /\ x \ {Pick(x)} \notin T
    BY <2>1, <2>2, <2>3, PickIn
  <2>5. Sum(f, x \ {Pick(x)}) \in Nat /\ f[Pick(x)] \in Nat
    BY <2>2, <2>4
  <2> QED BY <2>2, <2>3, <2>5
<1>2. D \notin T
  BY <1>1
<1> QED BY <1>2

LEMMA SumAgrees ==
    ASSUME NEW D, IsFiniteSet(D), NEW f, NEW h, \A x \in D : f[x] = h[x]
    PROVE  Sum(f, D) = Sum(h, D)
<1> DEFINE T == {s \in SUBSET D : Sum(f, s) # Sum(h, s)}
<1>0. T \in SUBSET SUBSET D
  OBVIOUS
<1>1. ASSUME T # {} PROVE FALSE
  <2>1. PICK x \in T : \A y \in T : y \subseteq x => y = x
    <3> HIDE DEF T
    <3> QED BY <1>0, <1>1, SmallestSet
  <2>2. x \in SUBSET D /\ IsFiniteSet(x) /\ Sum(f, x) # Sum(h, x)
    BY FS_Subset
  <2>3. /\ x # {} /\ Sum(f, x) = f[Pick(x)] + Sum(f, x \ {Pick(x)})
        /\ Sum(h, x) = h[Pick(x)] + Sum(h, x \ {Pick(x)})
    BY <2>2, SumUnfolds
  <2>4. Pick(x) \in x /\ x \ {Pick(x)} \in SUBSET D /\ x \ {Pick(x)} \notin T
    BY <2>1, <2>2, <2>3, PickIn
  <2>5. Sum(f, x \ {Pick(x)}) = Sum(h, x \ {Pick(x)}) /\ f[Pick(x)] = h[Pick(x)]
    BY <2>2, <2>4
  <2> QED BY <2>2, <2>3, <2>5
<1>2. D \notin T
  BY <1>1
<1> QED BY <1>2

LEMMA SumTakes ==
    ASSUME NEW D, IsFiniteSet(D), NEW f, \A x \in D : f[x] \in Nat, NEW e \in D
    PROVE  Sum(f, D) = f[e] + Sum(f, D \ {e})
<1> DEFINE T == {s \in SUBSET D : \E d \in s : Sum(f, s) # f[d] + Sum(f, s \ {d})}
<1>0. T \in SUBSET SUBSET D
  OBVIOUS
<1>1. ASSUME T # {} PROVE FALSE
  <2>1. PICK x \in T : \A y \in T : y \subseteq x => y = x
    <3> HIDE DEF T
    <3> QED BY <1>0, <1>1, SmallestSet
  <2>2. x \in SUBSET D /\ IsFiniteSet(x)
    BY FS_Subset
  <2>3. PICK d \in x : Sum(f, x) # f[d] + Sum(f, x \ {d})
    OBVIOUS
  <2> DEFINE p == Pick(x)
  <2>4. p \in x /\ Sum(f, x) = f[p] + Sum(f, x \ {p})
    BY <2>2, <2>3, SumUnfolds, PickIn
  <2> HIDE DEF p
  <2>5. p # d
    BY <2>3, <2>4
  <2>6. x \ {p} \notin T /\ x \ {d} \notin T
    BY <2>1, <2>3, <2>4
  <2>7. /\ Sum(f, x \ {p}) = f[d] + Sum(f, (x \ {p}) \ {d})
        /\ Sum(f, x \ {d}) = f[p] + Sum(f, (x \ {d}) \ {p})
    BY <2>2, <2>3, <2>4, <2>5, <2>6
  <2>8. (x \ {p}) \ {d} = (x \ {d}) \ {p}
    OBVIOUS
  <2>9. Sum(f, (x \ {p}) \ {d}) \in Nat /\ f[p] \in Nat /\ f[d] \in Nat
    <3>1. IsFiniteSet((x \ {p}) \ {d}) /\ \A y \in (x \ {p}) \ {d} : f[y] \in Nat
      BY <2>2, FS_Subset
    <3> QED BY <2>2, <2>3, <2>4, <3>1, SumType
  <2> QED BY <2>3, <2>4, <2>7, <2>8, <2>9
<1>2. D \notin T
  BY <1>1
<1> QED BY <1>2

LEMMA SumUnion ==
    ASSUME NEW D, IsFiniteSet(D), NEW E, IsFiniteSet(E), D \cap E = {},
           NEW f, \A x \in D \cup E : f[x] \in Nat
    PROVE  Sum(f, D \cup E) = Sum(f, D) + Sum(f, E)
<1> DEFINE T == {s \in SUBSET D : Sum(f, s \cup E) # Sum(f, s) + Sum(f, E)}
<1>0. T \in SUBSET SUBSET D
  OBVIOUS
<1>1. ASSUME T # {} PROVE FALSE
  <2>1. PICK x \in T : \A y \in T : y \subseteq x => y = x
    <3> HIDE DEF T
    <3> QED BY <1>0, <1>1, SmallestSet
  <2>2. /\ x \in SUBSET D /\ IsFiniteSet(x) /\ IsFiniteSet(x \cup E)
        /\ Sum(f, x \cup E) # Sum(f, x) + Sum(f, E)
    BY FS_Subset, FS_Union
  <2>3. Sum(f, E) \in Nat /\ Sum(f, {}) = 0
    BY SumType, SumUnfolds, FS_EmptySet
  <2>4. x # {}
    BY <2>2, <2>3
  <2>5. PICK e \in x : TRUE
    BY <2>4
  <2>6. x \ {e} \notin T /\ x \ {e} \in SUBSET D
    BY <2>1, <2>2
  <2>7. Sum(f, (x \ {e}) \cup E) = Sum(f, x \ {e}) + Sum(f, E)
    BY <2>6
  <2>8. Sum(f, x) = f[e] + Sum(f, x \ {e})
    BY <2>2, SumTakes
  <2>9. Sum(f, x \cup E) = f[e] + Sum(f, (x \cup E) \ {e})
    BY <2>2, SumTakes
  <2>10. (x \cup E) \ {e} = (x \ {e}) \cup E
    BY <2>2
  <2>11. Sum(f, x \ {e}) \in Nat /\ f[e] \in Nat
    BY <2>2, FS_Subset, SumType
  <2>12. Sum(f, x \cup E) = f[e] + (Sum(f, x \ {e}) + Sum(f, E))
    BY <2>7, <2>9, <2>10
  <2>13. f[e] + (Sum(f, x \ {e}) + Sum(f, E)) = (f[e] + Sum(f, x \ {e})) + Sum(f, E)
    BY <2>3, <2>11
  <2> QED BY <2>2, <2>8, <2>12, <2>13
<1>2. D \notin T
  BY <1>1
<1> QED BY <1>2
-----------------------------------------------------------------------------
\* Folding the events of an update: an id is active after the events in some places
\* if one of them created it and none of the later ones archived it, or if it was
\* active before and none of them archived it.
IsEvents(q) == q \in Seq(LedgerEvents)

ActiveAfter(base, q, s) ==
    {id \in Contracts :
        \/ \E i \in s : q[i] = Created(id) /\ \A j \in s : j > i => q[j] # Archived(id)
        \/ id \in base /\ \A j \in s : q[j] # Archived(id)}

FoldsUp(base, q, g) ==
    g = [s \in SUBSET DOMAIN q |-> IF s = {} THEN base ELSE Apply(g[s \ {Max(s)}], q[Max(s)])]

LEMMA MaxIn ==
    ASSUME NEW n \in Nat, NEW T \in SUBSET (1..n), T # {}
    PROVE  Max(T) \in T /\ \A y \in T : Max(T) >= y
BY GreatestExists DEF Max

LEMMA MinIn ==
    ASSUME NEW n \in Nat, NEW T \in SUBSET (1..n), T # {}
    PROVE  Min(T) \in T /\ \A y \in T : Min(T) <= y
BY LeastExists DEF Min

LEMMA FoldsUpOnce ==
    ASSUME NEW q, IsEvents(q), NEW base, NEW g, FoldsUp(base, q, g), NEW h, FoldsUp(base, q, h)
    PROVE  g = h
<1> DEFINE D == DOMAIN q
           T == {s \in SUBSET D : g[s] # h[s]}
<1>0. T \in SUBSET SUBSET D /\ Len(q) \in Nat /\ D = 1..Len(q) /\ IsFiniteSet(D)
  BY LenProperties, FS_Interval DEF IsEvents
<1>1. ASSUME T # {} PROVE FALSE
  <2>1. PICK x \in T : \A y \in T : y \subseteq x => y = x
    <3>1. T \in SUBSET SUBSET D /\ IsFiniteSet(D)
      BY <1>0
    <3> HIDE DEF T, D
    <3> QED BY <3>1, <1>1, SmallestSet
  <2>2. /\ x \in SUBSET D /\ g[x] # h[x]
        /\ g[x] = IF x = {} THEN base ELSE Apply(g[x \ {Max(x)}], q[Max(x)])
        /\ h[x] = IF x = {} THEN base ELSE Apply(h[x \ {Max(x)}], q[Max(x)])
    BY DEF FoldsUp
  <2>3. x # {}
    BY <2>2
  <2>4. Max(x) \in x
    BY <1>0, <2>2, <2>3, MaxIn
  <2>5. x \ {Max(x)} \notin T /\ x \ {Max(x)} \in SUBSET D
    BY <2>1, <2>2, <2>4
  <2>6. g[x \ {Max(x)}] = h[x \ {Max(x)}]
    BY <2>5
  <2> QED BY <2>2, <2>3, <2>6
<1>2. \A s \in SUBSET D : g[s] = h[s]
  BY <1>1
<1>3. g = [s \in SUBSET D |-> g[s]] /\ h = [s \in SUBSET D |-> h[s]]
  BY DEF FoldsUp
<1> QED BY <1>2, <1>3

LEMMA ActiveAfterFoldsUp ==
    ASSUME NEW q, IsEvents(q), NEW base \in SUBSET Contracts
    PROVE  FoldsUp(base, q, [s \in SUBSET DOMAIN q |-> ActiveAfter(base, q, s)])
<1> DEFINE D == DOMAIN q
           g == [s \in SUBSET D |-> ActiveAfter(base, q, s)]
           h == [s \in SUBSET D |-> IF s = {} THEN base ELSE Apply(g[s \ {Max(s)}], q[Max(s)])]
<1>1. ASSUME NEW s \in SUBSET D PROVE g[s] = h[s]
  <2>1. CASE s = {}
    BY <2>1 DEF ActiveAfter
  <2>2. CASE s # {}
    <3> DEFINE m == Max(s)
    <3>1. /\ m \in s /\ \A y \in s : m >= y
          /\ Len(q) \in Nat /\ D = 1..Len(q)
          /\ q \in Seq(LedgerEvents)
      BY <2>2, LenProperties, MaxIn DEF IsEvents
    <3> HIDE DEF m
    <3>2. q[m] \in LedgerEvents
      <4>1. m \in 1..Len(q)
        BY <3>1
      <4> QED BY <3>1, <4>1, ElementOfSeq
    <3>3. \A j \in s : j # m => j < m
      BY <3>1
    <3>4. h[s] = Apply(ActiveAfter(base, q, s \ {m}), q[m])
      BY <2>2, <3>1 DEF m
    <3>5. CASE q[m].created
      <4>1. q[m] = Created(q[m].id)
        BY <3>2, <3>5 DEF Created, LedgerEvents
      <4>2. \A id : q[m] # Archived(id)
        BY <4>1 DEF Created, Archived
      <4>3. \A id : q[m] = Created(id) => id = q[m].id
        BY DEF Created
      <4>4. ActiveAfter(base, q, s) = ActiveAfter(base, q, s \ {m}) \cup {q[m].id}
        BY <3>1, <3>2, <3>3, <4>1, <4>2, <4>3 DEF ActiveAfter, LedgerEvents
      <4> QED BY <3>4, <3>5, <4>4 DEF Apply
    <3>6. CASE ~q[m].created
      <4>1. q[m] = Archived(q[m].id)
        BY <3>2, <3>6 DEF Archived, LedgerEvents
      <4>2. \A id : q[m] # Created(id)
        BY <4>1 DEF Created, Archived
      <4>3. \A id : q[m] = Archived(id) => id = q[m].id
        BY DEF Archived
      <4>4. ActiveAfter(base, q, s) = ActiveAfter(base, q, s \ {m}) \ {q[m].id}
        BY <3>1, <3>2, <3>3, <4>1, <4>2, <4>3 DEF ActiveAfter, LedgerEvents
      <4> QED BY <3>4, <3>6, <4>4 DEF Apply
    <3> QED BY <3>5, <3>6
  <2> QED BY <2>1, <2>2
<1>2. g = h
  BY <1>1
<1> QED BY <1>2 DEF FoldsUp

LEMMA FoldIsActiveAfter ==
    ASSUME NEW q, IsEvents(q), NEW base \in SUBSET Contracts
    PROVE  FoldLeft(Apply, base, q) = ActiveAfter(base, q, DOMAIN q)
<1> DEFINE G == CHOOSE g : FoldsUp(base, q, g)
           h == [s \in SUBSET DOMAIN q |-> ActiveAfter(base, q, s)]
<1>1. FoldLeft(Apply, base, q) = G[DOMAIN q]
  BY DEF FoldLeft, MapThenFoldSet, FoldsUp
<1>2. FoldsUp(base, q, h)
  BY ActiveAfterFoldsUp
<1>3. FoldsUp(base, q, G)
  BY <1>2
<1> HIDE DEF G, h
<1>4. G = h
  BY <1>2, <1>3, FoldsUpOnce
<1> QED BY <1>1, <1>4 DEF h
-----------------------------------------------------------------------------
\* The ledger.  An event happened in the first k updates.
HappenedBy(k, e) == \E i \in 1..k : \E m \in 1..Len(updates[i]) : updates[i][m] = e

LEMMA ActiveAtHappened ==
    \A k : ActiveAt(k) = {id \in Contracts : HappenedBy(k, Created(id)) /\ ~HappenedBy(k, Archived(id))}
BY DEF ActiveAt, HappenedBy, Contains

LEMMA UpdatesAreEvents ==
    ASSUME HoldingsTypeOK
    PROVE  /\ Len(updates) \in Nat /\ Len(amountOf) \in Nat
           /\ \A i \in 1..Len(updates) :
                 /\ IsEvents(updates[i]) /\ Len(updates[i]) \in Nat
                 /\ DOMAIN updates[i] = 1..Len(updates[i])
                 /\ \A m \in 1..Len(updates[i]) : updates[i][m] \in LedgerEvents
<1>1. updates \in Seq(Seq(LedgerEvents)) /\ amountOf \in Seq(Nat)
  BY DEF HoldingsTypeOK
<1>2. Len(updates) \in Nat /\ Len(amountOf) \in Nat
  BY <1>1, LenProperties
<1>3. ASSUME NEW i \in 1..Len(updates)
      PROVE  /\ IsEvents(updates[i]) /\ Len(updates[i]) \in Nat
             /\ DOMAIN updates[i] = 1..Len(updates[i])
             /\ \A m \in 1..Len(updates[i]) : updates[i][m] \in LedgerEvents
  <2>1. updates[i] \in Seq(LedgerEvents)
    BY <1>1, <1>3, ElementOfSeq
  <2> QED BY <2>1, LenProperties, ElementOfSeq DEF IsEvents
<1> QED BY <1>2, <1>3

\* Nothing is active before it is created.
LEMMA ActiveIsNumbered ==
    ASSUME HoldingsTypeOK, LedgerInOrder, NEW k \in 0..Len(updates)
    PROVE  ActiveAt(k) \subseteq Contracts \cap (1..Len(amountOf))
<1> SUFFICES ASSUME NEW id \in ActiveAt(k) PROVE id \in Contracts /\ id \in 1..Len(amountOf)
  OBVIOUS
<1>1. id \in Contracts /\ HappenedBy(k, Created(id))
  BY ActiveAtHappened
<1>2. PICK i \in 1..k : \E m \in 1..Len(updates[i]) : updates[i][m] = Created(id)
  BY <1>1 DEF HappenedBy
<1>3. i \in 1..Len(updates) /\ Len(amountOf) \in Nat
  BY UpdatesAreEvents
<1>4. id <= Len(amountOf)
  BY <1>2, <1>3 DEF LedgerInOrder, Created
<1> QED BY <1>1, <1>3, <1>4 DEF Contracts

\* Folding the next update in gives the holdings active after it.
LEMMA ActiveAtNext ==
    ASSUME HoldingsTypeOK, LedgerInOrder, NEW k \in Nat, k < Len(updates)
    PROVE  FoldLeft(Apply, ActiveAt(k), updates[k + 1]) = ActiveAt(k + 1)
<1> DEFINE q == updates[k + 1]
<1>0. /\ Len(updates) \in Nat /\ k + 1 \in 1..Len(updates)
      /\ IsEvents(q) /\ DOMAIN q = 1..Len(q) /\ Len(q) \in Nat
  BY UpdatesAreEvents
<1>1. ActiveAt(k) \in SUBSET Contracts
  BY DEF ActiveAt
<1>2. FoldLeft(Apply, ActiveAt(k), q) = ActiveAfter(ActiveAt(k), q, 1..Len(q))
  <2> HIDE DEF q
  <2> QED BY <1>0, <1>1, FoldIsActiveAfter
<1>3. \A e : HappenedBy(k + 1, e) <=> HappenedBy(k, e) \/ \E m \in 1..Len(q) : q[m] = e
  <2>1. 1..(k + 1) = 1..k \cup {k + 1}
    OBVIOUS
  <2> QED BY <2>1 DEF HappenedBy
<1>4. ASSUME NEW id, NEW m \in 1..Len(q), q[m] = Created(id)
      PROVE  /\ ~HappenedBy(k, Archived(id))
             /\ \A n \in 1..Len(q) : q[n] = Archived(id) => m < n
  <2>1. ASSUME NEW j \in 1..Len(updates), NEW n \in 1..Len(updates[j]), updates[j][n] = Archived(id)
        PROVE  k + 1 < j \/ (k + 1 = j /\ m < n)
    <3>1. /\ q[m].id = updates[j][n].id /\ q[m].created /\ ~updates[j][n].created
      BY <1>4, <2>1 DEF Created, Archived
    <3> QED BY <1>0, <3>1 DEF LedgerInOrder
  <2>2. ~HappenedBy(k, Archived(id))
    <3> SUFFICES ASSUME NEW i \in 1..k, NEW n \in 1..Len(updates[i]), updates[i][n] = Archived(id)
                 PROVE  FALSE
      BY DEF HappenedBy
    <3>1. i \in 1..Len(updates)
      BY <1>0
    <3>2. k + 1 <= i
      BY <1>0, <2>1, <3>1
    <3> QED BY <3>2
  <2>3. \A n \in 1..Len(q) : q[n] = Archived(id) => m < n
    BY <1>0, <2>1
  <2> QED BY <2>2, <2>3
<1> HIDE DEF q
<1>5. ASSUME NEW id \in Contracts
      PROVE  id \in ActiveAfter(ActiveAt(k), q, 1..Len(q)) <=> id \in ActiveAt(k + 1)
  <2>1. id \in ActiveAt(k + 1) <=>
          /\ HappenedBy(k, Created(id)) \/ \E m \in 1..Len(q) : q[m] = Created(id)
          /\ ~HappenedBy(k, Archived(id)) /\ \A m \in 1..Len(q) : q[m] # Archived(id)
    BY <1>3, ActiveAtHappened
  <2>2. id \in ActiveAt(k) <=> HappenedBy(k, Created(id)) /\ ~HappenedBy(k, Archived(id))
    BY ActiveAtHappened
  <2>3. id \in ActiveAfter(ActiveAt(k), q, 1..Len(q)) <=>
          \/ \E m \in 1..Len(q) : q[m] = Created(id) /\ \A n \in 1..Len(q) : n > m => q[n] # Archived(id)
          \/ id \in ActiveAt(k) /\ \A n \in 1..Len(q) : q[n] # Archived(id)
    BY DEF ActiveAfter
  <2>4. ASSUME NEW m \in 1..Len(q), q[m] = Created(id)
        PROVE  (\A n \in 1..Len(q) : n > m => q[n] # Archived(id))
               <=> \A n \in 1..Len(q) : q[n] # Archived(id)
    BY <1>0, <1>4, <2>4
  <2> QED BY <1>4, <2>1, <2>2, <2>3, <2>4
<1> QED BY <1>2, <1>5 DEF ActiveAfter, ActiveAt, q

\* An update is added: holdings it creates are new, those it archives are known or
\* created earlier in it.
Extends(u, new) ==
    /\ u \in Seq(LedgerEvents) /\ new \in Seq(Nat)
    /\ Len(updates) < MaxUpdates /\ Len(amountOf) + Len(new) <= MaxContracts
    /\ \A m \in 1..Len(u) : u[m].created => u[m].id > Len(amountOf)
    /\ \A m \in 1..Len(u) : u[m].id <= Len(amountOf) + Len(new)
    /\ \A m, n \in 1..Len(u) : u[m].id = u[n].id /\ u[m].created /\ ~u[n].created => m < n
    /\ updates' = Append(updates, u)
    /\ amountOf' = amountOf \o new

LEMMA LedgerGrows ==
    ASSUME HoldingsTypeOK, LedgerInOrder, NEW u, NEW new, Extends(u, new)
    PROVE  /\ updates' \in Seq(Seq(LedgerEvents)) /\ amountOf' \in Seq(Nat)
           /\ LedgerInOrder'
           /\ Len(updates') = Len(updates) + 1
           /\ \A k \in 0..Len(updates) : ActiveAt(k)' = ActiveAt(k)
           /\ \A id \in 1..Len(amountOf) : amountOf'[id] = amountOf[id]
<1> USE LimitAssumption
<1>1. /\ Len(updates) \in Nat /\ Len(amountOf) \in Nat /\ Len(new) \in Nat /\ Len(u) \in Nat
      /\ updates \in Seq(Seq(LedgerEvents)) /\ amountOf \in Seq(Nat)
      /\ u \in Seq(LedgerEvents) /\ new \in Seq(Nat)
  BY UpdatesAreEvents, LenProperties DEF Extends, HoldingsTypeOK
<1>2. /\ updates' \in Seq(Seq(LedgerEvents))
      /\ Len(updates') = Len(updates) + 1
      /\ \A i \in 1..Len(updates) : updates'[i] = updates[i]
      /\ updates'[Len(updates) + 1] = u
  BY <1>1, AppendProperties DEF Extends
<1>3. /\ amountOf' \in Seq(Nat)
      /\ Len(amountOf') = Len(amountOf) + Len(new)
      /\ \A id \in 1..Len(amountOf) : amountOf'[id] = amountOf[id]
  BY <1>1, ConcatProperties DEF Extends
<1>4. ASSUME NEW k \in 0..Len(updates) PROVE ActiveAt(k)' = ActiveAt(k)
  <2>1. \A i \in 1..k : updates'[i] = updates[i]
    BY <1>1, <1>2
  <2> QED BY <2>1 DEF ActiveAt
<1>5. ASSUME NEW i \in 1..Len(updates'), NEW m \in 1..Len(updates'[i])
      PROVE  updates'[i][m].id <= Len(amountOf')
  <2>1. CASE i \in 1..Len(updates)
    <3>1. updates'[i][m].id <= Len(amountOf) /\ updates'[i][m].id \in Contracts
      BY <1>2, <1>5, <2>1, UpdatesAreEvents DEF LedgerInOrder, LedgerEvents
    <3> QED BY <1>1, <1>3, <3>1 DEF Contracts
  <2>2. CASE i = Len(updates) + 1
    BY <1>2, <1>3, <1>5, <2>2 DEF Extends
  <2> QED BY <1>1, <1>2, <2>1, <2>2
<1>6. ASSUME NEW i \in 1..Len(updates'), NEW j \in 1..Len(updates'),
             NEW m \in 1..Len(updates'[i]), NEW n \in 1..Len(updates'[j]),
             updates'[i][m].id = updates'[j][n].id,
             updates'[i][m].created, ~updates'[j][n].created
      PROVE  i < j \/ (i = j /\ m < n)
  <2>1. CASE i \in 1..Len(updates) /\ j \in 1..Len(updates)
    BY <1>2, <1>6, <2>1 DEF LedgerInOrder
  <2>2. CASE i \in 1..Len(updates) /\ j = Len(updates) + 1
    BY <1>1, <2>2
  <2>3. CASE i = Len(updates) + 1 /\ j \in 1..Len(updates)
    <3>1. updates'[i][m].id > Len(amountOf)
      BY <1>2, <1>6, <2>3 DEF Extends
    <3>2. updates'[j][n].id <= Len(amountOf) /\ updates'[j][n].id \in Contracts
      BY <1>2, <1>6, <2>3, UpdatesAreEvents DEF LedgerInOrder, LedgerEvents
    <3> QED BY <1>1, <1>6, <3>1, <3>2 DEF Contracts
  <2>4. CASE i = Len(updates) + 1 /\ j = Len(updates) + 1
    BY <1>2, <1>6, <2>4 DEF Extends
  <2>5. /\ i \in 1..Len(updates) \/ i = Len(updates) + 1
        /\ j \in 1..Len(updates) \/ j = Len(updates) + 1
    BY <1>1, <1>2
  <2> QED BY <2>1, <2>2, <2>3, <2>4, <2>5
<1>7. Len(updates') <= MaxUpdates /\ Len(amountOf') <= MaxContracts
  BY <1>1, <1>2, <1>3 DEF Extends
<1>8. LedgerInOrder'
  BY <1>5, <1>6, <1>7 DEF LedgerInOrder
<1> QED BY <1>2, <1>3, <1>4, <1>8
-----------------------------------------------------------------------------
\* Selections.  The totals of sets of known holdings.
LEMMA TotalIsSum == \A ids : TotalOf(ids) = Sum(amountOf, ids)
BY DEF TotalOf, Sum

LEMMA KnownTotals ==
    ASSUME HoldingsTypeOK, NEW ids \in SUBSET (1..Len(amountOf))
    PROVE  IsFiniteSet(ids) /\ TotalOf(ids) \in Nat /\ TotalOf({}) = 0
<1>1. Len(amountOf) \in Nat /\ \A id \in 1..Len(amountOf) : amountOf[id] \in Nat
  BY LenProperties, ElementOfSeq DEF HoldingsTypeOK
<1>2. IsFiniteSet(ids)
  <2>1. IsFiniteSet(1..Len(amountOf))
    BY <1>1, FS_Interval
  <2> QED BY <2>1, FS_Subset
<1>3. Sum(amountOf, ids) \in Nat
  BY <1>1, <1>2, SumType
<1>4. Sum(amountOf, {}) = 0
  BY FS_EmptySet, SumUnfolds
<1> QED BY <1>2, <1>3, <1>4, TotalIsSum

\* What a sequence holds.
LEMMA ToSetOfSeq ==
    ASSUME NEW S, NEW s \in Seq(S)
    PROVE  ToSet(s) = {s[i] : i \in 1..Len(s)} /\ ToSet(s) \subseteq S
BY LenProperties, ElementOfSeq DEF ToSet

LEMMA Prefix ==
    ASSUME NEW S, NEW s \in Seq(S), NEW n \in 0..Len(s)
    PROVE  /\ SubSeq(s, 1, n) \in Seq(S) /\ Len(SubSeq(s, 1, n)) = n
           /\ \A i \in 1..n : SubSeq(s, 1, n)[i] = s[i]
           /\ ToSet(SubSeq(s, 1, n)) = {s[i] : i \in 1..n}
<1>1. Len(s) \in Nat /\ \A i \in 1..n : s[i] \in S
  BY LenProperties, ElementOfSeq
<1>2. /\ SubSeq(s, 1, n) \in Seq(S) /\ Len(SubSeq(s, 1, n)) = n
      /\ \A i \in 1..n : SubSeq(s, 1, n)[i] = s[i]
  BY <1>1, SubSeqProperties
<1> DEFINE q == SubSeq(s, 1, n)
<1> HIDE DEF q
<1>3. ToSet(q) = {q[i] : i \in 1..n}
  BY <1>2, ToSetOfSeq DEF q
<1>4. {q[i] : i \in 1..n} = {s[i] : i \in 1..n}
  BY <1>2 DEF q
<1> QED BY <1>2, <1>3, <1>4 DEF q

\* A listing holds holdings that were found, each once, and all of them if the limit
\* allows.
LEMMA ListingProperties ==
    ASSUME HoldingsTypeOK, NEW w \in Workers, NEW limit \in Nat, NEW list \in Listings(w, limit)
    PROVE  /\ list \in Seq(Contracts)
           /\ \A i, j \in 1..Len(list) : list[i] = list[j] => i = j
           /\ ToSet(list) \subseteq seen[w]
           /\ Cardinality(seen[w]) <= limit => ToSet(list) = seen[w]
<1> DEFINE S == seen[w]
           n == Cardinality(S)
<1>1. S \subseteq Contracts /\ IsFiniteSet(S) /\ n \in Nat
  <2>1. S \subseteq Contracts
    BY DEF HoldingsTypeOK
  <2>2. IsFiniteSet(Contracts)
    BY LimitAssumption, FS_Interval DEF Contracts
  <2> HIDE DEF S
  <2> QED BY <2>1, <2>2, FS_Subset, FS_CardinalityType
<1>2. PICK s \in SetToSeqs(S) : list = SubSeq(s, 1, IF Len(s) > limit THEN limit ELSE Len(s))
  BY DEF Listings
<1> HIDE DEF S, n
<1>3. s \in [1..n -> S] /\ \A i, j \in 1..n : s[i] = s[j] => i = j
  BY <1>2 DEF SetToSeqs, n
<1>4. s \in Seq(S) /\ Len(s) = n /\ s \in Seq(Contracts)
  <2>1. s \in Seq(S) /\ Len(s) = n
    BY <1>1, <1>3, IsASeq, LenProperties
  <2> QED BY <1>1, <2>1, SeqMonotonic
<1> DEFINE k == IF Len(s) > limit THEN limit ELSE Len(s)
<1>5. k \in 0..Len(s) /\ k \in 0..n
  BY <1>1, <1>4
<1>6. /\ list \in Seq(Contracts) /\ Len(list) = k
      /\ \A i \in 1..k : list[i] = s[i]
      /\ ToSet(list) = {s[i] : i \in 1..k}
  <2> HIDE DEF k
  <2> QED BY <1>2, <1>4, <1>5, Prefix DEF k
<1>7. ToSet(list) \subseteq S
  <2>1. \A i \in 1..k : s[i] \in S
    BY <1>1, <1>3, <1>5
  <2> HIDE DEF k
  <2> QED BY <1>6, <2>1
<1>8. ASSUME n <= limit PROVE ToSet(list) = S
  <2>1. k = n
    BY <1>1, <1>4, <1>8
  <2>2. s \in Injection(1..n, S)
    BY <1>3, Fun_IsInj
  <2>3. Cardinality(1..n) = n
    BY <1>1, FS_Interval
  <2>4. s \in Surjection(1..n, S)
    BY <1>1, <2>2, <2>3, FS_Injection DEF n
  <2>5. \A x \in S : \E i \in 1..n : s[i] = x
    BY <2>4 DEF Surjection
  <2> HIDE DEF k
  <2> QED BY <1>6, <1>7, <2>1, <2>5
<1>9. \A i, j \in 1..Len(list) : list[i] = list[j] => i = j
  <2>1. \A i \in 1..k : i \in 1..n
    BY <1>1, <1>5
  <2> HIDE DEF k
  <2> QED BY <1>3, <1>6, <2>1
<1> QED BY <1>6, <1>7, <1>8, <1>9 DEF S, n

\* What the selection loop takes.
LEMMA TakenProperties ==
    ASSUME HoldingsTypeOK, NEW wanted \in Nat \ {0},
           NEW list \in Seq(Contracts), ToSet(list) \subseteq 1..Len(amountOf)
    PROVE  LET inputs == Taken(list, wanted) IN
           /\ inputs \in Seq(Contracts) /\ ToSet(inputs) \subseteq ToSet(list)
           /\ TotalOf(ToSet(inputs)) \in Nat
           /\ TotalOf(ToSet(inputs)) >= wanted
              => inputs # <<>> /\ TotalOf(ToSet(Front(inputs))) < wanted
           /\ TotalOf(ToSet(inputs)) < wanted /\ Admin = "party" => inputs = list
<1> DEFINE matching == IF Admin = "party" THEN list ELSE <<>>
           Enough(n) == TotalOf(ToSet(SubSeq(matching, 1, n))) >= wanted
           stops == {n \in 1..Len(matching) : Enough(n)}
           k == IF stops = {} THEN Len(matching) ELSE Min(stops)
           inputs == SubSeq(matching, 1, k)
<1>1. Taken(list, wanted) = inputs
  BY DEF Taken
<1>2. matching \in Seq(Contracts) /\ Len(matching) \in Nat /\ ToSet(matching) \subseteq ToSet(list)
  <2>1. <<>> \in Seq(Contracts) /\ ToSet(<<>>) = {}
    BY EmptySeq DEF ToSet
  <2> QED BY <2>1, LenProperties
<1> HIDE DEF matching
<1>3. ASSUME NEW n \in 0..Len(matching)
      PROVE  /\ ToSet(SubSeq(matching, 1, n)) \subseteq ToSet(list)
             /\ TotalOf(ToSet(SubSeq(matching, 1, n))) \in Nat
  <2>1. ToSet(SubSeq(matching, 1, n)) \subseteq ToSet(matching)
    BY <1>2, Prefix, ToSetOfSeq
  <2> QED BY <1>2, <2>1, KnownTotals
<1>4. k \in 0..Len(matching) /\ (stops # {} => k \in stops /\ \A n \in stops : k <= n)
  <2>1. stops \in SUBSET (1..Len(matching))
    OBVIOUS
  <2> HIDE DEF stops
  <2>2. stops # {} => Min(stops) \in stops /\ \A n \in stops : Min(stops) <= n
    BY <1>2, <2>1, MinIn
  <2>3. CASE stops = {}
    BY <1>2, <2>3
  <2>4. CASE stops # {}
    <3>1. Min(stops) \in 1..Len(matching)
      BY <2>1, <2>2, <2>4
    <3> QED BY <1>2, <2>2, <2>4, <3>1
  <2> QED BY <2>3, <2>4
<1> HIDE DEF k
<1>5. inputs \in Seq(Contracts) /\ Len(inputs) = k
  BY <1>2, <1>4, Prefix
<1>6. ASSUME TotalOf(ToSet(inputs)) >= wanted
      PROVE  inputs # <<>> /\ TotalOf(ToSet(Front(inputs))) < wanted
  <2>1. inputs # <<>>
    <3>1. ToSet(<<>>) = {} /\ TotalOf({}) = 0
      BY KnownTotals DEF ToSet
    <3> HIDE DEF inputs
    <3>2. ASSUME inputs = <<>> PROVE FALSE
      <4>1. TotalOf(ToSet(inputs)) = 0
        BY <3>1, <3>2
      <4> QED BY <1>6, <4>1
    <3> QED BY <3>2
  <2>2. k \in 1..Len(matching)
    BY <1>2, <1>4, <1>5, <2>1
  <2>3. k \in stops /\ k - 1 \notin stops
    <3>1. k \in stops
      BY <1>4, <1>6, <2>2
    <3> HIDE DEF stops
    <3> QED BY <1>2, <1>4, <2>2, <3>1
  <2>4. k - 1 \in 0..Len(matching)
    BY <1>2, <2>2
  <2>5. Front(inputs) = SubSeq(matching, 1, k - 1)
    <3>1. Front(inputs) = SubSeq(inputs, 1, k - 1)
      BY <1>5 DEF Front
    <3>2. /\ k - 1 \in 0..Len(inputs) /\ k \in 0..Len(matching) /\ k - 1 \in 0..Len(matching)
          /\ \A i \in 1..(k - 1) : i \in 1..k
      BY <1>2, <1>4, <1>5, <2>2
    <3>3. /\ SubSeq(inputs, 1, k - 1) \in Seq(Contracts) /\ Len(SubSeq(inputs, 1, k - 1)) = k - 1
          /\ \A i \in 1..(k - 1) : SubSeq(inputs, 1, k - 1)[i] = matching[i]
      <4>1. \A i \in 1..k : inputs[i] = matching[i]
        BY <1>2, <3>2, Prefix
      <4> HIDE DEF inputs
      <4> QED BY <1>5, <3>2, <4>1, Prefix
    <3>4. /\ SubSeq(matching, 1, k - 1) \in Seq(Contracts) /\ Len(SubSeq(matching, 1, k - 1)) = k - 1
          /\ \A i \in 1..(k - 1) : SubSeq(matching, 1, k - 1)[i] = matching[i]
      BY <1>2, <3>2, Prefix
    <3> QED BY <3>1, <3>3, <3>4, SeqEqual
  <2>6. CASE k - 1 = 0
    <3>1. ToSet(SubSeq(matching, 1, k - 1)) = {matching[i] : i \in 1..(k - 1)}
      BY <1>2, <2>4, Prefix
    <3>2. {matching[i] : i \in 1..(k - 1)} = {}
      BY <2>6
    <3>3. ToSet(Front(inputs)) = {} /\ TotalOf({}) = 0
      BY <2>5, <3>1, <3>2, KnownTotals
    <3> HIDE DEF inputs
    <3> QED BY <2>1, <3>3
  <2>7. CASE k - 1 # 0
    <3>1. ~Enough(k - 1)
      BY <1>2, <2>2, <2>3, <2>7
    <3>2. TotalOf(ToSet(SubSeq(matching, 1, k - 1))) \in Nat
      BY <1>3, <2>4
    <3>3. TotalOf(ToSet(SubSeq(matching, 1, k - 1))) < wanted
      BY <3>1, <3>2
    <3> HIDE DEF inputs
    <3> QED BY <2>1, <2>5, <3>3
  <2> QED BY <2>6, <2>7
<1>7. ASSUME TotalOf(ToSet(inputs)) < wanted, Admin = "party" PROVE inputs = list
  <2>1. k \notin stops
    BY <1>3, <1>4, <1>7
  <2>2. k = Len(matching)
    BY <1>4, <2>1 DEF k
  <2> QED BY <1>2, <1>7, <2>2, SubSeqFull DEF matching
<1> QED BY <1>1, <1>3, <1>4, <1>5, <1>6, <1>7

\* The pieces of a listing: consecutive, none empty or longer than the limit, and
\* every place of the listing in exactly one of them.
LEMMA Multiples ==
    ASSUME NEW a \in Nat, NEW b \in Nat, NEW c \in Nat, a <= b
    PROVE  a * c <= b * c
OBVIOUS

LEMMA Quotient ==
    ASSUME NEW a \in Nat, NEW c \in Nat \ {0}
    PROVE  /\ a \div c \in Nat
           /\ (a \div c) * c <= a
           /\ a < (a \div c) * c + c
OBVIOUS

PieceOf(i, x) == (i - 1) * ChunkLimit < x /\ x <= i * ChunkLimit

LEMMA PiecesPartition ==
    ASSUME NEW n \in Nat
    PROVE  LET t == (n + ChunkLimit - 1) \div ChunkLimit IN
           /\ t \in Nat
           /\ \A i \in 1..t : (i - 1) * ChunkLimit \in Nat /\ (i - 1) * ChunkLimit < n
           /\ \A x \in 1..n : \E i \in 1..t : PieceOf(i, x)
           /\ \A i, j \in 1..t : \A x \in Nat : PieceOf(i, x) /\ PieceOf(j, x) => i = j
<1> DEFINE C == ChunkLimit
           t == (n + C - 1) \div C
<1>0. C \in Nat \ {0}
  BY LimitAssumption
<1> HIDE DEF C
<1>1. t \in Nat /\ t * C <= n + C - 1
  <2>1. n + C - 1 \in Nat
    BY <1>0
  <2> QED BY <1>0, <2>1, Quotient
<1>1a. n + C - 1 < t * C + C
  <2>1. n + C - 1 \in Nat
    BY <1>0
  <2> QED BY <1>0, <2>1, Quotient
<1> HIDE DEF t
<1>2. ASSUME NEW i \in 1..t PROVE (i - 1) * C \in Nat /\ (i - 1) * C < n
  <2>1. i - 1 \in Nat /\ t - 1 \in Nat /\ i - 1 <= t - 1
    BY <1>1
  <2>2. (i - 1) * C <= (t - 1) * C
    BY <1>0, <2>1, Multiples
  <2>3. (t - 1) * C = t * C - C
    BY <1>0, <1>1
  <2>4. (i - 1) * C \in Nat /\ t * C \in Nat
    BY <1>0, <1>1, <2>1
  <2> QED BY <1>0, <1>1, <2>2, <2>3, <2>4
<1>3. ASSUME NEW x \in 1..n PROVE \E i \in 1..t : (i - 1) * C < x /\ x <= i * C
  <2> DEFINE d == (x - 1) \div C
  <2>1. x - 1 \in Nat
    OBVIOUS
  <2>2. d \in Nat /\ d * C <= x - 1 /\ x - 1 < d * C + C
    BY <1>0, <2>1, Quotient
  <2> HIDE DEF d
  <2>3. d * C \in Nat /\ (d + 1) * C = d * C + C
    BY <1>0, <2>2
  <2>4. d < t
    <3>1. ASSUME t <= d PROVE FALSE
      <4>1. t * C <= d * C /\ t * C \in Nat
        BY <1>0, <1>1, <2>2, <3>1, Multiples
      <4> QED BY <1>0, <1>1a, <2>2, <2>3, <4>1
    <3> QED BY <1>1, <2>2, <3>1
  <2>5. d + 1 \in 1..t /\ (d + 1) - 1 = d
    BY <1>1, <2>2, <2>4
  <2>6. d * C < x /\ x <= (d + 1) * C
    BY <1>0, <2>2, <2>3
  <2> QED BY <2>5, <2>6
<1>4. ASSUME NEW i \in 1..t, NEW j \in 1..t, NEW x \in Nat, i < j,
             (i - 1) * C < x, x <= i * C, (j - 1) * C < x, x <= j * C
      PROVE  FALSE
  <2>1. i \in Nat /\ j - 1 \in Nat /\ i <= j - 1
    BY <1>1, <1>4
  <2>2. i * C <= (j - 1) * C /\ i * C \in Nat /\ (j - 1) * C \in Nat
    BY <1>0, <2>1, Multiples
  <2> QED BY <1>4, <2>2
<1>5. ASSUME NEW i \in 1..t, NEW j \in 1..t, NEW x \in Nat, PieceOf(i, x), PieceOf(j, x)
      PROVE  i = j
  <2>1. /\ (i - 1) * C < x /\ x <= i * C
        /\ (j - 1) * C < x /\ x <= j * C
    BY <1>5 DEF PieceOf, C
  <2>2. ~(i < j) /\ ~(j < i)
    BY <1>4, <2>1
  <2> QED BY <1>1, <2>2
<1>6. \A x \in 1..n : \E i \in 1..t : PieceOf(i, x)
  BY <1>3 DEF PieceOf, C
<1> QED BY <1>1, <1>2, <1>5, <1>6 DEF t, C

LEMMA PiecesProperties ==
    ASSUME NEW list \in Seq(Contracts), \A i, j \in 1..Len(list) : list[i] = list[j] => i = j
    PROVE  LET p == Pieces(list) IN
           /\ p \in Seq(Seq(Contracts) \ {<<>>})
           /\ \A i \in 1..Len(p) : Len(p[i]) \in 1..ChunkLimit
           /\ UNION {ToSet(p[i]) : i \in 1..Len(p)} = ToSet(list)
           /\ \A i, j \in 1..Len(p) : i # j => ToSet(p[i]) \cap ToSet(p[j]) = {}
<1> DEFINE C == ChunkLimit
           n == Len(list)
           t == (n + C - 1) \div C
           p == Pieces(list)
<1>0. C \in Nat \ {0} /\ n \in Nat /\ \A x \in 1..n : list[x] \in Contracts
  BY LimitAssumption, LenProperties, ElementOfSeq
<1>1. p = [i \in 1..t |-> SubSeq(list, (i - 1) * C + 1, IF i * C > n THEN n ELSE i * C)]
  BY DEF Pieces
<1> HIDE DEF p
<1>2. /\ t \in Nat
      /\ \A i \in 1..t : (i - 1) * C \in Nat /\ (i - 1) * C < n
      /\ \A x \in 1..n : \E i \in 1..t : PieceOf(i, x)
      /\ \A i, j \in 1..t : \A x \in Nat : PieceOf(i, x) /\ PieceOf(j, x) => i = j
  BY <1>0, PiecesPartition
<1> HIDE DEF t, C, n
<1>3. ASSUME NEW i \in 1..t
      PROVE  /\ p[i] \in Seq(Contracts) /\ Len(p[i]) \in 1..C
             /\ \A c : c \in ToSet(p[i]) <=> \E x \in 1..n : PieceOf(i, x) /\ c = list[x]
  <2> DEFINE lo == (i - 1) * C
             hi == IF i * C > n THEN n ELSE i * C
  <2>1. lo \in Nat /\ lo < n /\ i * C = lo + C
    <3>1. i \in Nat
      BY <1>2
    <3> QED BY <1>0, <1>2, <3>1
  <2>2. p[i] = SubSeq(list, lo + 1, hi)
    BY <1>1, <1>3
  <2>3. hi = IF lo + C > n THEN n ELSE lo + C
    BY <2>1
  <2> HIDE DEF lo, hi
  <2>4. hi \in Nat /\ lo < hi /\ hi <= n /\ hi - lo <= C
    BY <1>0, <2>1, <2>3
  <2>5. \A x \in (lo + 1)..hi : list[x] \in Contracts
    BY <1>0, <2>1, <2>4
  <2>6. /\ p[i] \in Seq(Contracts)
        /\ Len(p[i]) = hi - lo
        /\ \A m \in 1..(hi - lo) : p[i][m] = list[lo + m]
    <3>1. /\ lo + 1 \in Int /\ hi \in Int /\ lo + 1 <= hi /\ hi - (lo + 1) + 1 = hi - lo
          /\ \A m \in 1..(hi - lo) : lo + 1 + m - 1 = lo + m
      BY <2>1, <2>4
    <3> QED BY <2>2, <2>5, <3>1, SubSeqProperties
  <2>7. ASSUME NEW y \in 1..n PROVE PieceOf(i, y) <=> lo < y /\ y <= hi
    <3>1. PieceOf(i, y) <=> lo < y /\ y <= lo + C
      BY <2>1 DEF PieceOf, lo, C
    <3> QED BY <1>0, <2>1, <2>3, <3>1
  <2>8. ToSet(p[i]) = {p[i][m] : m \in 1..(hi - lo)}
    BY <2>6, ToSetOfSeq
  <2>9. ASSUME NEW c, c \in ToSet(p[i]) PROVE \E x \in 1..n : PieceOf(i, x) /\ c = list[x]
    <3>1. PICK m \in 1..(hi - lo) : c = p[i][m]
      BY <2>8, <2>9
    <3>2. lo + m \in 1..n /\ lo < lo + m /\ lo + m <= hi /\ c = list[lo + m]
      BY <1>0, <2>1, <2>4, <2>6, <3>1
    <3> QED BY <2>7, <3>2
  <2>10. ASSUME NEW x \in 1..n, PieceOf(i, x) PROVE list[x] \in ToSet(p[i])
    <3>1. lo < x /\ x <= hi
      BY <2>7, <2>10
    <3>2. x - lo \in 1..(hi - lo) /\ lo + (x - lo) = x
      BY <1>0, <2>1, <2>4, <3>1
    <3>3. p[i][x - lo] = list[x]
      BY <2>6, <3>2
    <3> QED BY <2>8, <3>2, <3>3
  <2>11. Len(p[i]) \in 1..C
    BY <1>0, <2>1, <2>4, <2>6
  <2> QED BY <2>6, <2>9, <2>10, <2>11
<1>4. p \in Seq(Seq(Contracts) \ {<<>>}) /\ Len(p) = t
  <2>1. ASSUME NEW i \in 1..t PROVE p[i] \in Seq(Contracts) \ {<<>>}
    <3>1. p[i] # <<>>
      BY <1>0, <1>3
    <3> QED BY <1>3, <3>1
  <2>2. p = [i \in 1..t |-> p[i]]
    BY <1>1
  <2>3. p \in [1..t -> Seq(Contracts) \ {<<>>}]
    BY <2>1, <2>2
  <2> QED BY <1>2, <2>3, IsASeq, LenProperties
<1>5. UNION {ToSet(p[i]) : i \in 1..t} = ToSet(list)
  <2>1. ToSet(list) = {list[x] : x \in 1..n}
    BY ToSetOfSeq DEF n
  <2>2. ASSUME NEW i \in 1..t, NEW c \in ToSet(p[i]) PROVE c \in ToSet(list)
    <3>1. PICK x \in 1..n : c = list[x]
      BY <1>3
    <3> QED BY <2>1, <3>1
  <2>3. ASSUME NEW x \in 1..n PROVE \E i \in 1..t : list[x] \in ToSet(p[i])
    <3>1. PICK i \in 1..t : PieceOf(i, x)
      BY <1>2
    <3> QED BY <1>3, <3>1
  <2> QED BY <2>1, <2>2, <2>3
<1>6. ASSUME NEW i \in 1..t, NEW j \in 1..t, i # j PROVE ToSet(p[i]) \cap ToSet(p[j]) = {}
  <2> SUFFICES ASSUME NEW c \in ToSet(p[i]), c \in ToSet(p[j]) PROVE FALSE
    OBVIOUS
  <2>1. PICK x \in 1..n : PieceOf(i, x) /\ c = list[x]
    BY <1>3
  <2>2. PICK y \in 1..n : PieceOf(j, y) /\ c = list[y]
    BY <1>3
  <2>3. x = y
    BY <2>1, <2>2 DEF n
  <2> QED BY <1>0, <1>2, <1>6, <2>1, <2>2, <2>3
<1> QED BY <1>3, <1>4, <1>5, <1>6 DEF p, C

\* The totals of disjoint sets add up to the total of their union.
LEMMA SumOfSums ==
    ASSUME NEW D, IsFiniteSet(D), NEW sets, NEW f, NEW U, IsFiniteSet(U),
           \A i \in D : sets[i] \subseteq U,
           \A i, j \in D : i # j => sets[i] \cap sets[j] = {},
           \A x \in U : f[x] \in Nat
    PROVE  Sum([i \in D |-> Sum(f, sets[i])], D) = Sum(f, UNION {sets[i] : i \in D})
<1> DEFINE out == [i \in D |-> Sum(f, sets[i])]
           All(s) == UNION {sets[i] : i \in s}
           T == {s \in SUBSET D : Sum(out, s) # Sum(f, All(s))}
<1>0. T \in SUBSET SUBSET D
  OBVIOUS
<1>1. \A i \in D : out[i] = Sum(f, sets[i]) /\ out[i] \in Nat /\ IsFiniteSet(sets[i])
  <2> SUFFICES ASSUME NEW i \in D PROVE IsFiniteSet(sets[i]) /\ Sum(f, sets[i]) \in Nat
    OBVIOUS
  <2>1. IsFiniteSet(sets[i])
    BY FS_Subset
  <2> QED BY <2>1, SumType
<1> HIDE DEF out
<1>2. ASSUME T # {} PROVE FALSE
  <2>1. PICK x \in T : \A y \in T : y \subseteq x => y = x
    <3> HIDE DEF T
    <3> QED BY <1>0, <1>2, SmallestSet
  <2>2. x \in SUBSET D /\ IsFiniteSet(x) /\ Sum(out, x) # Sum(f, All(x))
    BY FS_Subset
  <2>3. x # {}
    <3>1. Sum(out, {}) = 0 /\ Sum(f, {}) = 0
      BY FS_EmptySet, SumUnfolds
    <3>2. All({}) = {}
      OBVIOUS
    <3> QED BY <2>2, <3>1, <3>2
  <2>4. PICK e \in x : TRUE
    BY <2>3
  <2>5. x \ {e} \notin T /\ x \ {e} \in SUBSET D
    BY <2>1, <2>2
  <2>6. Sum(out, x \ {e}) = Sum(f, All(x \ {e}))
    BY <2>5
  <2>7. Sum(out, x) = out[e] + Sum(out, x \ {e})
    BY <1>1, <2>2, SumTakes
  <2>8. /\ All(x) = sets[e] \cup All(x \ {e})
        /\ sets[e] \cap All(x \ {e}) = {}
        /\ All(x) \subseteq U /\ All(x \ {e}) \subseteq U /\ sets[e] \subseteq U
    BY <2>2
  <2> HIDE DEF All
  <2>9. IsFiniteSet(All(x \ {e})) /\ IsFiniteSet(sets[e])
    BY <2>8, FS_Subset
  <2>10. Sum(f, sets[e] \cup All(x \ {e})) = Sum(f, sets[e]) + Sum(f, All(x \ {e}))
    BY <2>8, <2>9, SumUnion
  <2>11. out[e] = Sum(f, sets[e])
    BY <1>1, <2>2
  <2> QED BY <2>2, <2>6, <2>7, <2>8, <2>10, <2>11
<1>3. D \notin T
  BY <1>2
<1> QED BY <1>3 DEF out
-----------------------------------------------------------------------------
\* Steps.  What the state says of the ledger, as functions of its values: the
\* holdings active after k updates, and that what was listed is what was active.
ActiveIn(us, k) ==
    LET Happened(e) == \E i \in 1..k : Contains(us[i], e)
    IN {id \in Contracts : Happened(Created(id)) /\ ~Happened(Archived(id))}

Snapshots == \A w \in Workers : seen[w] = ActiveIn(updates, pos[w])

LEMMA ActiveAtIsActiveIn == \A k : ActiveAt(k) = ActiveIn(updates, k)
BY DEF ActiveAt, ActiveIn

LEMMA ListingsAreThese == ListingsAreSnapshots <=> Snapshots
BY ActiveAtIsActiveIn DEF ListingsAreSnapshots, Snapshots

LEMMA ListingsAreTheseNext == ListingsAreSnapshots' <=> Snapshots'
BY ListingsAreThese, PTL

\* The ledger stays or is extended: what was known of it stays true.
Grown ==
    /\ updates' \in Seq(Seq(LedgerEvents)) /\ amountOf' \in Seq(Nat)
    /\ LedgerInOrder'
    /\ Len(updates) <= Len(updates')
    /\ \A k \in 0..Len(updates) : ActiveIn(updates', k) = ActiveIn(updates, k)
    /\ \A ids \in SUBSET (1..Len(amountOf)) : Sum(amountOf', ids) = Sum(amountOf, ids)

LEMMA GrownKept == HoldingsInv /\ UNCHANGED <<updates, amountOf>> => Grown
<1> SUFFICES ASSUME HoldingsInv, UNCHANGED <<updates, amountOf>> PROVE Grown
  OBVIOUS
<1>1. LedgerInOrder'
  <2>1. LedgerInOrder /\ UNCHANGED <<updates, amountOf>>
    BY DEF HoldingsInv
  <2> QED BY <2>1, Zenon DEF LedgerInOrder
<1>2. Len(updates) \in Nat
  BY UpdatesAreEvents DEF HoldingsInv
<1> QED BY <1>1, <1>2 DEF Grown, HoldingsInv, HoldingsTypeOK

LEMMA GrownByUpdate ==
    ASSUME HoldingsInv, NEW u, NEW new, Extends(u, new)
    PROVE  Grown
<1>1. HoldingsTypeOK /\ LedgerInOrder
  BY DEF HoldingsInv
<1>2. /\ updates' \in Seq(Seq(LedgerEvents)) /\ amountOf' \in Seq(Nat)
      /\ LedgerInOrder'
      /\ Len(updates') = Len(updates) + 1
      /\ \A k \in 0..Len(updates) : ActiveAt(k)' = ActiveAt(k)
      /\ \A id \in 1..Len(amountOf) : amountOf'[id] = amountOf[id]
  BY <1>1, LedgerGrows
<1>3. ASSUME NEW ids \in SUBSET (1..Len(amountOf)) PROVE Sum(amountOf', ids) = Sum(amountOf, ids)
  <2>1. IsFiniteSet(ids)
    BY <1>1, KnownTotals
  <2> QED BY <1>2, <2>1, SumAgrees
<1>4. ASSUME NEW k \in 0..Len(updates) PROVE ActiveIn(updates', k) = ActiveIn(updates, k)
  <2>1. ActiveAt(k)' = ActiveAt(k)
    BY <1>2
  <2> QED BY <2>1 DEF ActiveAt, ActiveIn
<1>5. Len(updates) \in Nat
  BY <1>1, UpdatesAreEvents
<1> QED BY <1>2, <1>3, <1>4, <1>5 DEF Grown

Outcomes == {"none", "listed", "error", "insufficient", "accepted", "rejected"}

LEMMA NothingActiveAtFirst == \A us : ActiveIn(us, 0) = {}
BY DEF ActiveIn

\* A goroutine whose listing is not touched keeps a snapshot.
LEMMA SnapshotKept ==
    ASSUME HoldingsInv, Grown, NEW v \in Workers, seen'[v] = seen[v], pos'[v] = pos[v]
    PROVE  seen'[v] = ActiveIn(updates', pos'[v])
<1>1. seen[v] = ActiveIn(updates, pos[v])
  BY ListingsAreThese DEF HoldingsInv, Snapshots
<1>2. pos[v] \in 0..Len(updates)
  BY UpdatesAreEvents, LimitAssumption DEF HoldingsInv, HoldingsTypeOK, CallsInOrder
<1> QED BY <1>1, <1>2 DEF Grown

\* A call that ends forgets its locals.
LEMMA ReturnKeepsInv ==
    ASSUME HoldingsInv, Grown, NEW w \in Workers, NEW how \in Outcomes, Return(w, how)
    PROVE  HoldingsInv'
<1> USE LimitAssumption
<1>0. /\ HoldingsTypeOK /\ CallsInOrder
      /\ Len(updates) \in Nat /\ Len(updates') \in Nat
  BY UpdatesAreEvents, LenProperties DEF HoldingsInv, Grown
<1>1. <<>> \in Seq(Seq(Contracts) \ {<<>>})
  BY EmptySeq
<1>2. HoldingsTypeOK'
  BY <1>0, <1>1 DEF HoldingsTypeOK, Grown, Return, Outcomes
<1>3. CallsInOrder'
  BY <1>0 DEF HoldingsTypeOK, CallsInOrder, Return, Grown
<1>4. ASSUME NEW v \in Workers PROVE seen'[v] = ActiveIn(updates', pos'[v])
  <2>1. CASE v = w
    <3>1. seen'[v] = {} /\ pos'[v] = 0
      BY <1>0, <2>1 DEF Return, HoldingsTypeOK
    <3> QED BY <3>1, NothingActiveAtFirst
  <2>2. CASE v # w
    <3>1. seen'[v] = seen[v] /\ pos'[v] = pos[v]
      BY <1>0, <2>2 DEF Return, HoldingsTypeOK
    <3> QED BY <3>1, SnapshotKept
  <2> QED BY <2>1, <2>2
<1>5. ListingsAreSnapshots'
  BY <1>4, ListingsAreTheseNext DEF Snapshots
<1> QED BY <1>2, <1>3, <1>5 DEF HoldingsInv, Grown

\* Receive and SpendElsewhere leave every goroutine's locals alone.
LEMMA LedgerStepKeepsInv ==
    ASSUME HoldingsInv, Grown, UNCHANGED locals
    PROVE  HoldingsInv'
<1>0. /\ HoldingsTypeOK /\ CallsInOrder
      /\ Len(updates) \in Nat /\ Len(updates') \in Nat
  BY UpdatesAreEvents, LenProperties DEF HoldingsInv, Grown
<1>1. HoldingsTypeOK'
  BY <1>0 DEF HoldingsTypeOK, Grown, locals
<1>2. CallsInOrder'
  BY <1>0, LimitAssumption DEF HoldingsTypeOK, CallsInOrder, Grown, locals
<1>3. \A v \in Workers : seen'[v] = ActiveIn(updates', pos'[v])
  BY SnapshotKept DEF locals
<1>4. ListingsAreSnapshots'
  BY <1>3, ListingsAreTheseNext DEF Snapshots
<1> QED BY <1>1, <1>2, <1>4 DEF HoldingsInv, Grown

LEMMA CallKeepsInv ==
    ASSUME HoldingsInv, NEW w \in Workers, NEW j \in {"list", "transfer", "merge"},
           NEW a \in Amounts \cup {0}, j = "transfer" => a \in Amounts, Call(w, j, a)
    PROVE  HoldingsInv'
<1>0. /\ HoldingsTypeOK /\ CallsInOrder /\ LedgerInOrder /\ Grown
      /\ Len(updates) \in Nat
  BY UpdatesAreEvents, GrownKept DEF HoldingsInv, Call
<1>1. HoldingsTypeOK'
  BY <1>0, LimitAssumption DEF HoldingsTypeOK, LedgerInOrder, Call
<1>2. CallsInOrder'
  BY <1>0, LimitAssumption DEF HoldingsTypeOK, CallsInOrder, Call
<1>3. \A v \in Workers : seen'[v] = ActiveIn(updates', pos'[v])
  BY <1>0, SnapshotKept DEF Call
<1>4. ListingsAreSnapshots'
  BY <1>3, ListingsAreTheseNext DEF Snapshots
<1> QED BY <1>0, <1>1, <1>2, <1>4 DEF HoldingsInv, Grown

LEMMA ReadUpdateKeepsInv ==
    ASSUME HoldingsInv, NEW w \in Workers, ReadUpdate(w)
    PROVE  HoldingsInv'
<1> USE LimitAssumption
<1>0. /\ HoldingsTypeOK /\ CallsInOrder /\ LedgerInOrder /\ Grown
      /\ Len(updates) \in Nat
  BY UpdatesAreEvents, GrownKept DEF HoldingsInv, ReadUpdate
<1>1. pos[w] \in Nat /\ pos[w] < Len(updates) /\ pos[w] + 1 \in 0..MaxUpdates
  BY <1>0 DEF HoldingsTypeOK, LedgerInOrder, ReadUpdate
<1>2. FoldLeft(Apply, seen[w], updates[pos[w] + 1]) = ActiveIn(updates, pos[w] + 1)
  <2>1. seen[w] = ActiveAt(pos[w])
    BY DEF HoldingsInv, ListingsAreSnapshots
  <2>2. FoldLeft(Apply, ActiveAt(pos[w]), updates[pos[w] + 1]) = ActiveAt(pos[w] + 1)
    BY <1>0, <1>1, ActiveAtNext
  <2> QED BY <2>1, <2>2, ActiveAtIsActiveIn
<1>3. /\ pos' = [pos EXCEPT ![w] = @ + 1]
      /\ seen' = [seen EXCEPT ![w] = ActiveIn(updates, pos[w] + 1)]
  BY <1>2 DEF ReadUpdate
<1>4. HoldingsTypeOK'
  <2>1. ActiveIn(updates, pos[w] + 1) \in SUBSET Contracts
    BY DEF ActiveIn
  <2> QED BY <1>0, <1>1, <1>3, <2>1 DEF HoldingsTypeOK, ReadUpdate
<1>5. CallsInOrder'
  <2> DEFINE InOrder(v) ==
        /\ pos[v] <= Len(updates) /\ from[v] <= Len(updates)
        /\ IF pc[v] = "idle" THEN pos[v] = 0 ELSE outcome[v] = "none"
        /\ job[v] = "transfer" => amount[v] \in Amounts
        /\ pc[v] \in {"choose", "submit"} => job[v] # "list"
  <2>1. UNCHANGED <<updates, pc, job, amount, outcome, from>> /\ pc[w] = "listing"
    BY DEF ReadUpdate
  <2>2. \A v \in Workers : InOrder(v)
    BY <1>0 DEF CallsInOrder
  <2>3. /\ pos'[w] = pos[w] + 1 /\ pos[w] + 1 <= Len(updates)
        /\ \A v \in Workers : v # w => pos'[v] = pos[v]
    BY <1>0, <1>1, <1>3 DEF HoldingsTypeOK
  <2>4. ASSUME NEW v \in Workers PROVE InOrder(v)'
    <3>1. CASE v = w
      BY <2>1, <2>2, <2>3, <3>1
    <3>2. CASE v # w
      BY <2>1, <2>2, <2>3, <3>2
    <3> QED BY <3>1, <3>2
  <2> QED BY <2>4 DEF CallsInOrder
<1>6. ASSUME NEW v \in Workers PROVE seen'[v] = ActiveIn(updates', pos'[v])
  <2>1. CASE v = w
    BY <1>0, <1>3, <2>1 DEF HoldingsTypeOK, ReadUpdate
  <2>2. CASE v # w
    BY <1>0, <1>3, <2>2, SnapshotKept DEF HoldingsTypeOK
  <2> QED BY <2>1, <2>2
<1>7. ListingsAreSnapshots'
  BY <1>6, ListingsAreTheseNext DEF Snapshots
<1> QED BY <1>0, <1>4, <1>5, <1>7 DEF HoldingsInv, Grown

\* What was listed stays, and commands may be built from it.
LEMMA ChosenKeepsInv ==
    ASSUME HoldingsInv, NEW w \in Workers, UNCHANGED <<updates, amountOf>>,
           UNCHANGED <<job, amount, pos, seen, outcome, from>>, job[w] # "list", pc[w] # "idle",
           chunks' \in [Workers -> Seq(Seq(Contracts) \ {<<>>})],
           pc' = [pc EXCEPT ![w] = "choose"] \/ pc' = [pc EXCEPT ![w] = "submit"]
    PROVE  HoldingsInv'
<1>0. HoldingsTypeOK /\ CallsInOrder /\ Grown
  BY GrownKept DEF HoldingsInv
<1>1. HoldingsTypeOK'
  BY <1>0 DEF HoldingsTypeOK
<1>2. CallsInOrder'
  BY <1>0 DEF HoldingsTypeOK, CallsInOrder
<1>3. \A v \in Workers : seen'[v] = ActiveIn(updates', pos'[v])
  BY <1>0, SnapshotKept
<1>4. ListingsAreSnapshots'
  BY <1>3, ListingsAreTheseNext DEF Snapshots
<1> QED BY <1>0, <1>1, <1>2, <1>4 DEF HoldingsInv, Grown

LEMMA StopListingKeepsInv ==
    ASSUME HoldingsInv, NEW w \in Workers, StopListing(w)
    PROVE  HoldingsInv'
<1>0. /\ HoldingsTypeOK /\ CallsInOrder /\ Grown /\ "listed" \in Outcomes
      /\ pc[w] = "listing" /\ UNCHANGED <<updates, amountOf>>
  BY GrownKept DEF HoldingsInv, StopListing, Outcomes
<1>1. CASE Return(w, "listed")
  BY <1>0, <1>1, ReturnKeepsInv
<1>2. CASE /\ pc' = [pc EXCEPT ![w] = "choose"] /\ job[w] # "list"
           /\ UNCHANGED <<job, amount, pos, seen, chunks, outcome, from>>
  BY <1>0, <1>2, ChosenKeepsInv DEF HoldingsTypeOK
<1> QED BY <1>1, <1>2 DEF StopListing

LEMMA ListingFailsKeepsInv ==
    ASSUME HoldingsInv, NEW w \in Workers, ListingFails(w)
    PROVE  HoldingsInv'
BY GrownKept, ReturnKeepsInv DEF ListingFails, Outcomes

\* The inputs CreateTransfer chooses from a listing.
LEMMA ChosenInputs ==
    ASSUME HoldingsInv, NEW w \in Workers, pc[w] = "choose", job[w] = "transfer",
           NEW list \in Listings(w, ListLimit)
    PROVE  LET inputs == Taken(list, amount[w]) IN
           /\ inputs \in Seq(Contracts) /\ ToSet(inputs) \subseteq seen[w]
           /\ TotalOf(ToSet(inputs)) \in Nat /\ amount[w] \in Nat
           /\ ~(TotalOf(ToSet(inputs)) < amount[w])
              => inputs # <<>> /\ TotalOf(ToSet(Front(inputs))) < amount[w]
           /\ TotalOf(ToSet(inputs)) < amount[w] /\ Admin = "party"
              => inputs = list
<1> DEFINE inputs == Taken(list, amount[w])
<1>1. HoldingsTypeOK /\ LedgerInOrder /\ CallsInOrder
  BY DEF HoldingsInv
<1>2. amount[w] \in Nat \ {0}
  BY <1>1, AmountAssumption DEF CallsInOrder
<1>3. list \in Seq(Contracts) /\ ToSet(list) \subseteq seen[w]
  BY <1>1, LimitAssumption, ListingProperties
<1>4. seen[w] \subseteq 1..Len(amountOf)
  <2>1. seen[w] = ActiveAt(pos[w])
    BY DEF HoldingsInv, ListingsAreSnapshots
  <2>2. pos[w] \in 0..Len(updates)
    BY <1>1, UpdatesAreEvents, LimitAssumption DEF CallsInOrder, HoldingsTypeOK
  <2> QED BY <1>1, <2>1, <2>2, ActiveIsNumbered
<1>5. /\ inputs \in Seq(Contracts) /\ ToSet(inputs) \subseteq ToSet(list)
      /\ TotalOf(ToSet(inputs)) \in Nat
      /\ TotalOf(ToSet(inputs)) >= amount[w]
         => inputs # <<>> /\ TotalOf(ToSet(Front(inputs))) < amount[w]
      /\ TotalOf(ToSet(inputs)) < amount[w] /\ Admin = "party" => inputs = list
  BY <1>1, <1>2, <1>3, <1>4, TakenProperties
<1> HIDE DEF inputs
<1>6. /\ inputs \in Seq(Contracts) /\ ToSet(inputs) \subseteq seen[w]
      /\ TotalOf(ToSet(inputs)) \in Nat /\ amount[w] \in Nat
      /\ ~(TotalOf(ToSet(inputs)) < amount[w])
         => inputs # <<>> /\ TotalOf(ToSet(Front(inputs))) < amount[w]
      /\ TotalOf(ToSet(inputs)) < amount[w] /\ Admin = "party" => inputs = list
  BY <1>2, <1>3, <1>5
<1> QED BY <1>6 DEF inputs

\* CreateTransfer either fails for want of a balance or builds one command.
Builds(w, list) ==
    LET inputs == Taken(list, amount[w]) IN
    /\ ~(TotalOf(ToSet(inputs)) < amount[w])
    /\ chunks' = [chunks EXCEPT ![w] = <<inputs>>]
    /\ pc' = [pc EXCEPT ![w] = "submit"]
    /\ UNCHANGED <<job, amount, pos, seen, outcome, from>>

LEMMA CreateTransferCases ==
    ASSUME NEW w \in Workers, CreateTransfer(w)
    PROVE  /\ pc[w] = "choose" /\ job[w] = "transfer" /\ UNCHANGED <<updates, amountOf>>
           /\ \E list \in Listings(w, ListLimit) :
                 \/ Builds(w, list)
                 \/ /\ TotalOf(ToSet(Taken(list, amount[w]))) < amount[w]
                    /\ Return(w, "insufficient")
BY DEF CreateTransfer, Builds

LEMMA CreateTransferKeepsInv ==
    ASSUME HoldingsInv, NEW w \in Workers, CreateTransfer(w)
    PROVE  HoldingsInv'
<1>0. /\ pc[w] = "choose" /\ job[w] = "transfer" /\ UNCHANGED <<updates, amountOf>>
      /\ HoldingsTypeOK /\ Grown /\ "insufficient" \in Outcomes
  BY CreateTransferCases, GrownKept DEF HoldingsInv, Outcomes, CallsInOrder
<1>1. PICK list \in Listings(w, ListLimit) :
         Builds(w, list) \/ Return(w, "insufficient")
  BY CreateTransferCases
<1>2. CASE Return(w, "insufficient")
  BY <1>0, <1>2, ReturnKeepsInv
<1>3. CASE Builds(w, list)
  <2> DEFINE inputs == Taken(list, amount[w])
  <2>1. inputs \in Seq(Contracts) /\ inputs # <<>>
    BY <1>0, <1>3, ChosenInputs DEF Builds
  <2>2. chunks' = [chunks EXCEPT ![w] = <<inputs>>] /\ pc' = [pc EXCEPT ![w] = "submit"]
        /\ UNCHANGED <<job, amount, pos, seen, outcome, from>>
    BY <1>3 DEF Builds
  <2> HIDE DEF inputs
  <2>3. <<inputs>> \in Seq(Seq(Contracts) \ {<<>>})
    BY <2>1
  <2>4. chunks' \in [Workers -> Seq(Seq(Contracts) \ {<<>>})]
    BY <1>0, <2>2, <2>3 DEF HoldingsTypeOK
  <2> QED BY <1>0, <2>2, <2>4, ChosenKeepsInv
<1> QED BY <1>1, <1>2, <1>3

\* MergeHoldingUtxos either fails or builds the commands of all pieces.
LEMMA MergeCases ==
    ASSUME NEW w \in Workers, MergeHoldingUtxos(w, MaxContracts)
    PROVE  /\ pc[w] = "choose" /\ job[w] = "merge" /\ UNCHANGED <<updates, amountOf>>
           /\ \/ Return(w, "error")
              \/ /\ \E list \in Listings(w, MaxContracts) :
                       chunks' = [chunks EXCEPT ![w] = Pieces(list)]
                 /\ pc' = [pc EXCEPT ![w] = "submit"]
                 /\ UNCHANGED <<job, amount, pos, seen, outcome, from>>
BY DEF MergeHoldingUtxos

LEMMA ListedForMerge ==
    ASSUME HoldingsTypeOK, NEW w \in Workers, NEW list \in Listings(w, MaxContracts)
    PROVE  /\ list \in Seq(Contracts) /\ ToSet(list) = seen[w]
           /\ \A i, j \in 1..Len(list) : list[i] = list[j] => i = j
<1>1. seen[w] \subseteq 1..MaxContracts /\ MaxContracts \in Nat
  BY LimitAssumption DEF HoldingsTypeOK, Contracts
<1>2. Cardinality(seen[w]) <= MaxContracts
  <2>1. IsFiniteSet(1..MaxContracts) /\ Cardinality(1..MaxContracts) = MaxContracts
    BY <1>1, FS_Interval
  <2> QED BY <1>1, <2>1, FS_Subset
<1> QED BY <1>1, <1>2, ListingProperties

LEMMA MergeKeepsInv ==
    ASSUME HoldingsInv, NEW w \in Workers, MergeHoldingUtxos(w, MaxContracts)
    PROVE  HoldingsInv'
<1>0. /\ pc[w] = "choose" /\ job[w] = "merge" /\ UNCHANGED <<updates, amountOf>>
      /\ HoldingsTypeOK /\ Grown /\ "error" \in Outcomes
  BY MergeCases, GrownKept DEF HoldingsInv, Outcomes, CallsInOrder
<1>1. CASE Return(w, "error")
  BY <1>0, <1>1, ReturnKeepsInv
<1>2. CASE /\ \E list \in Listings(w, MaxContracts) :
                 chunks' = [chunks EXCEPT ![w] = Pieces(list)]
           /\ pc' = [pc EXCEPT ![w] = "submit"]
           /\ UNCHANGED <<job, amount, pos, seen, outcome, from>>
  <2>1. PICK list \in Listings(w, MaxContracts) : chunks' = [chunks EXCEPT ![w] = Pieces(list)]
    BY <1>2
  <2>2. Pieces(list) \in Seq(Seq(Contracts) \ {<<>>})
    BY <1>0, ListedForMerge, PiecesProperties
  <2>3. chunks' \in [Workers -> Seq(Seq(Contracts) \ {<<>>})]
    BY <1>0, <2>1, <2>2 DEF HoldingsTypeOK
  <2> QED BY <1>0, <1>2, <2>3, ChosenKeepsInv
<1> QED BY <1>1, <1>2, MergeCases

\* Receive adds an update of its own.
LEMMA ReceiveExtends ==
    ASSUME HoldingsInv, NEW a \in Amounts, NEW replaced \in BOOLEAN, Receive(a, replaced)
    PROVE  Grown
<1> DEFINE id == Len(amountOf) + 1
           u == IF replaced THEN <<Created(id), Archived(id), Created(id + 1)>> ELSE <<Created(id)>>
           new == IF replaced THEN <<a, a>> ELSE <<a>>
<1>1. Len(amountOf) \in Nat /\ a \in Nat
  BY UpdatesAreEvents, AmountAssumption DEF HoldingsInv
<1>2. /\ id \in Nat \ {0} /\ id + (IF replaced THEN 1 ELSE 0) <= MaxContracts
      /\ Len(updates) < MaxUpdates
      /\ updates' = Append(updates, u) /\ amountOf' = amountOf \o new
  BY <1>1 DEF Receive
<1>3. Created(id) \in LedgerEvents
  BY <1>1, <1>2, LimitAssumption DEF Created, LedgerEvents, Contracts
<1>4. CASE replaced
  <2>1. Created(id + 1) \in LedgerEvents /\ Archived(id) \in LedgerEvents
    BY <1>1, <1>2, <1>4, LimitAssumption DEF Created, Archived, LedgerEvents, Contracts
  <2>2. u \in Seq(LedgerEvents) /\ Len(u) = 3
        /\ u[1] = Created(id) /\ u[2] = Archived(id) /\ u[3] = Created(id + 1)
    BY <1>3, <1>4, <2>1
  <2>3. new \in Seq(Nat) /\ Len(new) = 2
    BY <1>1, <1>4
  <2> HIDE DEF u, new
  <2>4. \A m \in 1..Len(u) : m = 1 \/ m = 2 \/ m = 3
    BY <2>2
  <2>5. /\ \A m \in 1..Len(u) : u[m].created => u[m].id > Len(amountOf)
        /\ \A m \in 1..Len(u) : u[m].id <= Len(amountOf) + Len(new)
        /\ \A m, n \in 1..Len(u) : u[m].id = u[n].id /\ u[m].created /\ ~u[n].created => m < n
    BY <1>1, <2>2, <2>3, <2>4 DEF Created, Archived
  <2>6. Extends(u, new)
    BY <1>1, <1>2, <1>4, <2>2, <2>3, <2>5 DEF Extends
  <2> QED BY <2>6, GrownByUpdate
<1>5. CASE ~replaced
  <2>1. u \in Seq(LedgerEvents) /\ Len(u) = 1 /\ u[1] = Created(id)
    BY <1>3, <1>5
  <2>2. new \in Seq(Nat) /\ Len(new) = 1
    BY <1>1, <1>5
  <2> HIDE DEF u, new
  <2>3. \A m \in 1..Len(u) : u[m].id = id /\ u[m].created
    BY <2>1 DEF Created
  <2>4. Extends(u, new)
    BY <1>1, <1>2, <1>5, <2>1, <2>2, <2>3 DEF Extends
  <2> QED BY <2>4, GrownByUpdate
<1> QED BY <1>4, <1>5

\* SpendElsewhere archives a holding the ledger knows.
LEMMA SpendExtends ==
    ASSUME HoldingsInv, NEW id \in Contracts, SpendElsewhere(id)
    PROVE  Grown
<1> DEFINE u == <<Archived(id)>>
<1>1. /\ HoldingsTypeOK /\ LedgerInOrder /\ Len(updates) \in Nat /\ Len(amountOf) \in Nat
      /\ amountOf \in Seq(Nat)
  BY UpdatesAreEvents DEF HoldingsInv, HoldingsTypeOK
<1>2. id \in ActiveAt(Len(updates))
  BY DEF SpendElsewhere, Active
<1>3. id \in 1..Len(amountOf)
  BY <1>1, <1>2, ActiveIsNumbered
<1>4. u \in Seq(LedgerEvents) /\ Len(u) = 1 /\ u[1] = Archived(id)
  BY DEF Archived, LedgerEvents
<1>5. /\ Len(updates) < MaxUpdates /\ updates' = Append(updates, u) /\ amountOf' = amountOf
  BY DEF SpendElsewhere
<1> HIDE DEF u
<1>6. \A m \in 1..Len(u) : u[m].id = id /\ ~u[m].created
  BY <1>4 DEF Archived
<1>7. amountOf \o <<>> = amountOf /\ <<>> \in Seq(Nat) /\ Len(<<>>) = 0
  BY <1>1, ConcatEmptySeq
<1>8. Len(amountOf) + Len(<<>>) <= MaxContracts
  BY <1>1, <1>7 DEF LedgerInOrder
<1>9. Extends(u, <<>>)
  BY <1>1, <1>3, <1>4, <1>5, <1>6, <1>7, <1>8 DEF Extends
<1> QED BY <1>9, GrownByUpdate

\* A finite set, put in a sequence.
LEMMA SetToSeqIn ==
    ASSUME NEW S, IsFiniteSet(S)
    PROVE  Cardinality(S) \in Nat /\ SetToSeq(S) \in [1..Cardinality(S) -> S]
<1>1. Cardinality(S) \in Nat /\ ExistsBijection(1..Cardinality(S), S)
  BY FS_CardinalityType
<1>2. PICK f \in [1..Cardinality(S) -> S] : IsInjective(f)
  BY <1>1 DEF ExistsBijection, Bijection, Injection, IsInjective
<1> QED BY <1>1, <1>2 DEF SetToSeq

\* The ledger creates positive amounts for the party.
LEMMA ReturnedIsNew ==
    ASSUME HoldingsInv, NEW w \in Workers, Inputs(w) \subseteq 1..Len(amountOf)
    PROVE  Returned(w) \in Seq(Nat)
<1>1. HoldingsTypeOK
  BY DEF HoldingsInv
<1>2. amount[w] \in Nat
  <2>1. amount[w] \in Amounts \/ amount[w] = 0
    BY <1>1 DEF HoldingsTypeOK
  <2>2. \A a \in Amounts : a \in Nat
    BY AmountAssumption
  <2>3. CASE amount[w] \in Amounts
    BY <2>2, <2>3, Zenon
  <2>4. CASE amount[w] = 0
    BY <2>4
  <2> QED BY <2>1, <2>3, <2>4
<1>3. chunks[w] \in Seq(Seq(Contracts)) /\ Len(chunks[w]) \in Nat
  <2>1. chunks[w] \in Seq(Seq(Contracts) \ {<<>>})
    BY <1>1 DEF HoldingsTypeOK
  <2> QED BY <2>1, SeqMonotonic, LenProperties
<1>4. CASE job[w] = "transfer"
  <2> DEFINE change == TotalOf(Inputs(w)) - amount[w]
  <2>1. change \in Int
    BY <1>1, <1>2, KnownTotals
  <2>2. Returned(w) = IF change > 0 THEN <<change>> ELSE <<>>
    BY <1>4 DEF Returned
  <2> HIDE DEF change
  <2> QED BY <2>1, <2>2
<1>5. CASE job[w] # "transfer"
  <2>1. ASSUME NEW i \in 1..Len(chunks[w]) PROVE OutputOf(w, i) \in Nat
    <3>1. ToSet(chunks[w][i]) \subseteq 1..Len(amountOf)
      BY DEF Inputs
    <3>2. OutputOf(w, i) = TotalOf(ToSet(chunks[w][i]))
      BY <1>5 DEF OutputOf
    <3> QED BY <1>1, <3>1, <3>2, KnownTotals
  <2>2. Returned(w) = [i \in 1..Len(chunks[w]) |-> OutputOf(w, i)]
    BY <1>5 DEF Returned
  <2> QED BY <1>3, <2>1, <2>2, IsASeq
<1> QED BY <1>4, <1>5

Accepts(w) ==
    LET new == Returned(w) IN
    /\ Inputs(w) \subseteq Active
    /\ Len(updates) < MaxUpdates
    /\ Len(amountOf) + Len(new) <= MaxContracts
    /\ updates' = Append(updates,
         [i \in 1..Len(new) |-> Created(Len(amountOf) + i)]
         \o [i \in 1..Cardinality(Inputs(w)) |-> Archived(SetToSeq(Inputs(w))[i])])
    /\ amountOf' = amountOf \o new

LEMMA SubmitExtends ==
    ASSUME HoldingsInv, NEW w \in Workers, Accepts(w)
    PROVE  Grown
<1> DEFINE S == Inputs(w)
           new == Returned(w)
           c == Cardinality(S)
           made == [i \in 1..Len(new) |-> Created(Len(amountOf) + i)]
           spent == [i \in 1..c |-> Archived(SetToSeq(S)[i])]
           u == made \o spent
<1>1. /\ HoldingsTypeOK /\ LedgerInOrder /\ Len(updates) \in Nat /\ Len(amountOf) \in Nat
      /\ Len(amountOf) <= MaxContracts
  BY UpdatesAreEvents DEF HoldingsInv, LedgerInOrder
<1>2. S \subseteq Contracts /\ S \subseteq 1..Len(amountOf)
  <2>1. S \subseteq ActiveAt(Len(updates))
    BY DEF Accepts, Active
  <2> QED BY <1>1, <2>1, ActiveIsNumbered
<1>3. c \in Nat /\ SetToSeq(S) \in [1..c -> S]
  <2>1. IsFiniteSet(S)
    BY <1>1, <1>2, KnownTotals
  <2> HIDE DEF S
  <2> QED BY <2>1, SetToSeqIn
<1>4. new \in Seq(Nat) /\ Len(new) \in Nat /\ Len(amountOf) + Len(new) <= MaxContracts
  BY <1>2, ReturnedIsNew, LenProperties DEF Accepts
<1>5. Len(updates) < MaxUpdates /\ updates' = Append(updates, u) /\ amountOf' = amountOf \o new
  BY DEF Accepts
<1> HIDE DEF S, new, c
<1>6. ASSUME NEW i \in 1..Len(new)
      PROVE  made[i] \in LedgerEvents /\ made[i].created /\ made[i].id = Len(amountOf) + i
  BY <1>1, <1>4, LimitAssumption DEF Created, LedgerEvents, Contracts
<1>7. ASSUME NEW i \in 1..c
      PROVE  spent[i] \in LedgerEvents /\ ~spent[i].created /\ spent[i].id \in 1..Len(amountOf)
  BY <1>2, <1>3 DEF Archived, LedgerEvents
<1>8. /\ made \in Seq(LedgerEvents) /\ Len(made) = Len(new)
      /\ spent \in Seq(LedgerEvents) /\ Len(spent) = c
  <2>1. made \in [1..Len(new) -> LedgerEvents] /\ spent \in [1..c -> LedgerEvents]
    BY <1>6, <1>7
  <2> HIDE DEF made, spent
  <2>2. made \in Seq(LedgerEvents) /\ Len(made) = Len(new)
    BY <1>4, <2>1, IsASeq, LenProperties
  <2>3. spent \in Seq(LedgerEvents) /\ Len(spent) = c
    BY <1>3, <2>1, IsASeq, LenProperties
  <2> QED BY <2>2, <2>3
<1> HIDE DEF made, spent
<1>9. /\ u \in Seq(LedgerEvents) /\ Len(u) = Len(new) + c
      /\ \A m \in 1..Len(new) + c :
            u[m] = IF m <= Len(new) THEN made[m] ELSE spent[m - Len(new)]
  <2>1. /\ u \in Seq(LedgerEvents) /\ Len(u) = Len(made) + Len(spent)
        /\ \A m \in 1..Len(made) + Len(spent) :
              u[m] = IF m <= Len(made) THEN made[m] ELSE spent[m - Len(made)]
    BY <1>8, ConcatProperties
  <2> HIDE DEF u
  <2> QED BY <1>8, <2>1
<1> HIDE DEF u
<1>10. \A m \in 1..Len(u) :
          /\ m <= Len(new) => u[m].created /\ u[m].id = Len(amountOf) + m
          /\ m > Len(new) => ~u[m].created /\ u[m].id \in 1..Len(amountOf)
  <2> SUFFICES ASSUME NEW m \in 1..Len(u)
               PROVE  /\ m <= Len(new) => u[m].created /\ u[m].id = Len(amountOf) + m
                      /\ m > Len(new) => ~u[m].created /\ u[m].id \in 1..Len(amountOf)
    OBVIOUS
  <2>1. CASE m <= Len(new)
    <3>1. m \in 1..Len(new) /\ m \in 1..Len(new) + c
      BY <1>3, <1>4, <1>9, <2>1
    <3>2. u[m] = made[m]
      BY <1>9, <2>1, <3>1
    <3> QED BY <1>6, <2>1, <3>1, <3>2
  <2>2. CASE m > Len(new)
    <3>1. m - Len(new) \in 1..c
      BY <1>3, <1>4, <1>9, <2>2
    <3> QED BY <1>3, <1>4, <1>7, <1>9, <2>2, <3>1
  <2> QED BY <1>3, <1>4, <1>9, <2>1, <2>2
<1>11. /\ \A m \in 1..Len(u) : u[m].created => u[m].id > Len(amountOf)
       /\ \A m \in 1..Len(u) : u[m].id <= Len(amountOf) + Len(new)
       /\ \A m, n \in 1..Len(u) : u[m].id = u[n].id /\ u[m].created /\ ~u[n].created => m < n
  <2>0. \A m \in 1..Len(u) : m \in Nat /\ (m <= Len(new) \/ m > Len(new))
    BY <1>3, <1>4, <1>9
  <2>1. \A m \in 1..Len(u) : u[m].created => m <= Len(new) /\ u[m].id = Len(amountOf) + m
    BY <1>10, <2>0
  <2>2. \A m \in 1..Len(u) : ~u[m].created => m > Len(new) /\ u[m].id <= Len(amountOf)
    BY <1>1, <1>10, <2>0
  <2>3. \A m \in 1..Len(u) : m >= 1
    BY <1>3, <1>4, <1>9
  <2>4. ASSUME NEW m \in 1..Len(u)
        PROVE  /\ u[m].created => u[m].id > Len(amountOf)
               /\ u[m].id <= Len(amountOf) + Len(new)
    <3>1. CASE u[m].created
      BY <1>1, <1>4, <2>0, <2>1, <2>3, <3>1
    <3>2. CASE ~u[m].created
      <4>1. u[m].id \in Nat
        BY <1>1, <1>10, <2>0, <2>2, <3>2
      <4> QED BY <1>1, <1>4, <2>2, <3>2, <4>1
    <3> QED BY <3>1, <3>2
  <2>5. ASSUME NEW m \in 1..Len(u), NEW n \in 1..Len(u), u[m].created, ~u[n].created
        PROVE  m < n
    BY <1>4, <2>0, <2>1, <2>2, <2>5
  <2> QED BY <2>4, <2>5
<1>12. Extends(u, new)
  BY <1>4, <1>5, <1>9, <1>11 DEF Extends
<1> QED BY <1>12, GrownByUpdate

\* Submit's outcome.
LEMMA SubmitCases ==
    ASSUME NEW w \in Workers, Submit(w)
    PROVE  /\ pc[w] = "submit"
           /\ \/ Accepts(w) /\ Return(w, "accepted")
              \/ UNCHANGED <<updates, amountOf>> /\ Return(w, "rejected")
BY DEF Submit, Accepts

\* Whatever a step does, the ledger only grows.
LEMMA LedgerOnlyGrows == HoldingsInv /\ [Next]_vars => Grown
<1> SUFFICES ASSUME HoldingsInv, [Next]_vars PROVE Grown
  OBVIOUS
<1>1. CASE UNCHANGED <<updates, amountOf>>
  BY <1>1, GrownKept
<1>2. CASE ~UNCHANGED <<updates, amountOf>>
  <2>1. \/ \E w \in Workers : Submit(w)
        \/ \E a \in Amounts, replaced \in BOOLEAN : Receive(a, replaced)
        \/ \E id \in Contracts : SpendElsewhere(id)
    BY <1>2 DEF Next, vars, Call, ReadUpdate, StopListing, ListingFails, CreateTransfer,
                MergeHoldingUtxos
  <2>2. CASE \E w \in Workers : Submit(w)
    BY <1>2, <2>2, SubmitCases, SubmitExtends
  <2>3. CASE \E a \in Amounts, replaced \in BOOLEAN : Receive(a, replaced)
    BY <2>3, ReceiveExtends
  <2>4. CASE \E id \in Contracts : SpendElsewhere(id)
    BY <2>4, SpendExtends
  <2> QED BY <2>1, <2>2, <2>3, <2>4
<1> QED BY <1>1, <1>2

\* Init has the invariant.
LEMMA InitHoldingsInv == Init => HoldingsInv
<1> SUFFICES ASSUME Init PROVE HoldingsInv
  OBVIOUS
<1> USE LimitAssumption
<1>1. <<>> \in Seq(Seq(LedgerEvents)) /\ <<>> \in Seq(Nat) /\ <<>> \in Seq(Seq(Contracts) \ {<<>>})
      /\ Len(updates) = 0 /\ Len(amountOf) = 0
  BY EmptySeq DEF Init
<1>2. HoldingsTypeOK
  BY <1>1 DEF Init, HoldingsTypeOK
<1>3. LedgerInOrder
  BY <1>1 DEF LedgerInOrder
<1>4. CallsInOrder
  BY <1>1 DEF Init, CallsInOrder
<1>5. ListingsAreSnapshots
  BY ListingsAreThese, NothingActiveAtFirst DEF Init, Snapshots
<1> QED BY <1>2, <1>3, <1>4, <1>5 DEF HoldingsInv

\* Every step keeps it.
LEMMA NextHoldingsInv == HoldingsInv /\ [Next]_vars => HoldingsInv'
<1> SUFFICES ASSUME HoldingsInv, [Next]_vars PROVE HoldingsInv'
  OBVIOUS
<1>0. Grown
  BY LedgerOnlyGrows
<1>1. ASSUME NEW w \in Workers, NEW a \in Amounts, Call(w, "transfer", a) PROVE HoldingsInv'
  BY <1>1, CallKeepsInv
<1>2. ASSUME NEW w \in Workers, Call(w, "merge", 0) PROVE HoldingsInv'
  BY <1>2, CallKeepsInv
<1>3. ASSUME NEW w \in Workers, Call(w, "list", 0) PROVE HoldingsInv'
  BY <1>3, CallKeepsInv
<1>4. ASSUME NEW w \in Workers, ReadUpdate(w) PROVE HoldingsInv'
  BY <1>4, ReadUpdateKeepsInv
<1>5. ASSUME NEW w \in Workers, StopListing(w) PROVE HoldingsInv'
  BY <1>5, StopListingKeepsInv
<1>6. ASSUME NEW w \in Workers, ListingFails(w) PROVE HoldingsInv'
  BY <1>6, ListingFailsKeepsInv
<1>7. ASSUME NEW w \in Workers, CreateTransfer(w) PROVE HoldingsInv'
  BY <1>7, CreateTransferKeepsInv
<1>8. ASSUME NEW w \in Workers, MergeHoldingUtxos(w, MaxContracts) PROVE HoldingsInv'
  BY <1>8, MergeKeepsInv
<1>9. ASSUME NEW w \in Workers, Submit(w) PROVE HoldingsInv'
  BY <1>0, <1>9, SubmitCases, ReturnKeepsInv DEF Outcomes
<1>10. ASSUME NEW a \in Amounts, NEW replaced \in BOOLEAN, Receive(a, replaced)
       PROVE  HoldingsInv'
  BY <1>0, <1>10, LedgerStepKeepsInv DEF Receive
<1>11. ASSUME NEW id \in Contracts, SpendElsewhere(id) PROVE HoldingsInv'
  BY <1>0, <1>11, LedgerStepKeepsInv DEF SpendElsewhere
<1>12. CASE UNCHANGED vars
  BY <1>0, <1>12, LedgerStepKeepsInv DEF vars, locals
<1> QED
  BY <1>1, <1>2, <1>3, <1>4, <1>5, <1>6, <1>7, <1>8, <1>9, <1>10, <1>11, <1>12 DEF Next

\* Every reachable state is well typed, its ledger archives nothing before creating it,
\* and what each goroutine has folded so far is exactly what was active at one offset.
THEOREM HoldingsInvHolds == Spec => []HoldingsInv
BY InitHoldingsInv, NextHoldingsInv, PTL DEF Spec
-----------------------------------------------------------------------------
\* Inputs that cover what they move, again as functions of values.
All(p) == UNION {ToSet(p[i]) : i \in 1..Len(p)}

Moved(amounts, p) == [i \in 1..Len(p) |-> Sum(amounts, ToSet(p[i]))]

CoversTransfer(us, amounts, p, k, a) ==
    /\ All(p) \subseteq ActiveIn(us, k)
    /\ Sum(amounts, All(p)) >= a
    /\ Sum(amounts, ToSet(Front(p[1]))) < a

CoversMerge(amounts, p, s) ==
    /\ All(p) = s
    /\ \A i, j \in 1..Len(p) : i # j => ToSet(p[i]) \cap ToSet(p[j]) = {}
    /\ \A i \in 1..Len(p) : Len(p[i]) \in 1..ChunkLimit
    /\ Sum(amounts, s) = Sum(Moved(amounts, p), 1..Len(p))

Covers ==
    \A w \in Workers : pc[w] = "submit" =>
        /\ job[w] = "transfer" => CoversTransfer(updates, amountOf, chunks[w], pos[w], amount[w])
        /\ job[w] = "merge" => CoversMerge(amountOf, chunks[w], seen[w])

LEMMA InputsAreAll == \A w : Inputs(w) = All(chunks[w])
BY DEF Inputs, All

LEMMA MergeMoves ==
    ASSUME NEW w \in Workers, job[w] = "merge"
    PROVE  MergeCovers(w) <=> CoversMerge(amountOf, chunks[w], seen[w])
<1> DEFINE moved == [i \in 1..Len(chunks[w]) |-> OutputOf(w, i)]
<1>1. moved = Moved(amountOf, chunks[w])
  BY TotalIsSum DEF OutputOf, Moved
<1>2. MapThenSumSet(LAMBDA i : moved[i], 1..Len(chunks[w])) = Sum(moved, 1..Len(chunks[w]))
  BY DEF Sum
<1>3. MergeCovers(w) <=>
        /\ Inputs(w) = seen[w]
        /\ \A i, j \in 1..Len(chunks[w]) :
              i # j => ToSet(chunks[w][i]) \cap ToSet(chunks[w][j]) = {}
        /\ \A i \in 1..Len(chunks[w]) : Len(chunks[w][i]) \in 1..ChunkLimit
        /\ TotalOf(seen[w]) = MapThenSumSet(LAMBDA i : moved[i], 1..Len(chunks[w]))
  BY DEF MergeCovers
<1> HIDE DEF moved
<1> QED BY <1>1, <1>2, <1>3, InputsAreAll, TotalIsSum DEF CoversMerge

LEMMA InputsCoverIsCovers == InputsCover <=> Covers
<1>1. ASSUME NEW w \in Workers
      PROVE  SelectionCovers(w) <=>
                 CoversTransfer(updates, amountOf, chunks[w], pos[w], amount[w])
  BY InputsAreAll, TotalIsSum, ActiveAtIsActiveIn DEF SelectionCovers, CoversTransfer
<1> QED BY <1>1, MergeMoves DEF InputsCover, Covers

LEMMA InputsCoverIsCoversNext == InputsCover' <=> Covers'
BY InputsCoverIsCovers, PTL

\* What a goroutine listed are holdings the ledger knows.
LEMMA SeenIsKnown ==
    ASSUME HoldingsInv, NEW w \in Workers
    PROVE  /\ pos[w] \in 0..Len(updates)
           /\ ActiveIn(updates, pos[w]) = seen[w]
           /\ seen[w] \subseteq 1..Len(amountOf)
<1>1. HoldingsTypeOK /\ LedgerInOrder
  BY DEF HoldingsInv
<1>2. pos[w] \in 0..Len(updates)
  BY <1>1, UpdatesAreEvents, LimitAssumption DEF HoldingsInv, CallsInOrder, HoldingsTypeOK
<1>3. seen[w] = ActiveAt(pos[w])
  BY DEF HoldingsInv, ListingsAreSnapshots
<1>4. ActiveAt(pos[w]) \subseteq 1..Len(amountOf)
  BY <1>1, <1>2, ActiveIsNumbered
<1> QED BY <1>2, <1>3, <1>4, ActiveAtIsActiveIn

LEMMA FrontIn ==
    ASSUME NEW S, NEW s \in Seq(S), s # <<>>
    PROVE  ToSet(Front(s)) \subseteq ToSet(s)
<1>1. Len(s) \in Nat /\ Len(s) # 0
  BY LenProperties, EmptySeq
<1>2. Len(s) - 1 \in 0..Len(s) /\ Front(s) = SubSeq(s, 1, Len(s) - 1)
  BY <1>1 DEF Front
<1>3. ToSet(Front(s)) = {s[i] : i \in 1..(Len(s) - 1)}
  BY <1>2, Prefix
<1>4. ToSet(s) = {s[i] : i \in 1..Len(s)}
  BY ToSetOfSeq
<1> QED BY <1>1, <1>3, <1>4

\* A transfer's inputs stay covering while the ledger grows.
LEMMA TransferStaysCovered ==
    ASSUME HoldingsInv, Grown, NEW v \in Workers, job[v] = "transfer",
           CoversTransfer(updates, amountOf, chunks[v], pos[v], amount[v])
    PROVE  CoversTransfer(updates', amountOf', chunks[v], pos[v], amount[v])
<1> DEFINE p == chunks[v]
<1>0. /\ p \in Seq(Seq(Contracts) \ {<<>>}) /\ Len(p) \in Nat
      /\ amount[v] \in Nat \ {0}
  <2>1. p \in Seq(Seq(Contracts) \ {<<>>}) /\ amount[v] \in Amounts
    BY DEF HoldingsInv, HoldingsTypeOK, CallsInOrder
  <2> QED BY <2>1, LenProperties, AmountAssumption
<1>1. All(p) \subseteq 1..Len(amountOf) /\ ActiveIn(updates', pos[v]) = ActiveIn(updates, pos[v])
  BY SeenIsKnown DEF CoversTransfer, Grown
<1>2. Sum(amountOf', All(p)) = Sum(amountOf, All(p))
  BY <1>1 DEF Grown
<1>3. All(p) # {}
  <2>1. Sum(amountOf, {}) = 0
    BY FS_EmptySet, SumUnfolds
  <2>2. Sum(amountOf, All(p)) >= amount[v]
    BY DEF CoversTransfer
  <2>3. ~(0 >= amount[v])
    BY <1>0
  <2> QED BY <2>1, <2>2, <2>3, Zenon
<1>4. 1 \in 1..Len(p)
  BY <1>0, <1>3 DEF All
<1>5. p[1] \in Seq(Contracts) /\ p[1] # <<>>
  BY <1>0, <1>4, ElementOfSeq
<1>6. ToSet(Front(p[1])) \subseteq All(p)
  <2>1. ToSet(Front(p[1])) \subseteq ToSet(p[1])
    BY <1>5, FrontIn
  <2> QED BY <1>4, <2>1 DEF All
<1>7. Sum(amountOf', ToSet(Front(p[1]))) = Sum(amountOf, ToSet(Front(p[1])))
  BY <1>1, <1>6 DEF Grown
<1> QED BY <1>1, <1>2, <1>7 DEF CoversTransfer

LEMMA MergeStaysCovered ==
    ASSUME HoldingsInv, Grown, NEW v \in Workers, CoversMerge(amountOf, chunks[v], seen[v])
    PROVE  CoversMerge(amountOf', chunks[v], seen[v])
<1> DEFINE p == chunks[v]
<1>1. All(p) = seen[v] /\ seen[v] \subseteq 1..Len(amountOf)
  BY SeenIsKnown DEF CoversMerge
<1>2. Sum(amountOf', seen[v]) = Sum(amountOf, seen[v])
  BY <1>1 DEF Grown
<1>3. ASSUME NEW i \in 1..Len(p) PROVE Sum(amountOf', ToSet(p[i])) = Sum(amountOf, ToSet(p[i]))
  <2>1. ToSet(p[i]) \subseteq All(p)
    BY DEF All
  <2> QED BY <1>1, <2>1 DEF Grown
<1>4. Moved(amountOf', p) = Moved(amountOf, p)
  BY <1>3 DEF Moved
<1> QED BY <1>2, <1>4 DEF CoversMerge

LEMMA StaysCovered ==
    ASSUME HoldingsInv, Grown, Covers, NEW v \in Workers, pc'[v] = "submit" => pc[v] = "submit",
           job'[v] = job[v], amount'[v] = amount[v], pos'[v] = pos[v], seen'[v] = seen[v],
           chunks'[v] = chunks[v]
    PROVE  pc'[v] = "submit" =>
             /\ job'[v] = "transfer" =>
                   CoversTransfer(updates', amountOf', chunks'[v], pos'[v], amount'[v])
             /\ job'[v] = "merge" => CoversMerge(amountOf', chunks'[v], seen'[v])
BY TransferStaysCovered, MergeStaysCovered DEF Covers

\* The command CreateTransfer builds covers the amount.
LEMMA TransferBuilt ==
    ASSUME HoldingsInv, NEW w \in Workers, pc[w] = "choose", job[w] = "transfer",
           NEW list \in Listings(w, ListLimit),
           ~(TotalOf(ToSet(Taken(list, amount[w]))) < amount[w])
    PROVE  CoversTransfer(updates, amountOf, <<Taken(list, amount[w])>>, pos[w], amount[w])
<1> DEFINE inputs == Taken(list, amount[w])
           p == <<inputs>>
<1>1. /\ inputs \in Seq(Contracts) /\ ToSet(inputs) \subseteq seen[w]
      /\ TotalOf(ToSet(inputs)) \in Nat /\ amount[w] \in Nat
      /\ TotalOf(ToSet(Front(inputs))) < amount[w]
      /\ ~(TotalOf(ToSet(inputs)) < amount[w])
  BY ChosenInputs
<1> HIDE DEF inputs
<1>2. p[1] = inputs /\ Len(p) = 1
  OBVIOUS
<1> HIDE DEF p
<1>3. All(p) = ToSet(inputs)
  BY <1>2 DEF All
<1>4. CoversTransfer(updates, amountOf, p, pos[w], amount[w])
  BY <1>1, <1>2, <1>3, SeenIsKnown, TotalIsSum DEF CoversTransfer
<1> QED BY <1>4 DEF inputs, p

\* The commands of a merge move everything listed.
LEMMA MergeBuilt ==
    ASSUME HoldingsInv, NEW w \in Workers, NEW list \in Listings(w, MaxContracts)
    PROVE  CoversMerge(amountOf, Pieces(list), seen[w])
<1> DEFINE p == Pieces(list)
           D == 1..Len(p)
           sets == [i \in D |-> ToSet(p[i])]
<1>1. /\ list \in Seq(Contracts) /\ ToSet(list) = seen[w]
      /\ \A i, j \in 1..Len(list) : list[i] = list[j] => i = j
  BY ListedForMerge DEF HoldingsInv
<1>2. /\ p \in Seq(Seq(Contracts) \ {<<>>})
      /\ \A i \in 1..Len(p) : Len(p[i]) \in 1..ChunkLimit
      /\ UNION {ToSet(p[i]) : i \in 1..Len(p)} = ToSet(list)
      /\ \A i, j \in 1..Len(p) : i # j => ToSet(p[i]) \cap ToSet(p[j]) = {}
  BY <1>1, PiecesProperties
<1> HIDE DEF p
<1>3. All(p) = seen[w]
  BY <1>1, <1>2 DEF All
<1>4. IsFiniteSet(D) /\ IsFiniteSet(seen[w]) /\ \A x \in seen[w] : amountOf[x] \in Nat
  <2>1. Len(p) \in Nat
    BY <1>2, LenProperties
  <2>2. \A x \in 1..Len(amountOf) : amountOf[x] \in Nat
    BY ElementOfSeq DEF HoldingsInv, HoldingsTypeOK
  <2>3. seen[w] \subseteq 1..Len(amountOf)
    BY SeenIsKnown
  <2>4. IsFiniteSet(seen[w])
    BY <2>3, KnownTotals DEF HoldingsInv
  <2>5. IsFiniteSet(1..Len(p))
    BY <2>1, FS_Interval
  <2>6. \A x \in seen[w] : amountOf[x] \in Nat
    BY <2>2, <2>3, Zenon
  <2> QED BY <2>4, <2>5, <2>6
<1>5. /\ \A i \in D : sets[i] \subseteq seen[w]
      /\ \A i, j \in D : i # j => sets[i] \cap sets[j] = {}
      /\ UNION {sets[i] : i \in D} = seen[w]
      /\ Moved(amountOf, p) = [i \in D |-> Sum(amountOf, sets[i])]
  BY <1>2, <1>3 DEF All, Moved
<1> HIDE DEF D, sets
<1>6. Sum([i \in D |-> Sum(amountOf, sets[i])], D) = Sum(amountOf, UNION {sets[i] : i \in D})
  BY <1>4, <1>5, SumOfSums
<1>7. Sum(amountOf, seen[w]) = Sum(Moved(amountOf, p), D)
  BY <1>5, <1>6
<1>8. CoversMerge(amountOf, p, seen[w])
  BY <1>2, <1>3, <1>7 DEF CoversMerge, D
<1> QED BY <1>8 DEF p

\* A step of w leaves the locals of the others alone.
SparesOthers(w) ==
    \A v \in Workers : v # w =>
        /\ pc'[v] = pc[v] /\ job'[v] = job[v] /\ amount'[v] = amount[v] /\ pos'[v] = pos[v]
        /\ seen'[v] = seen[v] /\ chunks'[v] = chunks[v]

LEMMA StepKeepsCovers ==
    ASSUME HoldingsInv, Grown, Covers, NEW w \in Workers, SparesOthers(w),
           pc'[w] = "submit" =>
             /\ job'[w] = "transfer" =>
                   CoversTransfer(updates', amountOf', chunks'[w], pos'[w], amount'[w])
             /\ job'[w] = "merge" => CoversMerge(amountOf', chunks'[w], seen'[w])
    PROVE  Covers'
<1> SUFFICES ASSUME NEW v \in Workers
             PROVE  pc'[v] = "submit" =>
                /\ job'[v] = "transfer" =>
                      CoversTransfer(updates', amountOf', chunks'[v], pos'[v], amount'[v])
                /\ job'[v] = "merge" => CoversMerge(amountOf', chunks'[v], seen'[v])
  BY DEF Covers
<1>1. CASE v = w
  BY <1>1
<1>2. CASE v # w
  BY <1>2, StaysCovered DEF SparesOthers
<1> QED BY <1>1, <1>2

LEMMA ReturnSpares ==
    ASSUME HoldingsTypeOK, NEW w \in Workers, NEW how, Return(w, how)
    PROVE  SparesOthers(w) /\ pc'[w] # "submit"
BY DEF HoldingsTypeOK, Return, SparesOthers

LEMMA CreateTransferCovers ==
    ASSUME HoldingsInv, Grown, Covers, NEW w \in Workers, CreateTransfer(w)
    PROVE  Covers'
<1>1. /\ pc[w] = "choose" /\ job[w] = "transfer" /\ UNCHANGED <<updates, amountOf>>
      /\ HoldingsTypeOK
  BY CreateTransferCases DEF HoldingsInv
<1>2. PICK list \in Listings(w, ListLimit) : Builds(w, list) \/ Return(w, "insufficient")
  BY CreateTransferCases
<1>3. CASE Return(w, "insufficient")
  BY <1>1, <1>3, ReturnSpares, StepKeepsCovers
<1>4. CASE Builds(w, list)
  <2>1. CoversTransfer(updates, amountOf, <<Taken(list, amount[w])>>, pos[w], amount[w])
    BY <1>1, <1>4, TransferBuilt DEF Builds
  <2>2. /\ chunks' = [chunks EXCEPT ![w] = <<Taken(list, amount[w])>>]
        /\ pc' = [pc EXCEPT ![w] = "submit"]
        /\ UNCHANGED <<job, amount, pos, seen>>
    BY <1>4 DEF Builds
  <2>3. chunks'[w] = <<Taken(list, amount[w])>> /\ SparesOthers(w)
    BY <1>1, <2>2 DEF HoldingsTypeOK, SparesOthers
  <2>4. job'[w] # "merge"
    BY <1>1, <2>2
  <2> QED BY <1>1, <2>1, <2>2, <2>3, <2>4, StepKeepsCovers
<1> QED BY <1>2, <1>3, <1>4

LEMMA MergeCoversAll ==
    ASSUME HoldingsInv, Grown, Covers, NEW w \in Workers, MergeHoldingUtxos(w, MaxContracts)
    PROVE  Covers'
<1>1. /\ job[w] = "merge" /\ UNCHANGED <<updates, amountOf>> /\ HoldingsTypeOK
  BY MergeCases DEF HoldingsInv
<1>2. CASE Return(w, "error")
  BY <1>1, <1>2, ReturnSpares, StepKeepsCovers
<1>3. CASE /\ \E list \in Listings(w, MaxContracts) :
                 chunks' = [chunks EXCEPT ![w] = Pieces(list)]
           /\ pc' = [pc EXCEPT ![w] = "submit"]
           /\ UNCHANGED <<job, amount, pos, seen, outcome, from>>
  <2>1. PICK list \in Listings(w, MaxContracts) : chunks' = [chunks EXCEPT ![w] = Pieces(list)]
    BY <1>3
  <2>2. CoversMerge(amountOf, Pieces(list), seen[w])
    BY MergeBuilt
  <2>3. chunks'[w] = Pieces(list) /\ SparesOthers(w)
    BY <1>1, <1>3, <2>1 DEF HoldingsTypeOK, SparesOthers
  <2>4. job'[w] # "transfer" /\ seen'[w] = seen[w]
    BY <1>1, <1>3
  <2> QED BY <1>1, <2>2, <2>3, <2>4, StepKeepsCovers
<1> QED BY <1>2, <1>3, MergeCases

\* Every step keeps the commands covered.
LEMMA NextCovers == HoldingsInv /\ Covers /\ [Next]_vars => Covers'
<1> SUFFICES ASSUME HoldingsInv, Covers, [Next]_vars PROVE Covers'
  OBVIOUS
<1>0. Grown /\ HoldingsTypeOK
  BY LedgerOnlyGrows DEF HoldingsInv
<1>1. ASSUME NEW w \in Workers, NEW j, NEW a, Call(w, j, a) PROVE Covers'
  <2>1. SparesOthers(w) /\ pc'[w] # "submit"
    BY <1>0, <1>1 DEF Call, HoldingsTypeOK, SparesOthers
  <2> QED BY <1>0, <2>1, StepKeepsCovers
<1>2. ASSUME NEW w \in Workers, ReadUpdate(w) PROVE Covers'
  <2>1. SparesOthers(w) /\ pc'[w] # "submit"
    BY <1>0, <1>2 DEF ReadUpdate, HoldingsTypeOK, SparesOthers
  <2> QED BY <1>0, <2>1, StepKeepsCovers
<1>3. ASSUME NEW w \in Workers, StopListing(w) PROVE Covers'
  <2>1. CASE Return(w, "listed")
    BY <1>0, <2>1, ReturnSpares, StepKeepsCovers
  <2>2. CASE /\ pc' = [pc EXCEPT ![w] = "choose"]
             /\ UNCHANGED <<job, amount, pos, seen, chunks, outcome, from>>
    <3>1. SparesOthers(w) /\ pc'[w] # "submit"
      BY <1>0, <2>2 DEF HoldingsTypeOK, SparesOthers
    <3> QED BY <1>0, <3>1, StepKeepsCovers
  <2> QED BY <1>3, <2>1, <2>2 DEF StopListing
<1>4. ASSUME NEW w \in Workers, ListingFails(w) PROVE Covers'
  BY <1>0, <1>4, ReturnSpares, StepKeepsCovers DEF ListingFails
<1>5. ASSUME NEW w \in Workers, CreateTransfer(w) PROVE Covers'
  BY <1>0, <1>5, CreateTransferCovers
<1>6. ASSUME NEW w \in Workers, MergeHoldingUtxos(w, MaxContracts) PROVE Covers'
  BY <1>0, <1>6, MergeCoversAll
<1>7. ASSUME NEW w \in Workers, Submit(w) PROVE Covers'
  <2>1. Return(w, "accepted") \/ Return(w, "rejected")
    BY <1>7, SubmitCases
  <2> QED BY <1>0, <2>1, ReturnSpares, StepKeepsCovers
<1>8. ASSUME UNCHANGED locals PROVE Covers'
  BY <1>0, <1>8, StaysCovered DEF locals, Covers
<1>9. \/ \E a \in Amounts, replaced \in BOOLEAN : Receive(a, replaced)
      \/ \E id \in Contracts : SpendElsewhere(id)
      \/ UNCHANGED vars
      => UNCHANGED locals
  BY DEF Receive, SpendElsewhere, vars, locals
<1> QED
  BY <1>1, <1>2, <1>3, <1>4, <1>5, <1>6, <1>7, <1>8, <1>9 DEF Next

\* Whatever the ledger does in between, the inputs of every command about to be
\* submitted cover what it moves: a transfer's were all active at one offset, reach
\* its amount and would not without the last of them; a merge spends every listed
\* holding once, in commands within the limit, and moves the whole total.
THEOREM InputsCoverHolds == Spec => []InputsCover
<1>1. Init => Covers
  BY DEF Init, Covers
<1>2. Init => HoldingsInv
  BY InitHoldingsInv
<1>3. HoldingsInv /\ Covers /\ [Next]_vars => HoldingsInv' /\ Covers'
  BY NextHoldingsInv, NextCovers
<1>4. Covers => InputsCover
  BY InputsCoverIsCovers
<1> QED BY <1>1, <1>2, <1>3, <1>4, PTL DEF Spec
-----------------------------------------------------------------------------
\* What a goroutine has listed is finite.
LEMMA SeenIsFinite ==
    ASSUME HoldingsTypeOK, NEW w \in Workers
    PROVE  Cardinality(seen[w]) \in Nat
<1>1. seen[w] \subseteq 1..MaxContracts /\ MaxContracts \in Nat
  BY LimitAssumption DEF HoldingsTypeOK, Contracts
<1>2. IsFiniteSet(seen[w])
  <2>1. IsFiniteSet(1..MaxContracts)
    BY <1>1, FS_Interval
  <2> QED BY <1>1, <2>1, FS_Subset
<1> QED BY <1>2, FS_CardinalityType

\* A call that says "insufficient balance" chose all it had listed; it had listed what
\* was active at an offset between its beginning and its end, or the limit cut that.
LEMMA InsufficientStep ==
    ASSUME HoldingsInv, Admin = "party", NEW w \in Workers, from[w] <= pos[w],
           CreateTransfer(w), outcome'[w] = "insufficient"
    PROVE  FallsShort(w)
<1>1. /\ pc[w] = "choose" /\ job[w] = "transfer" /\ HoldingsTypeOK
      /\ from[w] \in Nat /\ Len(updates) \in Nat
  BY CreateTransferCases, UpdatesAreEvents, LimitAssumption
     DEF HoldingsInv, CallsInOrder, HoldingsTypeOK
<1>2. PICK list \in Listings(w, ListLimit) :
         \/ Builds(w, list)
         \/ TotalOf(ToSet(Taken(list, amount[w]))) < amount[w]
  BY CreateTransferCases
<1>3. Cardinality(seen[w]) <= ListLimit => ToSet(list) = seen[w]
  BY <1>1, ListingProperties, LimitAssumption DEF HoldingsTypeOK
<1>4. TotalOf(ToSet(list)) < amount[w]
  <2>1. outcome[w] = "none"
    BY <1>1 DEF HoldingsInv, CallsInOrder
  <2>2. CASE Builds(w, list)
    BY <2>1, <2>2 DEF Builds
  <2>3. CASE TotalOf(ToSet(Taken(list, amount[w]))) < amount[w]
    <3>1. Taken(list, amount[w]) = list
      BY <1>1, <2>3, ChosenInputs
    <3> QED BY <2>3, <3>1
  <2> QED BY <1>2, <2>2, <2>3
<1>5. pos[w] \in from[w]..Len(updates) /\ seen[w] = ActiveAt(pos[w])
  <2>1. pos[w] \in 0..Len(updates)
    BY SeenIsKnown
  <2> QED BY <1>1, <2>1 DEF HoldingsInv, ListingsAreSnapshots
<1>6. CASE Cardinality(seen[w]) <= ListLimit
  BY <1>3, <1>4, <1>5, <1>6 DEF FallsShort
<1>7. CASE ~(Cardinality(seen[w]) <= ListLimit)
  <2>1. Cardinality(seen[w]) \in Nat
    BY <1>1, SeenIsFinite
  <2>2. Cardinality(seen[w]) > ListLimit
    BY <1>7, <2>1, LimitAssumption
  <2> QED BY <1>5, <2>2 DEF FallsShort
<1> QED BY <1>6, <1>7

\* For any goroutines, amounts and limits and however early the timer fires: a call
\* whose listing reached what was there when it began, with the party as instrument
\* admin, says "insufficient balance" only if at some moment of the call the holdings
\* did not cover the amount or were more than it lists.
THEOREM InsufficientIsTrueHolds == Spec => InsufficientIsTrue
<1>1. HoldingsInv /\ [Next]_vars =>
         [\A w \in Workers :
            /\ CreateTransfer(w) /\ outcome'[w] = "insufficient"
            /\ Admin = "party" /\ from[w] <= pos[w]
            => FallsShort(w)]_vars
  BY InsufficientStep
<1> QED BY <1>1, HoldingsInvHolds, PTL DEF Spec, InsufficientIsTrue
=============================================================================

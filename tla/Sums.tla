-------------------------------- MODULE Sums --------------------------------
(***************************************************************************)
(* Facts about the sum of a function over a finite set (SumFunctionOnSet   *)
(* of the module Functions).  Each is proved by its smallest               *)
(* counterexample: of the subsets of a finite set for which a claim fails  *)
(* there is one that contains no other, and for it the claim holds as soon *)
(* as one element is taken out.                                            *)
(***************************************************************************)
EXTENDS Functions, FiniteSetTheorems, TLAPS

(* Of some subsets of a finite set, one contains no other of them. *)
LEMMA MinimalSubset ==
  ASSUME NEW S, IsFiniteSet(S), NEW T, T \subseteq SUBSET S, T # {}
  PROVE  \E s \in T : \A t \in T : t \subseteq s => t = s
<1> DEFINE R == StrictSubsetOrdering(S)
<1>1. IsWellFoundedOn(R, SUBSET S)
  BY FS_StrictSubsetOrderingWellFounded, FS_FiniteSubsetsOfFinite
<1>2. \E s \in T : \A t \in T : ~(<<t, s>> \in R)
  <2> HIDE DEF R
  <2> QED BY <1>1, WFMin, Zenon
<1>3. QED
  BY <1>2 DEF StrictSubsetOrdering

(* The element that the library's fold takes first. *)
Pick(s) == CHOOSE x \in s : TRUE

(* It is one of the set's. *)
LEMMA PickIn == \A s : s # {} => Pick(s) \in s
  BY DEF Pick

(* g is the recursive function by which the library defines sums over S. *)
IsSum(f, S, g) ==
  g = [s \in SUBSET S |-> IF s = {} THEN 0 ELSE f[Pick(s)] + g[s \ {Pick(s)}]]

(* The library's sum is the value at S of a function that is a sum on S. *)
LEMMA SumIsChosen ==
  ASSUME NEW f, NEW S
  PROVE  SumFunctionOnSet(f, S) = (CHOOSE g : IsSum(f, S, g))[S]
BY Zenon DEF SumFunctionOnSet, FoldFunctionOnSet, MapThenFoldSet, IsSum, Pick

(* What a sum is at one subset. *)
LEMMA IsSumAt ==
  ASSUME NEW f, NEW S, NEW g, IsSum(f, S, g), NEW s \in SUBSET S
  PROVE  g[s] = IF s = {} THEN 0 ELSE f[Pick(s)] + g[s \ {Pick(s)}]
<1> DEFINE h == [u \in SUBSET S |-> IF u = {} THEN 0 ELSE f[Pick(u)] + g[u \ {Pick(u)}]]
<1>1. g = h
  BY Zenon DEF IsSum
<1>2. h[s] = IF s = {} THEN 0 ELSE f[Pick(s)] + g[s \ {Pick(s)}]
  BY Zenon
<1> QED
  BY <1>1, <1>2, Zenon

(* A finite set has at most one sum of f. *)
LEMMA IsSumUnique ==
  ASSUME NEW f, NEW S, IsFiniteSet(S), NEW g, IsSum(f, S, g), NEW h, IsSum(f, S, h),
         NEW s \in SUBSET S
  PROVE  g[s] = h[s]
<1> DEFINE T == {u \in SUBSET S : g[u] # h[u]}
<1> SUFFICES ASSUME T # {} PROVE FALSE
  OBVIOUS
<1>1. PICK u \in T : \A t \in T : t \subseteq u => t = u
  <2>1. T \subseteq SUBSET S
    OBVIOUS
  <2> HIDE DEF T
  <2> QED BY <2>1, MinimalSubset
<1>2. u # {}
  BY <1>1, IsSumAt
<1>3. /\ Pick(u) \in u
      /\ u \ {Pick(u)} \in SUBSET S
  BY <1>2, PickIn
<1>4. g[u \ {Pick(u)}] = h[u \ {Pick(u)}]
  BY <1>1, <1>3
<1>5. g[u] = f[Pick(u)] + g[u \ {Pick(u)}] /\ h[u] = f[Pick(u)] + h[u \ {Pick(u)}]
  BY <1>2, IsSumAt
<1> QED
  BY <1>4, <1>5

(* A sum on a set is one on its subsets. *)
LEMMA IsSumRestricts ==
  ASSUME NEW f, NEW S, NEW g, IsSum(f, S, g), NEW T \in SUBSET S
  PROVE  IsSum(f, T, [s \in SUBSET T |-> g[s]])
<1> DEFINE k == [s \in SUBSET T |-> g[s]]
           h == [s \in SUBSET T |-> IF s = {} THEN 0 ELSE f[Pick(s)] + k[s \ {Pick(s)}]]
<1>1. ASSUME NEW s \in SUBSET T PROVE k[s] = h[s]
  <2>1. g[s] = IF s = {} THEN 0 ELSE f[Pick(s)] + g[s \ {Pick(s)}]
    BY IsSumAt
  <2>2. s \ {Pick(s)} \in SUBSET T
    OBVIOUS
  <2> QED
    BY <2>1, <2>2
<1>2. k = h
  BY <1>1
<1> QED
  BY <1>2, Zenon DEF IsSum

(* A finite set has a sum of f. *)
LEMMA IsSumExists ==
  ASSUME NEW f, NEW S, IsFiniteSet(S)
  PROVE  \E g : IsSum(f, S, g)
<1> DEFINE T == {u \in SUBSET S : ~ \E g : IsSum(f, u, g)}
<1> SUFFICES ASSUME T # {} PROVE FALSE
  BY Zenon
<1>1. PICK x \in T : \A t \in T : t \subseteq x => t = x
  <2>1. T \subseteq SUBSET S
    OBVIOUS
  <2> HIDE DEF T
  <2> QED BY <2>1, MinimalSubset
<1> DEFINE G(u) == CHOOSE g : IsSum(f, u, g)
           k == [s \in SUBSET x |-> IF s = {} THEN 0
                                    ELSE f[Pick(s)] + G(s \ {Pick(s)})[s \ {Pick(s)}]]
           h == [s \in SUBSET x |-> IF s = {} THEN 0 ELSE f[Pick(s)] + k[s \ {Pick(s)}]]
<1>2. ASSUME NEW u \in SUBSET x, u # x PROVE IsSum(f, u, G(u))
  <2>1. u \in SUBSET S /\ u \notin T
    BY <1>1, <1>2
  <2>2. \E g : IsSum(f, u, g)
    BY <2>1, Zenon
  <2> QED
    BY <2>2, Zenon
<1>3. ASSUME NEW s \in SUBSET x, s # {} PROVE s \ {Pick(s)} \in SUBSET x /\ s \ {Pick(s)} # x
  BY <1>3, PickIn
<1>4. ASSUME NEW u \in SUBSET x, u # x PROVE G(u)[u] = k[u]
  <2>1. CASE u = {}
    BY <2>1, <1>2, <1>4, IsSumAt
  <2>2. CASE u # {}
    <3> DEFINE v == u \ {Pick(u)}
    <3>1. v \in SUBSET u /\ v \in SUBSET x /\ v # x /\ IsFiniteSet(v)
      BY <1>3, <1>1, <2>2, FS_Subset
    <3>2. IsSum(f, u, G(u)) /\ IsSum(f, v, G(v))
      BY <1>2, <1>4, <3>1
    <3>3. G(u)[u] = f[Pick(u)] + G(u)[v]
      <4> HIDE DEF G
      <4> QED BY <3>2, <2>2, IsSumAt
    <3>4. G(u)[v] = G(v)[v]
      <4> DEFINE m == [s \in SUBSET v |-> G(u)[s]]
      <4>1. IsSum(f, v, m)
        <5> HIDE DEF G, v
        <5> QED BY <3>1, <3>2, IsSumRestricts
      <4>2. m[v] = G(u)[v]
        OBVIOUS
      <4>3. m[v] = G(v)[v]
        <5> HIDE DEF G, m, v
        <5> QED BY <3>1, <3>2, <4>1, IsSumUnique
      <4> QED BY <4>2, <4>3, Zenon
    <3> HIDE DEF G
    <3> QED
      BY <3>3, <3>4, <2>2
  <2> QED
    BY <2>1, <2>2
<1>5. ASSUME NEW s \in SUBSET x PROVE k[s] = h[s]
  <2> HIDE DEF G
  <2> QED BY <1>3, <1>4
<1>6. k = h
  <2> HIDE DEF G
  <2> QED BY <1>5
<1>7. IsSum(f, x, k)
  <2> HIDE DEF G
  <2> QED BY <1>6, Zenon DEF IsSum
<1> QED
  BY <1>1, <1>7, Zenon

(* The recursion the sum unfolds to. *)
LEMMA SumUnfolds ==
  ASSUME NEW f, NEW S, IsFiniteSet(S)
  PROVE  SumFunctionOnSet(f, S) =
           IF S = {} THEN 0
           ELSE f[Pick(S)] + SumFunctionOnSet(f, S \ {Pick(S)})
<1> DEFINE G(u) == CHOOSE g : IsSum(f, u, g)
           v == S \ {Pick(S)}
<1>1. IsFiniteSet(v) /\ v \in SUBSET S
  BY FS_Subset
<1>2. IsSum(f, S, G(S)) /\ IsSum(f, v, G(v))
  BY <1>1, IsSumExists, Zenon
<1> HIDE DEF G, v
<1>3. G(S)[S] = IF S = {} THEN 0 ELSE f[Pick(S)] + G(S)[v]
  <2>1. G(S)[S] = IF S = {} THEN 0 ELSE f[Pick(S)] + G(S)[S \ {Pick(S)}]
    BY <1>2, IsSumAt
  <2> QED BY <2>1 DEF v
<1>4. G(S)[v] = G(v)[v]
  <2> DEFINE m == [s \in SUBSET v |-> G(S)[s]]
  <2>1. IsSum(f, v, m)
    BY <1>1, <1>2, IsSumRestricts
  <2>2. m[v] = G(S)[v]
    OBVIOUS
  <2>3. m[v] = G(v)[v]
    <3> HIDE DEF m
    <3> QED BY <1>1, <1>2, <2>1, IsSumUnique
  <2> QED BY <2>2, <2>3, Zenon
<1> QED
  <2>1. SumFunctionOnSet(f, S) = G(S)[S] /\ SumFunctionOnSet(f, v) = G(v)[v]
    BY SumIsChosen, Zenon DEF G
  <2>2. SumFunctionOnSet(f, S) = IF S = {} THEN 0 ELSE f[Pick(S)] + SumFunctionOnSet(f, v)
    BY <2>1, <1>3, <1>4
  <2> QED BY <2>2 DEF v

-----------------------------------------------------------------------------

(* The sum of no values. *)
LEMMA SumOfNone ==
  ASSUME NEW f
  PROVE  SumFunctionOnSet(f, {}) = 0
BY SumUnfolds, FS_EmptySet

(* A sum of integers is an integer. *)
LEMMA SumInt ==
  ASSUME NEW f, NEW S, IsFiniteSet(S), \A x \in S : f[x] \in Int
  PROVE  SumFunctionOnSet(f, S) \in Int
<1> DEFINE T == {u \in SUBSET S : SumFunctionOnSet(f, u) \notin Int}
<1> SUFFICES ASSUME T # {} PROVE FALSE
  OBVIOUS
<1>1. PICK u \in T : \A t \in T : t \subseteq u => t = u
  <2>1. T \subseteq SUBSET S
    OBVIOUS
  <2> HIDE DEF T
  <2> QED BY <2>1, MinimalSubset
<1>2. IsFiniteSet(u)
  BY FS_Subset
<1>3. u # {}
  <2>1. {} \notin T
    BY SumOfNone
  <2> QED BY <1>1, <2>1
<1>4. Pick(u) \in u
  BY <1>3, PickIn
<1>5. SumFunctionOnSet(f, u \ {Pick(u)}) \in Int
  BY <1>1, <1>4
<1>6. SumFunctionOnSet(f, u) = f[Pick(u)] + SumFunctionOnSet(f, u \ {Pick(u)})
  BY <1>2, <1>3, SumUnfolds
<1> QED
  BY <1>4, <1>5, <1>6

(* Any element may be taken out first. *)
LEMMA SumTakesOut ==
  ASSUME NEW f, NEW S, IsFiniteSet(S), \A x \in S : f[x] \in Int, NEW x \in S
  PROVE  SumFunctionOnSet(f, S) = f[x] + SumFunctionOnSet(f, S \ {x})
<1> DEFINE T == {u \in SUBSET S : \E y \in u :
                   SumFunctionOnSet(f, u) # f[y] + SumFunctionOnSet(f, u \ {y})}
<1> SUFFICES ASSUME T # {} PROVE FALSE
  OBVIOUS
<1>1. PICK u \in T : \A t \in T : t \subseteq u => t = u
  <2>1. T \subseteq SUBSET S
    OBVIOUS
  <2> HIDE DEF T
  <2> QED BY <2>1, MinimalSubset
<1>2. PICK y \in u : SumFunctionOnSet(f, u) # f[y] + SumFunctionOnSet(f, u \ {y})
  OBVIOUS
<1> DEFINE p == Pick(u)
           v == u \ {p}
           w == u \ {y}
           vw == u \ {p, y}
<1>3. p \in u
  BY <1>2, PickIn
<1>4. SumFunctionOnSet(f, u) = f[p] + SumFunctionOnSet(f, v)
  <2>1. IsFiniteSet(u) /\ u # {}
    BY FS_Subset, <1>2
  <2> QED BY <2>1, SumUnfolds
<1>5. p # y
  BY <1>2, <1>4
<1>6. v \in SUBSET S /\ w \in SUBSET S /\ vw \in SUBSET S
  OBVIOUS
<1>7. SumFunctionOnSet(f, v) = f[y] + SumFunctionOnSet(f, vw)
  <2>1. v \notin T
    BY <1>1, <1>3
  <2>2. v \ {y} = vw /\ y \in v
    BY <1>5
  <2> QED BY <2>1, <2>2, <1>6
<1>8. SumFunctionOnSet(f, w) = f[p] + SumFunctionOnSet(f, vw)
  <2>1. w \notin T
    BY <1>1, <1>2
  <2>2. w \ {p} = vw /\ p \in w
    BY <1>3, <1>5
  <2> QED BY <2>1, <2>2, <1>6
<1>9. f[p] \in Int /\ f[y] \in Int /\ SumFunctionOnSet(f, vw) \in Int
  <2>1. IsFiniteSet(vw)
    BY <1>6, FS_Subset
  <2>2. SumFunctionOnSet(f, vw) \in Int
    <3> HIDE DEF vw
    <3> QED BY <1>6, <2>1, SumInt
  <2> QED BY <2>2, <1>2, <1>3
<1> HIDE DEF p, v, vw, T
<1> QED
  BY <1>2, <1>4, <1>7, <1>8, <1>9

(* The sum depends on the values over the set alone. *)
LEMMA SumAgrees ==
  ASSUME NEW f, NEW g, NEW S, IsFiniteSet(S), \A x \in S : f[x] = g[x]
  PROVE  SumFunctionOnSet(f, S) = SumFunctionOnSet(g, S)
<1> DEFINE T == {u \in SUBSET S : SumFunctionOnSet(f, u) # SumFunctionOnSet(g, u)}
<1> SUFFICES ASSUME T # {} PROVE FALSE
  OBVIOUS
<1>1. PICK u \in T : \A t \in T : t \subseteq u => t = u
  <2>1. T \subseteq SUBSET S
    OBVIOUS
  <2> HIDE DEF T
  <2> QED BY <2>1, MinimalSubset
<1>2. IsFiniteSet(u)
  BY FS_Subset
<1>3. u # {}
  <2>1. SumFunctionOnSet(f, {}) = 0 /\ SumFunctionOnSet(g, {}) = 0
    BY SumOfNone
  <2>2. {} \notin T
    BY <2>1
  <2> QED BY <1>1, <2>2
<1>4. Pick(u) \in u
  BY <1>3, PickIn
<1>5. SumFunctionOnSet(f, u \ {Pick(u)}) = SumFunctionOnSet(g, u \ {Pick(u)})
  BY <1>1, <1>4
<1>6. /\ SumFunctionOnSet(f, u) = f[Pick(u)] + SumFunctionOnSet(f, u \ {Pick(u)})
      /\ SumFunctionOnSet(g, u) = g[Pick(u)] + SumFunctionOnSet(g, u \ {Pick(u)})
  BY <1>2, <1>3, SumUnfolds
<1> QED
  BY <1>4, <1>5, <1>6

(* Changing one value changes the sum by the difference. *)
LEMMA SumChangesAt ==
  ASSUME NEW f, NEW g, NEW S, IsFiniteSet(S), NEW z \in S,
         \A x \in S : f[x] \in Int /\ g[x] \in Int,
         \A x \in S \ {z} : f[x] = g[x]
  PROVE  SumFunctionOnSet(g, S) = SumFunctionOnSet(f, S) + (g[z] - f[z])
<1>1. /\ SumFunctionOnSet(f, S) = f[z] + SumFunctionOnSet(f, S \ {z})
      /\ SumFunctionOnSet(g, S) = g[z] + SumFunctionOnSet(g, S \ {z})
  BY SumTakesOut
<1>2. IsFiniteSet(S \ {z})
  BY FS_RemoveElement
<1>3. SumFunctionOnSet(f, S \ {z}) = SumFunctionOnSet(g, S \ {z})
  BY <1>2, SumAgrees
<1>4. SumFunctionOnSet(f, S \ {z}) \in Int
  BY <1>2, SumInt
<1> QED
  BY <1>1, <1>3, <1>4

(* The sum over a set splits over a subset and the rest. *)
LEMMA SumSplits ==
  ASSUME NEW f, NEW S, IsFiniteSet(S), \A x \in S : f[x] \in Int, NEW U \in SUBSET S
  PROVE  SumFunctionOnSet(f, S) = SumFunctionOnSet(f, U) + SumFunctionOnSet(f, S \ U)
<1> DEFINE T == {u \in SUBSET S :
                   SumFunctionOnSet(f, S) # SumFunctionOnSet(f, u) + SumFunctionOnSet(f, S \ u)}
<1> SUFFICES ASSUME T # {} PROVE FALSE
  OBVIOUS
<1>1. PICK u \in T : \A t \in T : t \subseteq u => t = u
  <2>1. T \subseteq SUBSET S
    OBVIOUS
  <2> HIDE DEF T
  <2> QED BY <2>1, MinimalSubset
<1>0. SumFunctionOnSet(f, S) \in Int
  BY SumInt
<1>2. CASE u = {}
  <2>1. SumFunctionOnSet(f, u) = 0 /\ S \ u = S
    BY <1>2, SumOfNone
  <2> QED BY <2>1, <1>0
<1>3. CASE u # {}
  <2> DEFINE p == Pick(u)
             v == u \ {p}
  <2>1. p \in u
    BY <1>3, PickIn
  <2>2. v \in SUBSET S /\ v \notin T
    BY <1>1, <2>1
  <2>3. SumFunctionOnSet(f, S) = SumFunctionOnSet(f, v) + SumFunctionOnSet(f, S \ v)
    BY <2>2
  <2>4. IsFiniteSet(u) /\ IsFiniteSet(v) /\ IsFiniteSet(S \ u) /\ IsFiniteSet(S \ v)
    BY <2>2, FS_Subset
  <2>5. SumFunctionOnSet(f, u) = f[p] + SumFunctionOnSet(f, v)
    BY <2>1, <2>4, SumTakesOut
  <2>6. SumFunctionOnSet(f, S \ v) = f[p] + SumFunctionOnSet(f, S \ u)
    <3>1. p \in S \ v /\ (S \ v) \ {p} = S \ u
      BY <2>1
    <3>2. \A x \in S \ v : f[x] \in Int
      OBVIOUS
    <3> HIDE DEF v, p
    <3> QED BY <3>1, <3>2, <2>4, SumTakesOut
  <2>7. /\ f[p] \in Int
        /\ SumFunctionOnSet(f, v) \in Int
        /\ SumFunctionOnSet(f, S \ u) \in Int
    <3>1. (\A x \in v : f[x] \in Int) /\ (\A x \in S \ u : f[x] \in Int)
      OBVIOUS
    <3>2. SumFunctionOnSet(f, v) \in Int /\ SumFunctionOnSet(f, S \ u) \in Int
      <4> HIDE DEF v
      <4> QED BY <3>1, <2>4, SumInt
    <3> QED BY <3>2, <2>1
  <2>8. SumFunctionOnSet(f, S) # SumFunctionOnSet(f, u) + SumFunctionOnSet(f, S \ u)
    OBVIOUS
  <2> HIDE DEF p, v, T
  <2> QED
    BY <2>3, <2>5, <2>6, <2>7, <2>8
<1> QED
  BY <1>2, <1>3

(* Larger values make a larger sum. *)
LEMMA SumGrows ==
  ASSUME NEW f, NEW g, NEW S, IsFiniteSet(S),
         \A x \in S : f[x] \in Int /\ g[x] \in Int /\ f[x] <= g[x]
  PROVE  SumFunctionOnSet(f, S) <= SumFunctionOnSet(g, S)
<1> DEFINE T == {u \in SUBSET S : ~(SumFunctionOnSet(f, u) <= SumFunctionOnSet(g, u))}
<1> SUFFICES ASSUME T # {} PROVE FALSE
  OBVIOUS
<1>1. PICK u \in T : \A t \in T : t \subseteq u => t = u
  <2>1. T \subseteq SUBSET S
    OBVIOUS
  <2> HIDE DEF T
  <2> QED BY <2>1, MinimalSubset
<1>2. u # {}
  <2>1. SumFunctionOnSet(f, {}) = 0 /\ SumFunctionOnSet(g, {}) = 0
    BY SumOfNone
  <2>2. {} \notin T
    BY <2>1
  <2> QED BY <1>1, <2>2
<1> DEFINE v == u \ {Pick(u)}
<1>3. Pick(u) \in u /\ v \in SUBSET S /\ v \notin T
  BY <1>1, <1>2, PickIn
<1>4. IsFiniteSet(u) /\ IsFiniteSet(v)
  BY <1>3, FS_Subset
<1>5. /\ SumFunctionOnSet(f, u) = f[Pick(u)] + SumFunctionOnSet(f, v)
      /\ SumFunctionOnSet(g, u) = g[Pick(u)] + SumFunctionOnSet(g, v)
  BY <1>4, <1>2, SumUnfolds
<1>6. SumFunctionOnSet(f, v) \in Int /\ SumFunctionOnSet(g, v) \in Int
  <2>1. \A x \in v : f[x] \in Int /\ g[x] \in Int
    OBVIOUS
  <2> HIDE DEF v
  <2> QED BY <2>1, <1>4, SumInt
<1>7. SumFunctionOnSet(f, v) <= SumFunctionOnSet(g, v)
  BY <1>3
<1>8. ~(SumFunctionOnSet(f, u) <= SumFunctionOnSet(g, u))
  OBVIOUS
<1>9. f[Pick(u)] \in Int /\ g[Pick(u)] \in Int /\ f[Pick(u)] <= g[Pick(u)]
  BY <1>3
<1> HIDE DEF v, T
<1> QED
  BY <1>5, <1>6, <1>7, <1>8, <1>9

(* The sum of zeros. *)
LEMMA SumOfZeros ==
  ASSUME NEW f, NEW S, IsFiniteSet(S), \A x \in S : f[x] = 0
  PROVE  SumFunctionOnSet(f, S) = 0
<1> DEFINE T == {u \in SUBSET S : SumFunctionOnSet(f, u) # 0}
<1> SUFFICES ASSUME T # {} PROVE FALSE
  OBVIOUS
<1>1. PICK u \in T : \A t \in T : t \subseteq u => t = u
  <2>1. T \subseteq SUBSET S
    OBVIOUS
  <2> HIDE DEF T
  <2> QED BY <2>1, MinimalSubset
<1>2. u # {} /\ IsFiniteSet(u)
  BY <1>1, SumOfNone, FS_Subset
<1>3. Pick(u) \in u
  BY <1>2, PickIn
<1>4. SumFunctionOnSet(f, u \ {Pick(u)}) = 0
  BY <1>1, <1>3
<1>5. SumFunctionOnSet(f, u) = f[Pick(u)] + SumFunctionOnSet(f, u \ {Pick(u)})
  BY <1>2, SumUnfolds
<1> QED
  BY <1>3, <1>4, <1>5

(* A sum of naturals is a natural, which none of its values exceeds. *)
LEMMA SumNat ==
  ASSUME NEW f, NEW S, IsFiniteSet(S), \A x \in S : f[x] \in Nat
  PROVE  /\ SumFunctionOnSet(f, S) \in Nat
         /\ \A x \in S : f[x] <= SumFunctionOnSet(f, S)
<1> DEFINE zero == [x \in S |-> 0]
<1>1. ASSUME NEW U \in SUBSET S PROVE SumFunctionOnSet(f, U) \in Nat
  <2>0. IsFiniteSet(U)
    BY FS_Subset
  <2>1. \A x \in U : zero[x] \in Int /\ f[x] \in Int /\ zero[x] <= f[x] /\ zero[x] = 0
    OBVIOUS
  <2> HIDE DEF zero
  <2>2. SumFunctionOnSet(zero, U) = 0
    BY <2>0, <2>1, SumOfZeros
  <2>3. SumFunctionOnSet(zero, U) <= SumFunctionOnSet(f, U)
    BY <2>0, <2>1, SumGrows
  <2>4. SumFunctionOnSet(f, U) \in Int
    BY <2>0, <2>1, SumInt
  <2> QED
    BY <2>2, <2>3, <2>4
<1>2. ASSUME NEW x \in S PROVE f[x] <= SumFunctionOnSet(f, S)
  <2>1. SumFunctionOnSet(f, S) = f[x] + SumFunctionOnSet(f, S \ {x})
    <3>1. \A y \in S : f[y] \in Int
      OBVIOUS
    <3> QED BY <3>1, SumTakesOut
  <2>2. SumFunctionOnSet(f, S \ {x}) \in Nat
    BY <1>1
  <2> QED
    BY <2>1, <2>2
<1> QED
  BY <1>1, <1>2

(* The values of opposite sign make the sum of opposite sign. *)
LEMMA SumNegates ==
  ASSUME NEW f, NEW g, NEW S, IsFiniteSet(S),
         \A x \in S : f[x] \in Int /\ g[x] = -f[x]
  PROVE  SumFunctionOnSet(g, S) = -SumFunctionOnSet(f, S)
<1> DEFINE T == {u \in SUBSET S : SumFunctionOnSet(g, u) # -SumFunctionOnSet(f, u)}
<1> SUFFICES ASSUME T # {} PROVE FALSE
  OBVIOUS
<1>1. PICK u \in T : \A t \in T : t \subseteq u => t = u
  <2>1. T \subseteq SUBSET S
    OBVIOUS
  <2> HIDE DEF T
  <2> QED BY <2>1, MinimalSubset
<1>2. u # {}
  <2>1. SumFunctionOnSet(f, {}) = 0 /\ SumFunctionOnSet(g, {}) = 0
    BY SumOfNone
  <2>2. {} \notin T
    BY <2>1
  <2> QED BY <1>1, <2>2
<1> DEFINE v == u \ {Pick(u)}
<1>3. Pick(u) \in u /\ v \in SUBSET S /\ v \notin T
  BY <1>1, <1>2, PickIn
<1>4. IsFiniteSet(u) /\ IsFiniteSet(v)
  BY <1>3, FS_Subset
<1>5. /\ SumFunctionOnSet(f, u) = f[Pick(u)] + SumFunctionOnSet(f, v)
      /\ SumFunctionOnSet(g, u) = g[Pick(u)] + SumFunctionOnSet(g, v)
  BY <1>4, <1>2, SumUnfolds
<1>6. SumFunctionOnSet(f, v) \in Int
  <2>1. \A x \in v : f[x] \in Int
    OBVIOUS
  <2> HIDE DEF v
  <2> QED BY <2>1, <1>4, SumInt
<1>7. SumFunctionOnSet(g, v) = -SumFunctionOnSet(f, v)
  BY <1>3
<1>8. SumFunctionOnSet(g, u) # -SumFunctionOnSet(f, u)
  OBVIOUS
<1>9. f[Pick(u)] \in Int /\ g[Pick(u)] = -f[Pick(u)]
  BY <1>3
<1> HIDE DEF v, T
<1> QED
  BY <1>5, <1>6, <1>7, <1>8, <1>9

(* The same values under other names make the same sum. *)
LEMMA SumRenamed ==
  ASSUME NEW f, NEW g, NEW S, IsFiniteSet(S), NEW p,
         \A x \in S : f[x] \in Int /\ g[p[x]] = f[x],
         \A x, y \in S : p[x] = p[y] => x = y,
         NEW U, \A x \in S : p[x] \in U, \A y \in U : \E x \in S : p[x] = y
  PROVE  SumFunctionOnSet(g, U) = SumFunctionOnSet(f, S)
<1> DEFINE named(u) == {p[x] : x \in u}
           T == {u \in SUBSET S : SumFunctionOnSet(g, named(u)) # SumFunctionOnSet(f, u)}
<1> SUFFICES ASSUME T # {} PROVE FALSE
  <2>1. U = named(S) /\ S \in SUBSET S
    <3>1. \A y \in U : y \in named(S)
      OBVIOUS
    <3> QED BY <3>1
  <2>2. T = {} => SumFunctionOnSet(g, named(S)) = SumFunctionOnSet(f, S)
    OBVIOUS
  <2> QED BY <2>1, <2>2
<1>1. PICK u \in T : \A t \in T : t \subseteq u => t = u
  <2>1. T \subseteq SUBSET S
    OBVIOUS
  <2> HIDE DEF T
  <2> QED BY <2>1, MinimalSubset
<1>2. u # {}
  <2>1. SumFunctionOnSet(f, {}) = 0 /\ SumFunctionOnSet(g, {}) = 0 /\ named({}) = {}
    BY SumOfNone
  <2>2. {} \notin T
    BY <2>1
  <2> QED BY <1>1, <2>2
<1> DEFINE z == Pick(u)
           v == u \ {z}
<1>3. z \in u /\ z \in S /\ v \in SUBSET S /\ v \notin T
  BY <1>1, <1>2, PickIn
<1>4. IsFiniteSet(u) /\ IsFiniteSet(v) /\ IsFiniteSet(named(u))
  <2>1. IsFiniteSet(u) /\ IsFiniteSet(v)
    BY <1>3, FS_Subset
  <2>2. IsFiniteSet({p[x] : x \in u})
    <3> DEFINE q == [x \in u |-> p[x]]
    <3>1. q \in Surjection(u, named(u))
      BY DEF Surjection
    <3> HIDE DEF q
    <3> QED BY <2>1, <3>1, FS_Surjection
  <2> QED BY <2>1, <2>2
<1>5. SumFunctionOnSet(f, u) = f[z] + SumFunctionOnSet(f, v)
  BY <1>4, <1>2, SumUnfolds
<1>6. SumFunctionOnSet(g, named(u)) = g[p[z]] + SumFunctionOnSet(g, named(u) \ {p[z]})
  <2>1. p[z] \in named(u) /\ \A y \in named(u) : g[y] \in Int
    BY <1>3
  <2> HIDE DEF named, z
  <2> QED BY <1>4, <2>1, SumTakesOut
<1>7. named(u) \ {p[z]} = named(v)
  <2>1. \A x \in v : p[x] # p[z]
    BY <1>3
  <2> QED BY <2>1, <1>3
<1>8. SumFunctionOnSet(g, named(v)) = SumFunctionOnSet(f, v)
  BY <1>3
<1>9. SumFunctionOnSet(g, named(u)) # SumFunctionOnSet(f, u) /\ g[p[z]] = f[z]
  BY <1>3
<1> HIDE DEF named, z, v, T
<1> QED
  BY <1>5, <1>6, <1>7, <1>8, <1>9
=============================================================================

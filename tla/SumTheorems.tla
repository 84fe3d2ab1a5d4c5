---------------------------- MODULE SumTheorems ----------------------------
(***************************************************************************)
(* Facts about SumFunctionOnSet of the community module Functions, which   *)
(* every balance, total and position of the models is written with.        *)
(*                                                                         *)
(* The operator picks the order of summation itself.  What makes it usable *)
(* in a proof is that the order does not matter: SumWithout takes out any  *)
(* element.  Each fact is proved by taking a least subset for which it     *)
(* fails; strict inclusion of finite sets is well founded (LeastSubset).   *)
(***************************************************************************)
EXTENDS Integers, FiniteSetsExt, Functions, FiniteSetTheorems, WellFoundedInduction, TLAPS

(* The element the library's fold takes first.                             *)
Pick(s) == CHOOSE x \in s : TRUE

(* g adds up f over every subset of S, one picked element at a time.       *)
IsSum(f, S, g) ==
    g = [s \in SUBSET S |-> IF s = {} THEN 0 ELSE f[Pick(s)] + g[s \ {Pick(s)}]]

(* The sum as the library builds it: the value of a chosen recursive function. *)
LEMMA SumIsChosen ==
    ASSUME NEW f, NEW S
    PROVE  SumFunctionOnSet(f, S) = (CHOOSE g : IsSum(f, S, g))[S]
BY DEF SumFunctionOnSet, FoldFunctionOnSet, MapThenFoldSet, IsSum, Pick

(* The element picked is an element.                                       *)
LEMMA Picked == ASSUME NEW s, s # {} PROVE Pick(s) \in s
BY DEF Pick

(* Induction over the subsets of a finite set: what fails for some subset  *)
(* fails for one all of whose proper subsets are fine.                     *)
LEMMA LeastSubset ==
    ASSUME NEW S, IsFiniteSet(S), NEW Bad \in SUBSET SUBSET S, Bad # {}
    PROVE  \E s \in Bad : \A t \in SUBSET s : t # s => t \notin Bad
<1>1. Bad \subseteq FiniteSubsetsOf(S)
  BY FS_Subset DEF FiniteSubsetsOf
<1>2. PICK s \in Bad : \A t \in Bad : <<t, s>> \notin StrictSubsetOrdering(S)
  BY <1>1, FS_StrictSubsetOrderingWellFounded, WFMin, Zenon
<1>3. ASSUME NEW t \in SUBSET s, t # s PROVE t \notin Bad
  BY <1>2, <1>3 DEF StrictSubsetOrdering
<1> QED BY <1>3

(* The recursion has one solution: two functions that satisfy it agree     *)
(* wherever both are defined.                                              *)
LEMMA SumsAgree ==
    ASSUME NEW f, NEW S, IsFiniteSet(S), NEW T, NEW g, NEW h, IsSum(f, S, g), IsSum(f, T, h),
           NEW s \in SUBSET S, s \in SUBSET T
    PROVE  g[s] = h[s]
<1> DEFINE Bad == {u \in SUBSET S : u \in SUBSET T /\ g[u] # h[u]}
<1> SUFFICES ASSUME Bad # {} PROVE FALSE
  OBVIOUS
<1>1. PICK u \in Bad : \A t \in SUBSET u : t # u => t \notin Bad
  <2>1. Bad \in SUBSET SUBSET S
    OBVIOUS
  <2> HIDE DEF Bad
  <2> QED BY <2>1, LeastSubset, Zenon
<1>2. g[u] = (IF u = {} THEN 0 ELSE f[Pick(u)] + g[u \ {Pick(u)}])
  BY DEF IsSum
<1>3. h[u] = (IF u = {} THEN 0 ELSE f[Pick(u)] + h[u \ {Pick(u)}])
  BY DEF IsSum
<1>4. u # {}
  BY <1>2, <1>3
<1>5. Pick(u) \in u
  BY <1>4, Picked
<1>6. u \ {Pick(u)} \notin Bad
  BY <1>1, <1>5
<1>7. g[u \ {Pick(u)}] = h[u \ {Pick(u)}]
  BY <1>6
<1> QED BY <1>2, <1>3, <1>7

(* The recursion has a solution, so the one chosen is one.                 *)
LEMMA SumExists ==
    ASSUME NEW f, NEW S, IsFiniteSet(S)
    PROVE  \E g : IsSum(f, S, g)
<1> DEFINE Bad == {u \in SUBSET S : ~ \E g : IsSum(f, u, g)}
<1> SUFFICES ASSUME Bad # {} PROVE FALSE
  OBVIOUS
<1>1. PICK s \in Bad : \A t \in SUBSET s : t # s => t \notin Bad
  <2>1. Bad \in SUBSET SUBSET S
    OBVIOUS
  <2> HIDE DEF Bad
  <2> QED BY <2>1, LeastSubset, Zenon
<1> DEFINE G(t) == CHOOSE g : IsSum(f, t, g)
           Rest(t) == t \ {Pick(t)}
           sum == [t \in SUBSET s |-> IF t = {} THEN 0 ELSE f[Pick(t)] + G(Rest(t))[Rest(t)]]
<1>2. ASSUME NEW t \in SUBSET s, t # s PROVE IsSum(f, t, G(t))
  <2>1. \E g : IsSum(f, t, g)
    BY <1>1, <1>2
  <2> QED BY <2>1
<1>3. ASSUME NEW t \in SUBSET s, t # {}
      PROVE  Rest(t) \in SUBSET s /\ Rest(t) # s
  BY <1>3, Picked
<1>4. ASSUME NEW t \in SUBSET s, t # {}
      PROVE  sum[Rest(t)] = G(Rest(t))[Rest(t)]
  <2> DEFINE u == Rest(t)
  <2>1. u \in SUBSET s /\ u # s
    BY <1>3, <1>4
  <2>2. IsSum(f, u, G(u))
    BY <2>1, <1>2
  <2>3. G(u)[u] = IF u = {} THEN 0 ELSE f[Pick(u)] + G(u)[Rest(u)]
    <3> HIDE DEF G
    <3> QED BY <2>2 DEF IsSum
  <2>4. CASE u = {}
    BY <2>3, <2>4, <2>1
  <2>5. CASE u # {}
    <3>1. Rest(u) \in SUBSET s /\ Rest(u) # s /\ Rest(u) \in SUBSET u
      BY <1>3, <2>5, <2>1
    <3>2. IsSum(f, Rest(u), G(Rest(u)))
      BY <3>1, <1>2
    <3>3. IsFiniteSet(u)
      BY <2>1, FS_Subset
    <3>4. G(u)[Rest(u)] = G(Rest(u))[Rest(u)]
      <4> HIDE DEF G, Rest, u
      <4> QED BY <2>2, <3>1, <3>2, <3>3, SumsAgree
    <3> QED BY <2>3, <2>5, <3>4, <2>1
  <2> QED BY <2>4, <2>5
<1>5. ASSUME NEW t \in SUBSET s
      PROVE  sum[t] = IF t = {} THEN 0 ELSE f[Pick(t)] + sum[Rest(t)]
  <2> HIDE DEF G
  <2> QED BY <1>4
<1>6. sum = [t \in SUBSET s |-> IF t = {} THEN 0 ELSE f[Pick(t)] + sum[Rest(t)]]
  <2>1. sum = [t \in SUBSET s |-> sum[t]]
    OBVIOUS
  <2> HIDE DEF sum
  <2> QED BY <2>1, <1>5
<1>7. IsSum(f, s, sum)
  <2> HIDE DEF sum
  <2> QED BY <1>6 DEF IsSum
<1>8. \E g : IsSum(f, s, g)
  <2> HIDE DEF sum
  <2> QED BY <1>7
<1> QED BY <1>8

(* The recursion equation of the sum itself.                               *)
LEMMA SumEquation ==
    ASSUME NEW f, NEW S, IsFiniteSet(S)
    PROVE  /\ S = {} => SumFunctionOnSet(f, S) = 0
           /\ S # {} => SumFunctionOnSet(f, S) =
                            f[Pick(S)] + SumFunctionOnSet(f, S \ {Pick(S)})
<1> DEFINE G(t) == CHOOSE g : IsSum(f, t, g)
           R == S \ {Pick(S)}
<1>1. IsFiniteSet(R)
  BY FS_RemoveElement
<1>2. IsSum(f, S, G(S)) /\ IsSum(f, R, G(R))
  BY <1>1, SumExists
<1>3. SumFunctionOnSet(f, S) = G(S)[S] /\ SumFunctionOnSet(f, R) = G(R)[R]
  BY SumIsChosen
<1> HIDE DEF G
<1>4. G(S)[S] = IF S = {} THEN 0 ELSE f[Pick(S)] + G(S)[R]
  BY <1>2 DEF IsSum
<1>5. G(S)[R] = G(R)[R]
  <2>1. R \in SUBSET S /\ R \in SUBSET R
    OBVIOUS
  <2> HIDE DEF R
  <2> QED BY <1>2, <2>1, SumsAgree
<1> QED BY <1>3, <1>4, <1>5

(* The sum over nothing is zero.                                           *)
LEMMA SumOfNone == ASSUME NEW f PROVE SumFunctionOnSet(f, {}) = 0
BY SumEquation, FS_EmptySet

(* A sum of integers is an integer.                                        *)
LEMMA SumIsInt ==
    ASSUME NEW S, IsFiniteSet(S), NEW f, \A x \in S : f[x] \in Int
    PROVE  SumFunctionOnSet(f, S) \in Int
<1> DEFINE Bad == {u \in SUBSET S : SumFunctionOnSet(f, u) \notin Int}
<1> SUFFICES ASSUME Bad # {} PROVE FALSE
  OBVIOUS
<1>1. PICK u \in Bad : \A t \in SUBSET u : t # u => t \notin Bad
  <2>1. Bad \in SUBSET SUBSET S
    OBVIOUS
  <2> HIDE DEF Bad
  <2> QED BY <2>1, LeastSubset, Zenon
<1>2. IsFiniteSet(u)
  BY FS_Subset
<1>3. CASE u = {}
  BY <1>3, SumOfNone
<1>4. CASE u # {}
  <2>1. Pick(u) \in u
    BY <1>4, Picked
  <2>2. u \ {Pick(u)} \notin Bad
    BY <1>1, <2>1
  <2>3. SumFunctionOnSet(f, u \ {Pick(u)}) \in Int
    BY <2>2
  <2> QED BY <1>2, <1>4, <2>1, <2>3, SumEquation
<1> QED BY <1>3, <1>4

(* Equal terms have equal sums.                                            *)
LEMMA SumOfEquals ==
    ASSUME NEW S, IsFiniteSet(S), NEW f, NEW g, \A x \in S : f[x] = g[x]
    PROVE  SumFunctionOnSet(f, S) = SumFunctionOnSet(g, S)
<1> DEFINE Bad == {u \in SUBSET S : SumFunctionOnSet(f, u) # SumFunctionOnSet(g, u)}
<1> SUFFICES ASSUME Bad # {} PROVE FALSE
  OBVIOUS
<1>1. PICK u \in Bad : \A t \in SUBSET u : t # u => t \notin Bad
  <2>1. Bad \in SUBSET SUBSET S
    OBVIOUS
  <2> HIDE DEF Bad
  <2> QED BY <2>1, LeastSubset, Zenon
<1>2. IsFiniteSet(u)
  BY FS_Subset
<1>3. CASE u = {}
  BY <1>3, SumOfNone
<1>4. CASE u # {}
  <2>1. Pick(u) \in u
    BY <1>4, Picked
  <2>2. u \ {Pick(u)} \notin Bad
    BY <1>1, <2>1
  <2>3. SumFunctionOnSet(f, u \ {Pick(u)}) = SumFunctionOnSet(g, u \ {Pick(u)})
    BY <2>2
  <2> QED BY <1>2, <1>4, <2>1, <2>3, SumEquation
<1> QED BY <1>3, <1>4

(* Any element may be taken out first, not just the one the definition picks. *)
LEMMA SumWithout ==
    ASSUME NEW S, IsFiniteSet(S), NEW f, \A x \in S : f[x] \in Int, NEW x \in S
    PROVE  SumFunctionOnSet(f, S) = f[x] + SumFunctionOnSet(f, S \ {x})
<1> DEFINE Bad == {u \in SUBSET S : \E y \in u :
                      SumFunctionOnSet(f, u) # f[y] + SumFunctionOnSet(f, u \ {y})}
<1> SUFFICES ASSUME Bad # {} PROVE FALSE
  OBVIOUS
<1>1. PICK u \in Bad : \A t \in SUBSET u : t # u => t \notin Bad
  <2>1. Bad \in SUBSET SUBSET S
    OBVIOUS
  <2> HIDE DEF Bad
  <2> QED BY <2>1, LeastSubset, Zenon
<1>2. PICK y \in u : SumFunctionOnSet(f, u) # f[y] + SumFunctionOnSet(f, u \ {y})
  OBVIOUS
<1> DEFINE p == Pick(u)
<1>3. IsFiniteSet(u) /\ p \in u
  BY <1>2, FS_Subset, Picked
<1>4. SumFunctionOnSet(f, u) = f[p] + SumFunctionOnSet(f, u \ {p})
  BY <1>2, <1>3, SumEquation
<1> HIDE DEF p
<1>5. p # y
  BY <1>2, <1>4
<1>6. u \ {p} \notin Bad /\ u \ {y} \notin Bad
  BY <1>1, <1>3, <1>2
<1>7. SumFunctionOnSet(f, u \ {p}) = f[y] + SumFunctionOnSet(f, (u \ {p}) \ {y})
  BY <1>6, <1>5, <1>2
<1>8. SumFunctionOnSet(f, u \ {y}) = f[p] + SumFunctionOnSet(f, (u \ {y}) \ {p})
  BY <1>6, <1>5, <1>3
<1>9. (u \ {p}) \ {y} = (u \ {y}) \ {p}
  OBVIOUS
<1>10. SumFunctionOnSet(f, (u \ {y}) \ {p}) \in Int
  <2>1. IsFiniteSet((u \ {y}) \ {p})
    BY <1>3, FS_RemoveElement
  <2> QED BY <2>1, SumIsInt
<1>11. f[p] \in Int /\ f[y] \in Int
  BY <1>3, <1>2
<1>12. \A a, b, c \in Int : a + (b + c) = b + (a + c)
  OBVIOUS
<1>13. f[p] + (f[y] + SumFunctionOnSet(f, (u \ {y}) \ {p}))
          = f[y] + (f[p] + SumFunctionOnSet(f, (u \ {y}) \ {p}))
  BY <1>10, <1>11, <1>12
<1> QED BY <1>2, <1>4, <1>7, <1>8, <1>9, <1>13, Zenon

(* A new element adds its term.                                            *)
LEMMA SumWith ==
    ASSUME NEW S, IsFiniteSet(S), NEW x, x \notin S, NEW f,
           \A y \in S : f[y] \in Int, f[x] \in Int
    PROVE  SumFunctionOnSet(f, S \cup {x}) = SumFunctionOnSet(f, S) + f[x]
<1>1. IsFiniteSet(S \cup {x})
  BY FS_AddElement
<1>2. (S \cup {x}) \ {x} = S
  OBVIOUS
<1>3. SumFunctionOnSet(f, S) \in Int
  BY SumIsInt
<1>4. \A y \in S \cup {x} : f[y] \in Int
  OBVIOUS
<1>5. SumFunctionOnSet(f, S \cup {x}) = f[x] + SumFunctionOnSet(f, (S \cup {x}) \ {x})
  BY <1>1, <1>4, SumWithout
<1>6. SumFunctionOnSet(f, S \cup {x}) = f[x] + SumFunctionOnSet(f, S)
  BY <1>2, <1>5, Zenon
<1> QED BY <1>3, <1>6

(* The sum over one element is its term.                                   *)
LEMMA SumOfOne ==
    ASSUME NEW x, NEW f, f[x] \in Int
    PROVE  SumFunctionOnSet(f, {x}) = f[x]
<1>1. SumFunctionOnSet(f, {} \cup {x}) = SumFunctionOnSet(f, {}) + f[x]
  BY SumWith, FS_EmptySet
<1> QED BY <1>1, SumOfNone

(* Sums add up term by term.                                               *)
LEMMA SumOfSums ==
    ASSUME NEW S, IsFiniteSet(S), NEW f, NEW g, NEW h,
           \A x \in S : f[x] \in Int /\ g[x] \in Int /\ h[x] = f[x] + g[x]
    PROVE  SumFunctionOnSet(h, S) = SumFunctionOnSet(f, S) + SumFunctionOnSet(g, S)
<1> DEFINE Bad == {u \in SUBSET S :
        SumFunctionOnSet(h, u) # SumFunctionOnSet(f, u) + SumFunctionOnSet(g, u)}
<1> SUFFICES ASSUME Bad # {} PROVE FALSE
  OBVIOUS
<1>1. PICK u \in Bad : \A t \in SUBSET u : t # u => t \notin Bad
  <2>1. Bad \in SUBSET SUBSET S
    OBVIOUS
  <2> HIDE DEF Bad
  <2> QED BY <2>1, LeastSubset, Zenon
<1>2. IsFiniteSet(u)
  BY FS_Subset
<1>3. CASE u = {}
  BY <1>3, SumOfNone
<1>4. CASE u # {}
  <2> DEFINE r == u \ {Pick(u)}
  <2>1. Pick(u) \in u
    BY <1>4, Picked
  <2>2. r \notin Bad
    BY <1>1, <2>1
  <2>3. SumFunctionOnSet(h, r) = SumFunctionOnSet(f, r) + SumFunctionOnSet(g, r)
    BY <2>2
  <2>4. SumFunctionOnSet(f, r) \in Int /\ SumFunctionOnSet(g, r) \in Int
    BY <1>2, FS_RemoveElement, SumIsInt
  <2>5. /\ SumFunctionOnSet(h, u) = h[Pick(u)] + SumFunctionOnSet(h, r)
        /\ SumFunctionOnSet(f, u) = f[Pick(u)] + SumFunctionOnSet(f, r)
        /\ SumFunctionOnSet(g, u) = g[Pick(u)] + SumFunctionOnSet(g, r)
    BY <1>2, <1>4, SumEquation
  <2>6. /\ f[Pick(u)] \in Int /\ g[Pick(u)] \in Int
        /\ h[Pick(u)] = f[Pick(u)] + g[Pick(u)]
    BY <2>1
  <2> HIDE DEF r
  <2>7. SumFunctionOnSet(h, u) = SumFunctionOnSet(f, u) + SumFunctionOnSet(g, u)
    BY <2>3, <2>4, <2>5, <2>6
  <2> QED BY <2>7
<1> QED BY <1>3, <1>4

(* A common factor may be taken out.                                       *)
LEMMA SumOfMultiples ==
    ASSUME NEW S, IsFiniteSet(S), NEW f, NEW g, NEW k \in Int,
           \A x \in S : f[x] \in Int /\ g[x] = k * f[x]
    PROVE  SumFunctionOnSet(g, S) = k * SumFunctionOnSet(f, S)
<1> DEFINE Bad == {u \in SUBSET S : SumFunctionOnSet(g, u) # k * SumFunctionOnSet(f, u)}
<1> SUFFICES ASSUME Bad # {} PROVE FALSE
  OBVIOUS
<1>1. PICK u \in Bad : \A t \in SUBSET u : t # u => t \notin Bad
  <2>1. Bad \in SUBSET SUBSET S
    OBVIOUS
  <2> HIDE DEF Bad
  <2> QED BY <2>1, LeastSubset, Zenon
<1>2. IsFiniteSet(u)
  BY FS_Subset
<1>3. CASE u = {}
  BY <1>3, SumOfNone
<1>4. CASE u # {}
  <2> DEFINE r == u \ {Pick(u)}
  <2>1. Pick(u) \in u
    BY <1>4, Picked
  <2>2. r \notin Bad
    BY <1>1, <2>1
  <2>3. SumFunctionOnSet(g, r) = k * SumFunctionOnSet(f, r)
    BY <2>2
  <2>4. SumFunctionOnSet(f, r) \in Int
    BY <1>2, FS_RemoveElement, SumIsInt
  <2>5. /\ SumFunctionOnSet(g, u) = g[Pick(u)] + SumFunctionOnSet(g, r)
        /\ SumFunctionOnSet(f, u) = f[Pick(u)] + SumFunctionOnSet(f, r)
    BY <1>2, <1>4, SumEquation
  <2>6. f[Pick(u)] \in Int /\ g[Pick(u)] = k * f[Pick(u)]
    BY <2>1
  <2> HIDE DEF r
  <2>7. \A a, b \in Int : k * (a + b) = k * a + k * b
    OBVIOUS
  <2>8. SumFunctionOnSet(g, u) = k * SumFunctionOnSet(f, u)
    BY <2>3, <2>4, <2>5, <2>6, <2>7
  <2> QED BY <2>8
<1> QED BY <1>3, <1>4

(* Smaller terms have a smaller sum.                                       *)
LEMMA SumIsMonotonic ==
    ASSUME NEW S, IsFiniteSet(S), NEW f, NEW g,
           \A x \in S : f[x] \in Int /\ g[x] \in Int /\ f[x] <= g[x]
    PROVE  SumFunctionOnSet(f, S) <= SumFunctionOnSet(g, S)
<1> DEFINE Bad == {u \in SUBSET S : ~(SumFunctionOnSet(f, u) <= SumFunctionOnSet(g, u))}
<1> SUFFICES ASSUME Bad # {} PROVE FALSE
  OBVIOUS
<1>1. PICK u \in Bad : \A t \in SUBSET u : t # u => t \notin Bad
  <2>1. Bad \in SUBSET SUBSET S
    OBVIOUS
  <2> HIDE DEF Bad
  <2> QED BY <2>1, LeastSubset, Zenon
<1>2. IsFiniteSet(u)
  BY FS_Subset
<1>3. CASE u = {}
  BY <1>3, SumOfNone
<1>4. CASE u # {}
  <2> DEFINE r == u \ {Pick(u)}
  <2>1. Pick(u) \in u
    BY <1>4, Picked
  <2>2. r \notin Bad
    BY <1>1, <2>1
  <2>3. SumFunctionOnSet(f, r) <= SumFunctionOnSet(g, r)
    BY <2>2
  <2>4. SumFunctionOnSet(f, r) \in Int /\ SumFunctionOnSet(g, r) \in Int
    BY <1>2, FS_RemoveElement, SumIsInt
  <2>5. /\ SumFunctionOnSet(g, u) = g[Pick(u)] + SumFunctionOnSet(g, r)
        /\ SumFunctionOnSet(f, u) = f[Pick(u)] + SumFunctionOnSet(f, r)
    BY <1>2, <1>4, SumEquation
  <2>6. f[Pick(u)] \in Int /\ g[Pick(u)] \in Int /\ f[Pick(u)] <= g[Pick(u)]
    BY <2>1
  <2> HIDE DEF r
  <2>7. SumFunctionOnSet(f, u) <= SumFunctionOnSet(g, u)
    BY <2>3, <2>4, <2>5, <2>6
  <2> QED BY <2>7
<1> QED BY <1>3, <1>4

(* A sum of zeros is zero.                                                 *)
LEMMA SumOfZeros ==
    ASSUME NEW S, IsFiniteSet(S), NEW f, \A x \in S : f[x] = 0
    PROVE  SumFunctionOnSet(f, S) = 0
<1>1. \A x \in S : f[x] \in Int /\ f[x] = 0 * f[x]
  OBVIOUS
<1>2. SumFunctionOnSet(f, S) = 0 * SumFunctionOnSet(f, S)
  BY <1>1, SumOfMultiples
<1>3. SumFunctionOnSet(f, S) \in Int
  BY <1>1, SumIsInt
<1> QED BY <1>2, <1>3

(* A sum of ones counts.                                                   *)
LEMMA SumOfOnes ==
    ASSUME NEW S, IsFiniteSet(S), NEW f, \A x \in S : f[x] = 1
    PROVE  SumFunctionOnSet(f, S) = Cardinality(S)
<1> DEFINE Bad == {u \in SUBSET S : SumFunctionOnSet(f, u) # Cardinality(u)}
<1> SUFFICES ASSUME Bad # {} PROVE FALSE
  OBVIOUS
<1>1. PICK u \in Bad : \A t \in SUBSET u : t # u => t \notin Bad
  <2>1. Bad \in SUBSET SUBSET S
    OBVIOUS
  <2> HIDE DEF Bad
  <2> QED BY <2>1, LeastSubset, Zenon
<1>2. IsFiniteSet(u)
  BY FS_Subset
<1>3. CASE u = {}
  BY <1>3, SumOfNone, FS_EmptySet
<1>4. CASE u # {}
  <2> DEFINE r == u \ {Pick(u)}
  <2>1. Pick(u) \in u
    BY <1>4, Picked
  <2>2. r \notin Bad
    BY <1>1, <2>1
  <2>3. SumFunctionOnSet(f, r) = Cardinality(r)
    BY <2>2
  <2>4. Cardinality(r) = Cardinality(u) - 1 /\ Cardinality(u) \in Nat
    BY <1>2, <2>1, FS_RemoveElement, FS_CardinalityType
  <2>5. SumFunctionOnSet(f, u) = f[Pick(u)] + SumFunctionOnSet(f, r)
    BY <1>2, <1>4, SumEquation
  <2>6. f[Pick(u)] = 1
    BY <2>1
  <2> HIDE DEF r
  <2>7. SumFunctionOnSet(f, u) = Cardinality(u)
    BY <2>3, <2>4, <2>5, <2>6
  <2> QED BY <2>7
<1> QED BY <1>3, <1>4

(* The sum over two disjoint sets is the sum of the two sums.              *)
LEMMA SumOverUnion ==
    ASSUME NEW S, IsFiniteSet(S), NEW T, IsFiniteSet(T), S \cap T = {},
           NEW f, \A x \in S \cup T : f[x] \in Int
    PROVE  SumFunctionOnSet(f, S \cup T) = SumFunctionOnSet(f, S) + SumFunctionOnSet(f, T)
<1> DEFINE Bad == {u \in SUBSET T :
        SumFunctionOnSet(f, S \cup u) # SumFunctionOnSet(f, S) + SumFunctionOnSet(f, u)}
<1> SUFFICES ASSUME Bad # {} PROVE FALSE
  OBVIOUS
<1>1. PICK u \in Bad : \A t \in SUBSET u : t # u => t \notin Bad
  <2>1. Bad \in SUBSET SUBSET T
    OBVIOUS
  <2> HIDE DEF Bad
  <2> QED BY <2>1, LeastSubset, Zenon
<1>2. SumFunctionOnSet(f, S) \in Int
  BY SumIsInt
<1>3. CASE u = {}
  <2>1. S \cup u = S
    BY <1>3
  <2>2. SumFunctionOnSet(f, u) = 0
    BY <1>3, SumOfNone
  <2>3. SumFunctionOnSet(f, S \cup u) = SumFunctionOnSet(f, S) + SumFunctionOnSet(f, u)
    <3>1. SumFunctionOnSet(f, S \cup u) = SumFunctionOnSet(f, S)
      BY <2>1, Zenon
    <3> QED BY <3>1, <2>2, <1>2
  <2> QED BY <2>3
<1>4. CASE u # {}
  <2>1. PICK x : x \in u
    BY <1>4
  <2> DEFINE r == u \ {x}
  <2>2. r \notin Bad
    BY <1>1, <2>1
  <2>3. SumFunctionOnSet(f, S \cup r) = SumFunctionOnSet(f, S) + SumFunctionOnSet(f, r)
    BY <2>2
  <2>4. IsFiniteSet(u) /\ IsFiniteSet(r) /\ IsFiniteSet(S \cup r)
    BY FS_Subset, FS_RemoveElement, FS_Union
  <2>5. /\ u = r \cup {x} /\ S \cup u = (S \cup r) \cup {x}
        /\ x \notin r /\ x \notin S \cup r /\ f[x] \in Int
        /\ \A y \in S \cup r : f[y] \in Int
    BY <2>1
  <2> HIDE DEF r
  <2>6. SumFunctionOnSet(f, S \cup u) = SumFunctionOnSet(f, S \cup r) + f[x]
    BY <2>4, <2>5, SumWith
  <2>7. SumFunctionOnSet(f, u) = SumFunctionOnSet(f, r) + f[x]
    BY <2>4, <2>5, SumWith
  <2>8. SumFunctionOnSet(f, r) \in Int
    BY <2>4, <2>5, SumIsInt
  <2>9. SumFunctionOnSet(f, S \cup u) = SumFunctionOnSet(f, S) + SumFunctionOnSet(f, u)
    BY <2>3, <2>5, <2>6, <2>7, <2>8, <1>2
  <2> QED BY <2>9
<1> QED BY <1>3, <1>4

(* To sum over a subset, sum over the whole and count the rest as zero.    *)
LEMMA SumOfSelected ==
    ASSUME NEW S, IsFiniteSet(S), NEW T \in SUBSET S, NEW f, NEW g,
           \A x \in S : f[x] \in Int,
           \A x \in S : g[x] = IF x \in T THEN f[x] ELSE 0
    PROVE  SumFunctionOnSet(f, T) = SumFunctionOnSet(g, S)
<1>1. IsFiniteSet(T) /\ IsFiniteSet(S \ T)
  BY FS_Subset
<1>2. SumFunctionOnSet(g, S \ T) = 0
  BY <1>1, SumOfZeros
<1>3. SumFunctionOnSet(g, T) = SumFunctionOnSet(f, T)
  BY <1>1, SumOfEquals
<1>4. SumFunctionOnSet(g, T \cup (S \ T)) = SumFunctionOnSet(g, T) + SumFunctionOnSet(g, S \ T)
  BY <1>1, SumOverUnion
<1>5. T \cup (S \ T) = S
  OBVIOUS
<1>6. SumFunctionOnSet(g, T) \in Int
  BY <1>1, SumIsInt
<1> QED BY <1>2, <1>3, <1>4, <1>5, <1>6

(* A sum moves by as much as its one changed term.                         *)
LEMMA SumAfterChange ==
    ASSUME NEW S, IsFiniteSet(S), NEW x \in S, NEW f, NEW g,
           \A y \in S : f[y] \in Int, g[x] \in Int, \A y \in S \ {x} : g[y] = f[y]
    PROVE  SumFunctionOnSet(g, S) = SumFunctionOnSet(f, S) + g[x] - f[x]
<1> DEFINE r == S \ {x}
<1>1. IsFiniteSet(r)
  BY FS_RemoveElement
<1>2. SumFunctionOnSet(f, S) = f[x] + SumFunctionOnSet(f, r)
  BY SumWithout
<1>3. \A y \in S : g[y] \in Int
  OBVIOUS
<1>4. SumFunctionOnSet(g, S) = g[x] + SumFunctionOnSet(g, r)
  BY <1>3, SumWithout
<1>5. SumFunctionOnSet(g, r) = SumFunctionOnSet(f, r)
  BY <1>1, SumOfEquals
<1>6. SumFunctionOnSet(f, r) \in Int
  BY <1>1, SumIsInt
<1> QED BY <1>2, <1>4, <1>5, <1>6

(* A one-to-one renaming of the elements does not change the sum.          *)
LEMMA SumOfImage ==
    ASSUME NEW S, IsFiniteSet(S), NEW b, NEW f, NEW g,
           \A x, y \in S : b[x] = b[y] => x = y,
           \A x \in S : g[x] \in Int /\ f[b[x]] = g[x]
    PROVE  /\ IsFiniteSet({b[x] : x \in S})
           /\ SumFunctionOnSet(f, {b[x] : x \in S}) = SumFunctionOnSet(g, S)
<1> DEFINE Image(u) == {b[x] : x \in u}
           Good(u) == /\ IsFiniteSet(Image(u))
                      /\ SumFunctionOnSet(f, Image(u)) = SumFunctionOnSet(g, u)
           Bad == {u \in SUBSET S : ~Good(u)}
<1> SUFFICES ASSUME Bad # {} PROVE FALSE
  OBVIOUS
<1>1. PICK u \in Bad : \A t \in SUBSET u : t # u => t \notin Bad
  <2>1. Bad \in SUBSET SUBSET S
    OBVIOUS
  <2> HIDE DEF Bad
  <2> QED BY <2>1, LeastSubset, Zenon
<1>3. CASE u = {}
  <2>1. Image(u) = {}
    BY <1>3
  <2>2. Good(u)
    BY <2>1, <1>3, SumOfNone, FS_EmptySet
  <2> QED BY <2>2
<1>4. CASE u # {}
  <2>1. PICK x : x \in u
    BY <1>4
  <2> DEFINE r == u \ {x}
  <2>2. r \notin Bad
    BY <1>1, <2>1
  <2>3. Good(r)
    BY <2>2
  <2>4. IsFiniteSet(u) /\ IsFiniteSet(r)
    BY FS_Subset, FS_RemoveElement
  <2>5. u = r \cup {x} /\ x \notin r /\ g[x] \in Int /\ f[b[x]] = g[x]
    BY <2>1
  <2>6. Image(u) = Image(r) \cup {b[x]} /\ b[x] \notin Image(r)
    BY <2>1
  <2>7. \A y \in Image(r) : f[y] \in Int
    BY <2>1
  <2>8. IsFiniteSet(Image(u))
    <3>1. IsFiniteSet(Image(r))
      BY <2>3
    <3> HIDE DEF Image, r
    <3> QED BY <3>1, <2>6, FS_AddElement
  <2>9. SumFunctionOnSet(f, Image(r) \cup {b[x]}) = SumFunctionOnSet(f, Image(r)) + f[b[x]]
    <3> DEFINE I == Image(r)
               e == b[x]
    <3>1. IsFiniteSet(I) /\ f[e] \in Int /\ e \notin I /\ \A y \in I : f[y] \in Int
      BY <2>3, <2>5, <2>6, <2>7
    <3> HIDE DEF I, e
    <3>2. SumFunctionOnSet(f, I \cup {e}) = SumFunctionOnSet(f, I) + f[e]
      BY <3>1, SumWith
    <3> QED BY <3>2 DEF I, e
  <2>10. SumFunctionOnSet(g, r \cup {x}) = SumFunctionOnSet(g, r) + g[x]
    <3>1. \A y \in r : g[y] \in Int
      OBVIOUS
    <3> HIDE DEF r
    <3> QED BY <3>1, <2>4, <2>5, SumWith
  <2>11. SumFunctionOnSet(f, Image(u)) = SumFunctionOnSet(g, u)
    BY <2>3, <2>5, <2>6, <2>9, <2>10
  <2> QED BY <2>8, <2>11
<1> QED BY <1>3, <1>4

(* A function to the integers has an integer sum.                          *)
LEMMA SumsToInt ==
    ASSUME NEW S, IsFiniteSet(S), NEW f \in [S -> Int]
    PROVE  SumFunction(f) = SumFunctionOnSet(f, S) /\ SumFunction(f) \in Int
<1>1. DOMAIN f = S
  OBVIOUS
<1>2. SumFunctionOnSet(f, S) \in Int
  BY SumIsInt
<1> QED BY <1>1, <1>2 DEF SumFunction

(* Changing one value of a function moves its sum by the difference.       *)
LEMMA SumAfterUpdate ==
    ASSUME NEW S, IsFiniteSet(S), NEW f \in [S -> Int], NEW g \in [S -> Int],
           NEW x \in S, NEW v \in Int, g[x] = f[x] + v, \A y \in S \ {x} : g[y] = f[y]
    PROVE  SumFunction(g) = SumFunction(f) + v
<1>1. SumFunction(f) = SumFunctionOnSet(f, S) /\ SumFunction(g) = SumFunctionOnSet(g, S)
  BY SumsToInt
<1>2. SumFunctionOnSet(f, S) \in Int
  BY SumIsInt
<1>3. f[x] \in Int /\ g[x] \in Int /\ \A y \in S : f[y] \in Int
  OBVIOUS
<1>4. SumFunctionOnSet(g, S) = SumFunctionOnSet(f, S) + g[x] - f[x]
  BY <1>3, SumAfterChange
<1> QED BY <1>1, <1>2, <1>3, <1>4

(* Two entries move the sum by what they add.                              *)
LEMMA SumAfterEntries ==
    ASSUME NEW S, IsFiniteSet(S), NEW f \in [S -> Int], NEW g \in [S -> Int],
           NEW x \in S, NEW y \in S, x # y, NEW m \in Int, NEW n \in Int,
           g[x] = f[x] + m, g[y] = f[y] + n, \A z \in S \ {x, y} : g[z] = f[z]
    PROVE  SumFunction(g) = SumFunction(f) + (m + n)
<1> DEFINE e == [f EXCEPT ![x] = f[x] + m]
<1>1. e \in [S -> Int] /\ e[x] = f[x] + m /\ \A z \in S \ {x} : e[z] = f[z]
  OBVIOUS
<1> HIDE DEF e
<1>2. g[y] = e[y] + n /\ \A z \in S \ {y} : g[z] = e[z]
  BY <1>1
<1>3. SumFunction(f) \in Int
  BY SumsToInt
<1>4. SumFunction(e) = SumFunction(f) + m
  BY <1>1, SumAfterUpdate
<1>5. SumFunction(g) = SumFunction(e) + n
  BY <1>1, <1>2, SumAfterUpdate
<1> QED BY <1>3, <1>4, <1>5

(* A sum of terms no larger than k is no larger than k times their number. *)
LEMMA SumIsBounded ==
    ASSUME NEW S, IsFiniteSet(S), NEW f, NEW k \in Int,
           \A x \in S : f[x] \in Int /\ -k <= f[x] /\ f[x] <= k
    PROVE  /\ SumFunctionOnSet(f, S) \in Int
           /\ -(Cardinality(S) * k) <= SumFunctionOnSet(f, S)
           /\ SumFunctionOnSet(f, S) <= Cardinality(S) * k
<1> DEFINE Good(u) == /\ -(Cardinality(u) * k) <= SumFunctionOnSet(f, u)
                      /\ SumFunctionOnSet(f, u) <= Cardinality(u) * k
           Bad == {u \in SUBSET S : ~Good(u)}
<1>0. SumFunctionOnSet(f, S) \in Int
  BY SumIsInt
<1> SUFFICES ASSUME Bad # {} PROVE FALSE
  BY <1>0
<1>1. PICK u \in Bad : \A t \in SUBSET u : t # u => t \notin Bad
  <2>1. Bad \in SUBSET SUBSET S
    OBVIOUS
  <2> HIDE DEF Bad
  <2> QED BY <2>1, LeastSubset, Zenon
<1>2. IsFiniteSet(u)
  BY FS_Subset
<1>3. CASE u = {}
  <2>1. SumFunctionOnSet(f, u) = 0 /\ Cardinality(u) = 0
    BY <1>3, SumOfNone, FS_EmptySet
  <2>2. Good(u)
    BY <2>1
  <2> QED BY <2>2
<1>4. CASE u # {}
  <2>1. PICK x : x \in u
    BY <1>4
  <2> DEFINE r == u \ {x}
  <2>2. r \notin Bad
    BY <1>1, <2>1
  <2>3. Good(r)
    BY <2>2
  <2>4. IsFiniteSet(r) /\ Cardinality(u) = Cardinality(r) + 1 /\ Cardinality(r) \in Nat
    <3>1. IsFiniteSet(r) /\ Cardinality(r) = Cardinality(u) - 1
      BY <1>2, <2>1, FS_RemoveElement
    <3>2. Cardinality(u) \in Nat /\ Cardinality(r) \in Nat
      BY <1>2, <3>1, FS_CardinalityType
    <3> QED BY <3>1, <3>2
  <2>5. SumFunctionOnSet(f, u) = f[x] + SumFunctionOnSet(f, r)
    BY <1>2, <2>1, SumWithout
  <2>6. SumFunctionOnSet(f, r) \in Int
    BY <2>4, SumIsInt
  <2>7. f[x] \in Int /\ -k <= f[x] /\ f[x] <= k
    BY <2>1
  <2> HIDE DEF r
  <2>8. \A n \in Int : (n + 1) * k = n * k + k /\ n * k \in Int
    OBVIOUS
  <2>9. Good(u)
    BY <2>3, <2>4, <2>5, <2>6, <2>7, <2>8
  <2> QED BY <2>9
<1> QED BY <1>3, <1>4
=============================================================================

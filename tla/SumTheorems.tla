----------------------------- MODULE SumTheorems -----------------------------
(***************************************************************************)
(* Lemmas on the sum of a function over a finite set (SumFunction and      *)
(* SumFunctionOnSet of module Functions), for the amounts, principals and  *)
(* balances that the other modules add up.                                 *)
(*                                                                         *)
(* The library defines the sum by a recursive function on the subsets of   *)
(* the set, which TLA+ takes as a CHOOSE: that the function exists, and    *)
(* that the order of the elements does not matter, is proved here.  The    *)
(* induction is the principle of the smallest counterexample: if some      *)
(* subset of a finite set refutes a claim, one of them has no proper       *)
(* subset that does.                                                       *)
(***************************************************************************)
EXTENDS FiniteSetTheorems, TLAPS

\* Every set of natural numbers that is not empty has a least one.
LEMMA LeastNumber ==
  ASSUME NEW N \in SUBSET Nat, N # {}
  PROVE  \E m \in N : \A n \in N : m <= n
<1>1. IsWellFoundedOn(OpToRel(<, Nat), Nat)
  BY NatLessThanWellFounded
<1>2. PICK m \in N : \A n \in N : ~ (<<n, m>> \in OpToRel(<, Nat))
  BY <1>1, WFMin
<1>3. \A n \in N : ~ (n < m)
  BY <1>2 DEF OpToRel
<1> QED
  BY <1>3

\* A family of subsets of a finite set that is not empty has a minimal member.
LEMMA MinimalSet ==
  ASSUME NEW S, IsFiniteSet(S), NEW Family \in SUBSET SUBSET S, Family # {}
  PROVE  \E s \in Family : \A t \in Family : t \subseteq s => t = s
<1>1. \A s \in Family : IsFiniteSet(s) /\ Cardinality(s) \in Nat
  BY FS_Subset, FS_CardinalityType
<1> DEFINE Sizes == {Cardinality(s) : s \in Family}
<1>2. Sizes \in SUBSET Nat /\ Sizes # {}
  BY <1>1
<1>3. PICK m \in Sizes : \A n \in Sizes : m <= n
  BY <1>2, LeastNumber
<1>4. PICK s \in Family : Cardinality(s) = m
  OBVIOUS
<1>5. ASSUME NEW t \in Family, t \subseteq s
      PROVE  t = s
  <2>1. Cardinality(t) <= Cardinality(s) /\ (Cardinality(s) = Cardinality(t) => s = t)
    BY <1>1, <1>5, FS_Subset
  <2>2. Cardinality(s) <= Cardinality(t)
    BY <1>3, <1>4
  <2> QED
    BY <1>1, <2>1, <2>2
<1> QED
  BY <1>4, <1>5

-----------------------------------------------------------------------------
(* The recursion of the library's definition *)

Picked(s) == CHOOSE x \in s : TRUE

Rest(s) == s \ {Picked(s)}

\* g is the function that the sum of f over S is defined by.
SumsUp(f, S, g) == g = [s \in SUBSET S |-> IF s = {} THEN 0 ELSE f[Picked(s)] + g[Rest(s)]]

LEMMA SumIsChosen ==
  ASSUME NEW f, NEW S
  PROVE  SumFunctionOnSet(f, S) = (CHOOSE g : SumsUp(f, S, g))[S]
BY DEF SumFunctionOnSet, FoldFunctionOnSet, MapThenFoldSet, SumsUp, Picked, Rest

LEMMA RestIsSmaller ==
  ASSUME NEW s, s # {}
  PROVE  Picked(s) \in s /\ Rest(s) \subseteq s /\ Rest(s) # s
BY DEF Picked, Rest

\* Two such functions agree on what both are defined for.
LEMMA SumsAgree ==
  ASSUME NEW f, NEW S, IsFiniteSet(S), NEW g, SumsUp(f, S, g), NEW T, NEW h, SumsUp(f, T, h),
         NEW s, s \subseteq S, s \subseteq T
  PROVE  g[s] = h[s]
<1> DEFINE Apart == {u \in SUBSET S : u \subseteq T /\ g[u] # h[u]}
<1>1. SUFFICES ASSUME Apart # {}
               PROVE  FALSE
  OBVIOUS
<1>2. Apart \in SUBSET SUBSET S
  OBVIOUS
<1>3. PICK u \in Apart : \A v \in Apart : v \subseteq u => v = u
  <2> HIDE DEF Apart
  <2> QED
    BY <1>1, <1>2, MinimalSet
<1>4. g[u] = (IF u = {} THEN 0 ELSE f[Picked(u)] + g[Rest(u)])
  BY DEF SumsUp
<1>5. h[u] = (IF u = {} THEN 0 ELSE f[Picked(u)] + h[Rest(u)])
  BY DEF SumsUp
<1>6. u # {}
  BY <1>4, <1>5
<1>7. Rest(u) \notin Apart /\ Rest(u) \subseteq S /\ Rest(u) \subseteq T
  BY <1>3, <1>6, RestIsSmaller
<1> QED
  BY <1>4, <1>5, <1>6, <1>7

\* A finite set has one, and the sum over the set obeys its equation.
LEMMA SumExists ==
  ASSUME NEW f, NEW S, IsFiniteSet(S)
  PROVE  \E g : SumsUp(f, S, g)
<1> DEFINE Undefined == {s \in SUBSET S : ~ \E g : SumsUp(f, s, g)}
<1>1. SUFFICES ASSUME Undefined # {}
               PROVE  FALSE
  OBVIOUS
<1>2. PICK s \in Undefined : \A t \in Undefined : t \subseteq s => t = s
  <2>1. Undefined \in SUBSET SUBSET S
    OBVIOUS
  <2> HIDE DEF Undefined
  <2> QED
    BY <1>1, <2>1, MinimalSet
<1> DEFINE Sum(t) == SumFunctionOnSet(f, t)
           G == [t \in SUBSET s |-> IF t = {} THEN 0 ELSE f[Picked(t)] + Sum(Rest(t))]
<1>3. ASSUME NEW t \in SUBSET s, t # s
      PROVE  \E g : SumsUp(f, t, g) /\ Sum(t) = g[t]
  <2>1. \E g : SumsUp(f, t, g)
    BY <1>2, <1>3
  <2>2. SumsUp(f, t, CHOOSE g : SumsUp(f, t, g))
    BY <2>1, Zenon
  <2> QED
    BY <2>2, SumIsChosen, Zenon
<1>4. ASSUME NEW t \in SUBSET s, t # s
      PROVE  Sum(t) = (IF t = {} THEN 0 ELSE f[Picked(t)] + Sum(Rest(t)))
  <2>1. PICK g : SumsUp(f, t, g) /\ Sum(t) = g[t]
    BY <1>3, <1>4, Zenon
  <2>2. g[t] = (IF t = {} THEN 0 ELSE f[Picked(t)] + g[Rest(t)])
    BY <2>1 DEF SumsUp
  <2>3. ASSUME t # {}
        PROVE  g[Rest(t)] = Sum(Rest(t))
    <3>1. Rest(t) \in SUBSET s /\ Rest(t) # s /\ Rest(t) \subseteq t
      BY <1>4, <2>3, RestIsSmaller
    <3>2. PICK h : SumsUp(f, Rest(t), h) /\ Sum(Rest(t)) = h[Rest(t)]
      BY <3>1, <1>3, Zenon
    <3>3. IsFiniteSet(t)
      BY FS_Subset
    <3>4. g[Rest(t)] = h[Rest(t)]
      BY <2>1, <3>1, <3>2, <3>3, SumsAgree
    <3> QED
      BY <3>2, <3>4
  <2> QED
    BY <2>1, <2>2, <2>3, Zenon
<1>5. \A t \in SUBSET s : t # s => G[t] = Sum(t)
  BY <1>4
<1>6. \A t \in SUBSET s : t # {} => G[Rest(t)] = Sum(Rest(t))
  <2>1. \A t \in SUBSET s : t # {} => Rest(t) \in SUBSET s /\ Rest(t) # s
    BY RestIsSmaller
  <2> HIDE DEF G, Sum
  <2> QED
    BY <1>5, <2>1
<1>7. SumsUp(f, s, G)
  <2>1. G = [t \in SUBSET s |-> IF t = {} THEN 0 ELSE f[Picked(t)] + G[Rest(t)]]
    BY <1>6
  <2> QED
    BY <2>1 DEF SumsUp
<1> QED
  BY <1>2, <1>7

LEMMA SumEquation ==
  ASSUME NEW f, NEW S, IsFiniteSet(S)
  PROVE  SumFunctionOnSet(f, S) =
           IF S = {} THEN 0 ELSE f[Picked(S)] + SumFunctionOnSet(f, Rest(S))
<1>1. ASSUME NEW T, IsFiniteSet(T)
      PROVE  \E g : SumsUp(f, T, g) /\ SumFunctionOnSet(f, T) = g[T]
  <2>1. SumsUp(f, T, CHOOSE g : SumsUp(f, T, g))
    BY <1>1, SumExists, Zenon
  <2> QED
    BY <2>1, SumIsChosen, Zenon
<1>2. PICK g : SumsUp(f, S, g) /\ SumFunctionOnSet(f, S) = g[S]
  BY <1>1, Zenon
<1>3. g[S] = (IF S = {} THEN 0 ELSE f[Picked(S)] + g[Rest(S)])
  BY <1>2 DEF SumsUp
<1>4. IsFiniteSet(Rest(S)) /\ Rest(S) \subseteq S
  BY FS_RemoveElement DEF Rest
<1>5. PICK h : SumsUp(f, Rest(S), h) /\ SumFunctionOnSet(f, Rest(S)) = h[Rest(S)]
  BY <1>1, <1>4, Zenon
<1>6. g[Rest(S)] = h[Rest(S)]
  BY <1>2, <1>4, <1>5, SumsAgree
<1> QED
  BY <1>2, <1>3, <1>5, <1>6, Zenon

-----------------------------------------------------------------------------
(* Sums of integers over a finite set *)

LEMMA SumOfNone ==
  ASSUME NEW f
  PROVE  SumFunctionOnSet(f, {}) = 0
BY SumEquation, FS_EmptySet

\* Equal terms have equal sums.
LEMMA SumOfEquals ==
  ASSUME NEW S, IsFiniteSet(S), NEW f, NEW g, \A x \in S : f[x] = g[x]
  PROVE  SumFunctionOnSet(f, S) = SumFunctionOnSet(g, S)
<1> DEFINE Apart == {s \in SUBSET S : SumFunctionOnSet(f, s) # SumFunctionOnSet(g, s)}
<1>1. SUFFICES ASSUME Apart # {}
               PROVE  FALSE
  OBVIOUS
<1>2. PICK s \in Apart : \A t \in Apart : t \subseteq s => t = s
  <2>1. Apart \in SUBSET SUBSET S
    OBVIOUS
  <2> HIDE DEF Apart
  <2> QED
    BY <1>1, <2>1, MinimalSet
<1>3. IsFiniteSet(s)
  BY FS_Subset
<1>4. /\ SumFunctionOnSet(f, s) = (IF s = {} THEN 0 ELSE f[Picked(s)] + SumFunctionOnSet(f, Rest(s)))
      /\ SumFunctionOnSet(g, s) = (IF s = {} THEN 0 ELSE g[Picked(s)] + SumFunctionOnSet(g, Rest(s)))
  BY <1>3, SumEquation
<1>5. s # {}
  BY <1>4
<1>6. Picked(s) \in S /\ Rest(s) \in SUBSET S /\ Rest(s) \notin Apart
  BY <1>2, <1>5, RestIsSmaller
<1> QED
  BY <1>4, <1>5, <1>6

\* The sum is an integer, and any element may be taken out of it.
LEMMA SumOnSet ==
  ASSUME NEW S, IsFiniteSet(S), NEW f, \A x \in S : f[x] \in Int
  PROVE  /\ SumFunctionOnSet(f, S) \in Int
         /\ \A x \in S : SumFunctionOnSet(f, S) = f[x] + SumFunctionOnSet(f, S \ {x})
<1> DEFINE Sum(s) == SumFunctionOnSet(f, s)
           Claim(s) == Sum(s) \in Int /\ \A x \in s : Sum(s) = f[x] + Sum(s \ {x})
           Refuted == {s \in SUBSET S : ~ Claim(s)}
<1>1. SUFFICES ASSUME Refuted # {}
               PROVE  FALSE
  OBVIOUS
<1>2. PICK s \in Refuted : \A t \in Refuted : t \subseteq s => t = s
  <2>1. Refuted \in SUBSET SUBSET S
    OBVIOUS
  <2> HIDE DEF Refuted
  <2> QED
    BY <1>1, <2>1, MinimalSet
<1>3. Sum(s) = (IF s = {} THEN 0 ELSE f[Picked(s)] + Sum(Rest(s)))
  BY FS_Subset, SumEquation
<1>4. \A t \in SUBSET s : t # s => Claim(t)
  BY <1>2
<1> HIDE DEF Sum
<1>5. CASE s = {}
  BY <1>2, <1>3, <1>5
<1>6. CASE s # {}
  <2>1. Picked(s) \in s /\ Rest(s) \in SUBSET s /\ Rest(s) # s
    BY <1>6, RestIsSmaller
  <2>2. Sum(s) = f[Picked(s)] + Sum(Rest(s)) /\ Sum(Rest(s)) \in Int
    BY <1>3, <1>4, <1>6, <2>1
  <2>3. f[Picked(s)] \in Int
    BY <2>1
  <2>4. ASSUME NEW x \in s, x # Picked(s)
        PROVE  Sum(s) = f[x] + Sum(s \ {x})
    <3>1. x \in Rest(s) /\ s \ {x} \in SUBSET s /\ s \ {x} # s /\ Picked(s) \in s \ {x}
      BY <2>1, <2>4 DEF Rest
    <3>2. Sum(Rest(s)) = f[x] + Sum(Rest(s) \ {x})
      BY <1>4, <2>1, <3>1
    <3>3. Sum(s \ {x}) = f[Picked(s)] + Sum((s \ {x}) \ {Picked(s)})
      BY <1>4, <3>1
    <3>4. (s \ {x}) \ {Picked(s)} = Rest(s) \ {x} /\ Rest(s) \ {x} \in SUBSET s /\ Rest(s) \ {x} # s
      BY <2>1 DEF Rest
    <3>5. Sum(Rest(s) \ {x}) \in Int /\ f[x] \in Int
      BY <1>4, <3>4
    <3>6. Sum((s \ {x}) \ {Picked(s)}) = Sum(Rest(s) \ {x})
      BY <3>4
    <3> QED
      BY <2>2, <2>3, <3>2, <3>3, <3>5, <3>6
  <2>5. Sum(s) \in Int /\ Sum(s) = f[Picked(s)] + Sum(s \ {Picked(s)})
    BY <2>2, <2>3 DEF Rest
  <2> QED
    BY <1>2, <2>4, <2>5
<1> QED
  BY <1>5, <1>6

\* The terms may be summed in the place of others they correspond to one to one.
LEMMA SumOfImage ==
  ASSUME NEW S, IsFiniteSet(S), NEW f, \A x \in S : f[x] \in Int, NEW g, NEW h,
         \A x \in S : g[h[x]] = f[x],
         \A x, y \in S : h[x] = h[y] => x = y
  PROVE  /\ IsFiniteSet({h[x] : x \in S})
         /\ SumFunctionOnSet(g, {h[x] : x \in S}) = SumFunctionOnSet(f, S)
<1> DEFINE Image(s) == {h[x] : x \in s}
           Claim(s) == IsFiniteSet(Image(s)) /\ SumFunctionOnSet(g, Image(s)) = SumFunctionOnSet(f, s)
           Refuted == {s \in SUBSET S : ~ Claim(s)}
<1>1. SUFFICES ASSUME Refuted # {}
               PROVE  FALSE
  OBVIOUS
<1>2. PICK s \in Refuted : \A t \in Refuted : t \subseteq s => t = s
  <2>1. Refuted \in SUBSET SUBSET S
    OBVIOUS
  <2> HIDE DEF Refuted
  <2> QED
    BY <1>1, <2>1, MinimalSet
<1>3. CASE s = {}
  <2>1. Image(s) = {}
    BY <1>3
  <2> QED
    BY <1>2, <1>3, <2>1, SumOfNone, FS_EmptySet
<1>4. CASE s # {}
  <2>1. PICK x \in s : TRUE
    BY <1>4
  <2> DEFINE t == s \ {x}
  <2>2. Claim(t)
    BY <1>2
  <2>3. Image(s) = Image(t) \cup {h[x]} /\ h[x] \notin Image(t)
    OBVIOUS
  <2>4. IsFiniteSet(Image(s)) /\ Image(s) \ {h[x]} = Image(t)
    <3> HIDE DEF Image
    <3>1. IsFiniteSet(Image(t) \cup {h[x]})
      BY <2>2, FS_AddElement
    <3> QED
      BY <2>3, <3>1
  <2>5. \A y \in Image(s) : g[y] \in Int
    OBVIOUS
  <2>6. h[x] \in Image(s) /\ g[h[x]] = f[x]
    OBVIOUS
  <2>7. SumFunctionOnSet(g, Image(s)) = f[x] + SumFunctionOnSet(g, Image(t))
    <3> HIDE DEF Image
    <3>1. SumFunctionOnSet(g, Image(s)) = g[h[x]] + SumFunctionOnSet(g, Image(s) \ {h[x]})
      BY <2>4, <2>5, <2>6, SumOnSet
    <3> QED
      BY <2>4, <2>6, <3>1
  <2>8. IsFiniteSet(s) /\ \A y \in s : f[y] \in Int
    BY FS_Subset
  <2>9. SumFunctionOnSet(f, s) = f[x] + SumFunctionOnSet(f, t)
    BY <2>8, SumOnSet
  <2> QED
    BY <1>2, <2>2, <2>4, <2>7, <2>9
<1> QED
  BY <1>3, <1>4

\* Terms that are not negative have a sum that is not, and a part of them no more.
LEMMA SumOfNaturals ==
  ASSUME NEW S, IsFiniteSet(S), NEW f, \A x \in S : f[x] \in Nat
  PROVE  /\ SumFunctionOnSet(f, S) \in Nat
         /\ \A T \in SUBSET S : SumFunctionOnSet(f, T) <= SumFunctionOnSet(f, S)
<1> DEFINE Sum(s) == SumFunctionOnSet(f, s)
           Claim(s) == Sum(s) \in Nat /\ \A T \in SUBSET s : Sum(T) <= Sum(s)
           Refuted == {s \in SUBSET S : ~ Claim(s)}
<1>1. SUFFICES ASSUME Refuted # {}
               PROVE  FALSE
  OBVIOUS
<1>2. PICK s \in Refuted : \A t \in Refuted : t \subseteq s => t = s
  <2>1. Refuted \in SUBSET SUBSET S
    OBVIOUS
  <2> HIDE DEF Refuted
  <2> QED
    BY <1>1, <2>1, MinimalSet
<1>3. \A t \in SUBSET s : t # s => Claim(t)
  BY <1>2
<1>4. ASSUME NEW x \in s
      PROVE  Sum(s) = f[x] + Sum(s \ {x}) /\ f[x] \in Nat
  <2>1. IsFiniteSet(s) /\ \A y \in s : f[y] \in Nat
    BY FS_Subset
  <2>2. \A y \in s : f[y] \in Int
    BY <2>1
  <2>3. SumFunctionOnSet(f, s) = f[x] + SumFunctionOnSet(f, s \ {x})
    BY <2>1, <2>2, SumOnSet
  <2> QED
    BY <2>1, <2>3
<1>5. s = {} => Sum(s) = 0
  BY SumOfNone
<1> HIDE DEF Sum
<1>6. Sum(s) \in Nat
  <2>1. ASSUME NEW x \in s
        PROVE  Sum(s) \in Nat
    <3>1. Claim(s \ {x})
      BY <1>3, <2>1
    <3> QED
      BY <1>4, <3>1
  <2> QED
    BY <1>5, <2>1
<1>7. ASSUME NEW T \in SUBSET s, T # s
      PROVE  Sum(T) <= Sum(s)
  <2>1. PICK x \in s : x \notin T
    BY <1>7
  <2>2. Claim(s \ {x}) /\ T \in SUBSET (s \ {x})
    BY <1>3, <2>1
  <2>3. Sum(T) <= Sum(s \ {x}) /\ Sum(s \ {x}) \in Nat
    BY <2>2
  <2>4. Claim(T)
    BY <1>3, <1>7
  <2> QED
    BY <1>4, <2>3, <2>4
<1> QED
  BY <1>2, <1>6, <1>7

-----------------------------------------------------------------------------
(* Sums of functions: a row more, a row less, a row changed *)

LEMMA SumType ==
  ASSUME NEW S, IsFiniteSet(S), NEW f \in [S -> Int]
  PROVE  /\ SumFunction(f) \in Int
         /\ f \in [S -> Nat] => SumFunction(f) \in Nat
         /\ S = {} => SumFunction(f) = 0
<1>1. SumFunction(f) = SumFunctionOnSet(f, S)
  BY DEF SumFunction
<1>2. f \in [S -> Nat] => \A x \in S : f[x] \in Nat
  OBVIOUS
<1>3. \A x \in S : f[x] \in Int
  OBVIOUS
<1> QED
  BY <1>1, <1>2, <1>3, SumOnSet, SumOfNaturals, SumOfNone

LEMMA SumWith ==
  ASSUME NEW S, IsFiniteSet(S), NEW f \in [S -> Int], NEW x, x \notin S,
         NEW g \in [S \cup {x} -> Int], \A y \in S : g[y] = f[y]
  PROVE  SumFunction(g) = SumFunction(f) + g[x]
<1>1. SumFunction(g) = SumFunctionOnSet(g, S \cup {x}) /\ SumFunction(f) = SumFunctionOnSet(f, S)
  BY DEF SumFunction
<1>2. IsFiniteSet(S \cup {x}) /\ \A y \in S \cup {x} : g[y] \in Int
  BY FS_AddElement
<1>3. SumFunctionOnSet(g, S \cup {x}) = g[x] + SumFunctionOnSet(g, (S \cup {x}) \ {x})
  BY <1>2, SumOnSet
<1>4. (S \cup {x}) \ {x} = S
  OBVIOUS
<1>5. SumFunctionOnSet(g, S) = SumFunctionOnSet(f, S)
  BY SumOfEquals
<1>6. SumFunction(f) \in Int /\ g[x] \in Int
  BY SumType
<1>7. SumFunction(g) = g[x] + SumFunction(f)
  BY <1>1, <1>3, <1>4, <1>5, Zenon
<1> QED
  BY <1>6, <1>7

LEMMA SumWithout ==
  ASSUME NEW S, IsFiniteSet(S), NEW f \in [S -> Int], NEW x \in S,
         NEW g \in [S \ {x} -> Int], \A y \in S \ {x} : g[y] = f[y]
  PROVE  SumFunction(g) = SumFunction(f) - f[x]
<1>1. IsFiniteSet(S \ {x}) /\ x \notin S \ {x} /\ (S \ {x}) \cup {x} = S
  BY FS_RemoveElement
<1>2. SumFunction(f) = SumFunction(g) + f[x]
  <2>1. f \in [(S \ {x}) \cup {x} -> Int] /\ \A y \in S \ {x} : f[y] = g[y]
    BY <1>1
  <2> QED
    BY <1>1, <2>1, SumWith
<1>3. SumFunction(g) \in Int /\ f[x] \in Int
  BY <1>1, SumType
<1> QED
  BY <1>2, <1>3

LEMMA SumChanged ==
  ASSUME NEW S, IsFiniteSet(S), NEW f \in [S -> Int], NEW x \in S,
         NEW g \in [S -> Int], \A y \in S \ {x} : g[y] = f[y]
  PROVE  SumFunction(g) = SumFunction(f) - f[x] + g[x]
<1> DEFINE rest == [y \in S \ {x} |-> f[y]]
<1>1. rest \in [S \ {x} -> Int] /\ \A y \in S \ {x} : rest[y] = f[y] /\ rest[y] = g[y]
  OBVIOUS
<1> HIDE DEF rest
<1>2. SumFunction(rest) = SumFunction(f) - f[x]
  BY <1>1, SumWithout
<1>3. SumFunction(rest) = SumFunction(g) - g[x]
  BY <1>1, SumWithout
<1>4. SumFunction(f) \in Int /\ SumFunction(g) \in Int /\ f[x] \in Int /\ g[x] \in Int
  BY SumType
<1> QED
  BY <1>2, <1>3, <1>4

\* Rows that are rewritten, each to a row of its own and without change to its
\* amount, add up to the same.
LEMMA SumRewritten ==
  ASSUME NEW S, IsFiniteSet(S), NEW f \in [S -> Int], NEW h,
         \A x, y \in S : h[x] = h[y] => x = y,
         NEW g \in [{h[x] : x \in S} -> Int], \A x \in S : g[h[x]] = f[x]
  PROVE  SumFunction(g) = SumFunction(f)
<1>1. SumFunction(g) = SumFunctionOnSet(g, {h[x] : x \in S}) /\ SumFunction(f) = SumFunctionOnSet(f, S)
  BY DEF SumFunction
<1>2. \A x \in S : f[x] \in Int
  OBVIOUS
<1> QED
  BY <1>1, <1>2, SumOfImage

\* Amounts that are all found, one to one, among others add up to no more.
LEMMA SumEmbedded ==
  ASSUME NEW S, IsFiniteSet(S), NEW f \in [S -> Nat], NEW T, IsFiniteSet(T), NEW g \in [T -> Nat],
         NEW h \in [S -> T],
         \A x, y \in S : h[x] = h[y] => x = y, \A x \in S : g[h[x]] = f[x]
  PROVE  SumFunction(f) <= SumFunction(g)
<1> DEFINE Image == {h[x] : x \in S}
<1>1. SumFunction(g) = SumFunctionOnSet(g, T) /\ SumFunction(f) = SumFunctionOnSet(f, S)
  BY DEF SumFunction
<1>2. (\A x \in S : f[x] \in Int) /\ \A y \in T : g[y] \in Nat
  OBVIOUS
<1>3. SumFunctionOnSet(g, Image) = SumFunctionOnSet(f, S)
  BY <1>2, SumOfImage
<1>4. Image \in SUBSET T
  OBVIOUS
<1> HIDE DEF Image
<1>5. SumFunctionOnSet(g, Image) <= SumFunctionOnSet(g, T)
  BY <1>2, <1>4, SumOfNaturals
<1> QED
  BY <1>1, <1>3, <1>5

-----------------------------------------------------------------------------
(* The greatest number of a set *)

\* A finite set of numbers has a greatest one.
LEMMA GreatestNumber ==
  ASSUME NEW numbers, IsFiniteSet(numbers), numbers # {}
  PROVE  numbers \subseteq Int => \E n \in numbers : \A m \in numbers : m <= n
<1> DEFINE Above(n) == {m \in numbers : m > n}
           Tails == {Above(n) : n \in numbers}
<1>1. Tails \in SUBSET SUBSET numbers /\ Tails # {}
  OBVIOUS
<1>2. /\ \A n \in numbers : Above(n) \in Tails /\ Above(n) \subseteq numbers
      /\ \A T \in Tails : \E n \in numbers : T = Above(n)
      /\ \A n, m \in numbers : m \in Above(n) <=> m > n
  OBVIOUS
<1> HIDE DEF Above, Tails
<1>3. \E T \in Tails : \A U \in Tails : U \subseteq T => U = T
  BY <1>1, MinimalSet
<1>4. PICK n \in numbers : \A U \in Tails : U \subseteq Above(n) => U = Above(n)
  BY <1>2, <1>3
<1>5. HAVE numbers \subseteq Int
<1>6. \A m \in numbers : m \in Int
  BY <1>5
<1>7. ASSUME NEW m \in numbers, m > n PROVE FALSE
  <2>1. Above(m) \subseteq Above(n)
    <3>1. ASSUME NEW k \in Above(m) PROVE k \in Above(n)
      <4>1. k \in numbers
        BY <1>2, <3>1
      <4>2. k > m
        BY <1>2, <3>1, <4>1
      <4>3. k > n
        BY <1>6, <1>7, <4>1, <4>2
      <4> QED
        BY <1>2, <4>1, <4>3
    <3> QED
      BY <3>1
  <2>2. m \in Above(n) /\ m \notin Above(m)
    BY <1>2, <1>6, <1>7
  <2> QED
    BY <1>2, <1>4, <2>1, <2>2
<1>8. \A m \in numbers : n >= m
  BY <1>6, <1>7
<1> QED
  BY <1>6, <1>8

\* What a function makes of a finite set is finite.
LEMMA ImageIsFinite ==
  ASSUME NEW S, IsFiniteSet(S), NEW h
  PROVE  IsFiniteSet({h[x] : x \in S})
<1> DEFINE T == {h[x] : x \in S}
           g == [x \in S |-> h[x]]
<1>1. g \in Surjection(S, T)
  BY DEF Surjection
<1> QED
  BY <1>1, FS_Surjection, Zenon

-----------------------------------------------------------------------------
(* Sums over parts of a set *)

Summable(S, f) == IsFiniteSet(S) /\ \A x \in S : f[x] \in Int

\* The sum of a function that is another one's on a part of its set.
LEMMA SumOfPart ==
  ASSUME NEW S, IsFiniteSet(S), NEW f, NEW g, DOMAIN g = S, \A x \in S : g[x] = f[x]
  PROVE  SumFunction(g) = SumFunctionOnSet(f, S)
<1>1. SumFunction(g) = SumFunctionOnSet(g, S)
  BY DEF SumFunction
<1> QED
  BY <1>1, SumOfEquals

LEMMA SumOfUnion ==
  ASSUME NEW S, NEW f, Summable(S, f),
         NEW T, T \subseteq S, NEW U, U \subseteq S, T \cap U = {}
  PROVE  /\ SumFunctionOnSet(f, T) \in Int /\ SumFunctionOnSet(f, U) \in Int
         /\ SumFunctionOnSet(f, T \cup U) = SumFunctionOnSet(f, T) + SumFunctionOnSet(f, U)
<1> DEFINE Sum(s) == SumFunctionOnSet(f, s)
           Refuted == {s \in SUBSET U : Sum(T \cup s) # Sum(T) + Sum(s)}
<1>1. ASSUME NEW s \in SUBSET S
      PROVE  Sum(s) \in Int /\ \A x \in s : Sum(s) = f[x] + Sum(s \ {x})
  <2>1. IsFiniteSet(s) /\ \A y \in s : f[y] \in Int
    BY FS_Subset DEF Summable
  <2> QED
    BY <2>1, SumOnSet
<1>2. Sum({}) = 0
  BY SumOfNone
<1> HIDE DEF Sum
<1>3. ASSUME Refuted # {} PROVE FALSE
  <2>1. PICK s \in Refuted : \A t \in Refuted : t \subseteq s => t = s
    <3>1. Refuted \in SUBSET SUBSET U /\ IsFiniteSet(U)
      BY FS_Subset DEF Summable
    <3> HIDE DEF Refuted
    <3> QED
      BY <1>3, <3>1, MinimalSet DEF Summable
  <2>2. s # {}
    <3>1. T \cup {} = T /\ Sum(T) \in Int
      BY <1>1
    <3>2. Sum(T) = Sum(T) + 0
      BY <3>1
    <3>3. ASSUME s = {} PROVE FALSE
      <4>1. Sum(T \cup s) = Sum(T) /\ Sum(s) = 0
        BY <1>2, <3>1, <3>3
      <4> QED
        BY <2>1, <3>2, <4>1
    <3> QED
      BY <3>3
  <2>3. PICK x \in s : TRUE
    BY <2>2
  <2>4. s \ {x} \in SUBSET U /\ s \ {x} # s
    BY <2>3
  <2>5. Sum(T \cup (s \ {x})) = Sum(T) + Sum(s \ {x})
    BY <2>1, <2>4
  <2>6. (T \cup s) \ {x} = T \cup (s \ {x}) /\ x \in T \cup s /\ T \cup s \in SUBSET S
    BY <2>3
  <2>7. Sum(T \cup s) = f[x] + Sum(T \cup (s \ {x})) /\ Sum(s) = f[x] + Sum(s \ {x})
    BY <1>1, <2>3, <2>6
  <2>8. f[x] \in Int /\ Sum(T) \in Int /\ Sum(s \ {x}) \in Int
    BY <1>1, <2>3 DEF Summable
  <2> QED
    BY <2>1, <2>5, <2>7, <2>8
<1>4. Sum(T \cup U) = Sum(T) + Sum(U)
  BY <1>3
<1> QED
  BY <1>1, <1>4 DEF Sum

\* What the sum of a function takes at every step.
SumsStepwise(S, f, F) == F[{}] = 0 /\ \A s \in SUBSET S : \A x \in s : F[s] = f[x] + F[s \ {x}]

\* A sum of what a rule makes of every value: only its own steps matter.
LEMMA SumsFollow ==
  ASSUME NEW S, NEW f, Summable(S, f), NEW F, SumsStepwise(S, f, F)
  PROVE  SumFunctionOnSet(f, S) = F[S]
<1> DEFINE Sum(s) == SumFunctionOnSet(f, s)
           Refuted == {s \in SUBSET S : Sum(s) # F[s]}
<1>1. ASSUME NEW s \in SUBSET S
      PROVE  \A x \in s : Sum(s) = f[x] + Sum(s \ {x})
  <2>1. IsFiniteSet(s) /\ \A y \in s : f[y] \in Int
    BY FS_Subset DEF Summable
  <2> QED
    BY <2>1, SumOnSet
<1>2. Sum({}) = 0
  BY SumOfNone
<1> HIDE DEF Sum
<1>3. ASSUME Refuted # {} PROVE FALSE
  <2>1. PICK s \in Refuted : \A t \in Refuted : t \subseteq s => t = s
    <3>1. Refuted \in SUBSET SUBSET S
      OBVIOUS
    <3> HIDE DEF Refuted
    <3> QED
      BY <1>3, <3>1, MinimalSet DEF Summable
  <2>2. PICK x \in s : TRUE
    BY <1>2, <2>1 DEF SumsStepwise
  <2>3. s \ {x} \in SUBSET S /\ s \ {x} # s
    BY <2>2
  <2>4. Sum(s \ {x}) = F[s \ {x}]
    BY <2>1, <2>3
  <2>5. Sum(s) = f[x] + Sum(s \ {x}) /\ F[s] = f[x] + F[s \ {x}]
    BY <1>1, <2>2 DEF SumsStepwise
  <2> QED
    BY <2>1, <2>4, <2>5
<1>4. Sum(S) = F[S]
  BY <1>3
<1> QED
  BY <1>4 DEF Sum

LEMMA SumNegated ==
  ASSUME NEW S, IsFiniteSet(S), NEW f, NEW g, \A x \in S : f[x] \in Int /\ g[x] = -f[x]
  PROVE  SumFunctionOnSet(g, S) = -SumFunctionOnSet(f, S)
<1> DEFINE Sum(s) == SumFunctionOnSet(f, s)
           F == [s \in SUBSET S |-> -Sum(s)]
<1>1. ASSUME NEW s \in SUBSET S
      PROVE  Sum(s) \in Int /\ \A x \in s : Sum(s) = f[x] + Sum(s \ {x})
  <2>1. IsFiniteSet(s) /\ \A y \in s : f[y] \in Int
    BY FS_Subset
  <2> QED
    BY <2>1, SumOnSet
<1>2. Sum({}) = 0
  BY SumOfNone
<1> HIDE DEF Sum
<1>3. F[{}] = 0
  BY <1>2
<1>4. ASSUME NEW s \in SUBSET S, NEW x \in s PROVE F[s] = g[x] + F[s \ {x}]
  <2>1. s \ {x} \in SUBSET S /\ x \in S
    OBVIOUS
  <2>2. Sum(s \ {x}) \in Int /\ f[x] \in Int /\ g[x] = -f[x] /\ Sum(s) = f[x] + Sum(s \ {x})
    BY <1>1, <2>1
  <2>3. -Sum(s) = g[x] + (-Sum(s \ {x}))
    BY <2>2
  <2> QED
    BY <2>1, <2>3
<1>5. \A x \in S : g[x] \in Int
  OBVIOUS
<1>6. SumFunctionOnSet(g, S) = F[S]
  <2>1. \A s \in SUBSET S : \A x \in s : F[s] = g[x] + F[s \ {x}]
    BY <1>4
  <2> HIDE DEF F
  <2> QED
    BY <1>3, <1>5, <2>1, SumsFollow DEF SumsStepwise, Summable
<1>7. F[S] = -Sum(S)
  OBVIOUS
<1> QED
  BY <1>6, <1>7 DEF Sum

LEMMA SumOfConstant ==
  ASSUME NEW S, IsFiniteSet(S), NEW c \in Int, NEW f, \A x \in S : f[x] = c
  PROVE  SumFunctionOnSet(f, S) = c * Cardinality(S)
<1> DEFINE F == [s \in SUBSET S |-> c * Cardinality(s)]
<1>1. F[{}] = 0
  BY FS_EmptySet
<1>2. ASSUME NEW s \in SUBSET S, NEW x \in s PROVE F[s] = f[x] + F[s \ {x}]
  <2>1. s \ {x} \in SUBSET S /\ x \in S /\ IsFiniteSet(s)
    BY FS_Subset
  <2>2. Cardinality(s) \in Nat /\ Cardinality(s \ {x}) = Cardinality(s) - 1
    BY <2>1, FS_RemoveElement, FS_CardinalityType
  <2>3. c * Cardinality(s) = c + (c * (Cardinality(s) - 1))
    BY <2>2
  <2> QED
    BY <2>1, <2>2, <2>3
<1>3. \A x \in S : f[x] \in Int
  OBVIOUS
<1>4. F[S] = c * Cardinality(S)
  OBVIOUS
<1>5. \A s \in SUBSET S : \A x \in s : F[s] = f[x] + F[s \ {x}]
  BY <1>2
<1> HIDE DEF F
<1>6. Summable(S, f) /\ SumsStepwise(S, f, F)
  BY <1>1, <1>3, <1>5 DEF SumsStepwise, Summable
<1> QED
  BY <1>4, <1>6, SumsFollow

\* The sum over disjoint parts is the sum of the sums over each.
LEMMA SumOfParts ==
  ASSUME NEW S, IsFiniteSet(S), NEW f, \A x \in S : f[x] \in Int,
         NEW I, IsFiniteSet(I), NEW part, \A i \in I : part[i] \in SUBSET S,
         \A i, j \in I : i # j => part[i] \cap part[j] = {},
         NEW g, \A i \in I : g[i] = SumFunctionOnSet(f, part[i])
  PROVE  SumFunctionOnSet(f, UNION {part[i] : i \in I}) = SumFunctionOnSet(g, I)
<1> DEFINE Parts(J) == UNION {part[i] : i \in J}
           F == [J \in SUBSET I |-> SumFunctionOnSet(f, Parts(J))]
<1>0. Summable(S, f)
  BY DEF Summable
<1>1. F[{}] = 0
  <2>1. Parts({}) = {}
    OBVIOUS
  <2> QED
    BY <2>1, SumOfNone
<1>2. ASSUME NEW J \in SUBSET I, NEW i \in J PROVE F[J] = g[i] + F[J \ {i}]
  <2>1. /\ Parts(J) = part[i] \cup Parts(J \ {i})
        /\ part[i] \subseteq S /\ Parts(J \ {i}) \subseteq S
        /\ part[i] \cap Parts(J \ {i}) = {}
    OBVIOUS
  <2> HIDE DEF Parts
  <2>2. ASSUME NEW T, T = part[i], NEW U, U = Parts(J \ {i})
        PROVE  SumFunctionOnSet(f, T \cup U) = SumFunctionOnSet(f, T) + SumFunctionOnSet(f, U)
    <3>1. T \subseteq S /\ U \subseteq S /\ T \cap U = {}
      BY <2>1, <2>2
    <3> QED
      BY <1>0, <3>1, SumOfUnion
  <2>3. J \ {i} \in SUBSET I /\ i \in I
    OBVIOUS
  <2> QED
    BY <2>1, <2>2, <2>3
<1>3. \A i \in I : g[i] \in Int
  <2> TAKE i \in I
  <2>1. IsFiniteSet(part[i]) /\ \A x \in part[i] : f[x] \in Int
    BY FS_Subset
  <2> QED
    BY <2>1, SumOnSet
<1>4. F[I] = SumFunctionOnSet(f, Parts(I))
  OBVIOUS
<1>5. SumFunctionOnSet(g, I) = F[I]
  <2>1. \A J \in SUBSET I : \A i \in J : F[J] = g[i] + F[J \ {i}]
    BY <1>2
  <2> HIDE DEF F, Parts
  <2> QED
    BY <1>1, <1>3, <2>1, SumsFollow DEF SumsStepwise, Summable
<1> QED
  BY <1>4, <1>5

=============================================================================

-------------------------------- MODULE Sums --------------------------------
(***************************************************************************)
(* Sums over finite sets: what the fold of the community modules computes, *)
(* by induction on the set.                                                *)
(***************************************************************************)
EXTENDS Integers, FiniteSets, Functions, FiniteSetTheorems, WellFoundedInduction, TLAPS

(* A set of natural numbers has a least one.                               *)
LEMMA LeastNatural ==
  ASSUME NEW S, S \subseteq Nat, S # {}
  PROVE  \E m \in S : \A n \in S : m <= n
<1>1. PICK m \in S : \A n \in S : ~(<<n, m>> \in OpToRel(<, Nat))
  BY NatLessThanWellFounded, WFMin
<1>2. \A n \in S : ~(n < m)
  BY <1>1 DEF OpToRel
<1>3. \A n \in S : n \in Int /\ m \in Int
  OBVIOUS
<1> QED BY <1>2, <1>3

(* Induction on a finite set: among its subsets with a property there is   *)
(* one that loses it with any of its elements.                             *)
LEMMA LeastSubset ==
  ASSUME NEW S, IsFiniteSet(S), NEW bad, bad \subseteq SUBSET S, bad # {}
  PROVE  \E s \in bad : IsFiniteSet(s) /\ \A x \in s : s \ {x} \notin bad
<1>1. \A s \in SUBSET S : IsFiniteSet(s) /\ Cardinality(s) \in Nat
  BY FS_Subset, FS_CardinalityType
<1> DEFINE sizes == {Cardinality(s) : s \in bad}
<1>2. sizes \subseteq Nat /\ sizes # {}
  BY <1>1
<1>3. PICK m \in sizes : \A n \in sizes : m <= n
  BY <1>2, LeastNatural
<1>4. PICK s \in bad : Cardinality(s) = m
  BY <1>3
<1>5. ASSUME NEW x \in s, s \ {x} \in bad PROVE FALSE
  <2>1. Cardinality(s \ {x}) = m - 1
    BY <1>1, <1>4, FS_RemoveElement
  <2>2. m <= m - 1 /\ m \in Nat
    BY <1>2, <1>3, <1>5, <2>1
  <2> QED BY <2>2
<1> QED BY <1>1, <1>4, <1>5

-----------------------------------------------------------------------------
(* The recursion of the fold: an element is taken out, the rest summed up. *)
AnElement(s) == CHOOSE x \in s : TRUE

Term(g, f, s) == IF s = {} THEN 0 ELSE f[AnElement(s)] + g[s \ {AnElement(s)}]

Solves(g, f, S) == g = [s \in SUBSET S |-> Term(g, f, s)]

(* The community modules' sum is what a solution of this recursion gives   *)
(* the whole set.                                                          *)
LEMMA SumIs ==
  ASSUME NEW f, NEW S
  PROVE  SumFunctionOnSet(f, S) = (CHOOSE g : Solves(g, f, S))[S]
BY DEF SumFunctionOnSet, FoldFunctionOnSet, MapThenFoldSet, Solves, Term, AnElement

(* The element taken out of a set is one of its own. *)
LEMMA AnElementIsIn == \A s : s # {} => AnElement(s) \in s
BY DEF AnElement

(* The fold's recursion has a solution of integers. *)
LEMMA SolutionExists ==
  ASSUME NEW S, IsFiniteSet(S), NEW f, \A x \in S : f[x] \in Int
  PROVE  \E g \in [SUBSET S -> Int] : Solves(g, f, S)
<1> DEFINE upTo(n, g) == \A s \in SUBSET S : Cardinality(s) <= n => g[s] = Term(g, f, s)
           bad == {n \in Nat : ~\E g \in [SUBSET S -> Int] : upTo(n, g)}
<1>1. \A s \in SUBSET S : IsFiniteSet(s) /\ Cardinality(s) \in Nat /\ Cardinality(s) <= Cardinality(S)
  BY FS_Subset, FS_CardinalityType
<1>2. bad = {}
  <2> SUFFICES ASSUME bad # {} PROVE FALSE
    OBVIOUS
  <2>1. PICK n \in bad : \A m \in bad : n <= m
    BY LeastNatural
  <2>2. 0 \notin bad
    <3> DEFINE z == [s \in SUBSET S |-> 0]
    <3>1. upTo(0, z)
      <4> SUFFICES \A s \in SUBSET S : Cardinality(s) <= 0 => z[s] = Term(z, f, s)
        OBVIOUS
      <4> TAKE s \in SUBSET S
      <4> HAVE Cardinality(s) <= 0
      <4>1. s = {}
        BY <1>1, FS_EmptySet
      <4> QED BY <4>1 DEF Term
    <3>2. z \in [SUBSET S -> Int]
      OBVIOUS
    <3> HIDE DEF z, upTo
    <3> QED BY <3>1, <3>2
  <2>3. n - 1 \in Nat /\ n - 1 \notin bad
    <3>1. n \in Nat /\ \A m \in bad : m \in Nat
      OBVIOUS
    <3> HIDE DEF bad
    <3>2. n # 0
      BY <2>2
    <3> QED BY <2>1, <3>1, <3>2
  <2>4. PICK g \in [SUBSET S -> Int] : upTo(n - 1, g)
    BY <2>3
  <2> DEFINE h == [s \in SUBSET S |-> Term(g, f, s)]
  <2>5. \A s \in SUBSET S : s # {} => AnElement(s) \in S /\ s \ {AnElement(s)} \in SUBSET S
    BY AnElementIsIn
  <2>6. h \in [SUBSET S -> Int]
    BY <2>4, <2>5 DEF Term
  <2>7. ASSUME NEW s \in SUBSET S, Cardinality(s) <= n PROVE h[s] = Term(h, f, s)
    <3>1. CASE s = {}
      BY <3>1 DEF Term
    <3>2. CASE s # {}
      <4> DEFINE r == s \ {AnElement(s)}
      <4>1. r \in SUBSET S /\ Cardinality(r) = Cardinality(s) - 1
        BY <1>1, <2>5, <3>2, AnElementIsIn, FS_RemoveElement
      <4>2. Cardinality(r) <= n - 1
        BY <1>1, <2>1, <2>7, <4>1
      <4>3. h[r] = g[r]
        BY <2>4, <4>1, <4>2
      <4> QED BY <3>2, <4>3 DEF Term
    <3> QED BY <3>1, <3>2
  <2>8. upTo(n, h)
    BY <2>7
  <2> QED BY <2>1, <2>6, <2>8
<1>3. PICK g \in [SUBSET S -> Int] : upTo(Cardinality(S), g)
  BY <1>1, <1>2, FS_CardinalityType
<1>4. \A s \in SUBSET S : g[s] = Term(g, f, s)
  BY <1>1, <1>3
<1>5. g = [s \in SUBSET S |-> Term(g, f, s)]
  BY <1>4
<1> QED BY <1>5 DEF Solves

(* Solutions for two sets agree where both are defined. *)
LEMMA SolutionsAgree ==
  ASSUME NEW S, NEW T, IsFiniteSet(S), T \subseteq S, NEW f, NEW e,
         \A x \in T : f[x] = e[x],
         NEW g, Solves(g, f, S), NEW h, Solves(h, e, T)
  PROVE  \A s \in SUBSET T : g[s] = h[s]
<1> DEFINE bad == {s \in SUBSET T : g[s] # h[s]}
<1> SUFFICES ASSUME bad # {} PROVE FALSE
  OBVIOUS
<1>1. IsFiniteSet(T)
  BY FS_Subset
<1>2. PICK s \in bad : \A x \in s : s \ {x} \notin bad
  BY <1>1, LeastSubset
<1>3. g[s] = Term(g, f, s) /\ h[s] = Term(h, e, s)
  BY DEF Solves
<1>4. s # {}
  BY <1>3 DEF Term
<1>5. AnElement(s) \in s
  BY <1>4, AnElementIsIn
<1>6. g[s \ {AnElement(s)}] = h[s \ {AnElement(s)}]
  BY <1>2, <1>5
<1>7. f[AnElement(s)] = e[AnElement(s)]
  BY <1>5
<1> QED BY <1>3, <1>6, <1>7 DEF Term

Peels(g, f, S) == \A s \in SUBSET S : \A x \in s : g[s] = f[x] + g[s \ {x}]

(* Any element may be taken out first. *)
LEMMA AnyFirst ==
  ASSUME NEW S, IsFiniteSet(S), NEW f, \A x \in S : f[x] \in Int
  PROVE  \A g \in [SUBSET S -> Int] : Solves(g, f, S) => Peels(g, f, S)
<1> SUFFICES ASSUME NEW g \in [SUBSET S -> Int], Solves(g, f, S)
             PROVE  \A s \in SUBSET S : \A x \in s : g[s] = f[x] + g[s \ {x}]
  BY DEF Peels
<1> DEFINE bad == {s \in SUBSET S : \E x \in s : g[s] # f[x] + g[s \ {x}]}
<1> SUFFICES ASSUME bad # {} PROVE FALSE
  OBVIOUS
<1>1. PICK s \in bad : \A x \in s : s \ {x} \notin bad
  BY LeastSubset
<1>2. PICK x \in s : g[s] # f[x] + g[s \ {x}]
  OBVIOUS
<1> DEFINE c == AnElement(s)
<1>3. \A r \in SUBSET S : r # {} => AnElement(r) \in r /\ g[r] = f[AnElement(r)] + g[r \ {AnElement(r)}]
  BY AnElementIsIn DEF Solves, Term
<1>4. c \in s /\ g[s] = f[c] + g[s \ {c}]
  BY <1>3
<1>5. x # c
  BY <1>2, <1>4
<1>6. g[s \ {c}] = f[x] + g[(s \ {c}) \ {x}]
  BY <1>1, <1>4, <1>5
<1>7. g[s \ {x}] = f[c] + g[(s \ {x}) \ {c}]
  BY <1>1, <1>2, <1>4, <1>5
<1>8. (s \ {c}) \ {x} = (s \ {x}) \ {c}
  OBVIOUS
<1>9. f[x] \in Int /\ f[c] \in Int /\ g[(s \ {x}) \ {c}] \in Int
  BY <1>4
<1>10. \A i, j, k \in Int : i + (j + k) = j + (i + k)
  OBVIOUS
<1> HIDE DEF c
<1>11. f[c] + (f[x] + g[(s \ {x}) \ {c}]) = f[x] + (f[c] + g[(s \ {x}) \ {c}])
  BY <1>9, <1>10
<1> QED BY <1>2, <1>4, <1>6, <1>7, <1>8, <1>11, Zenon

-----------------------------------------------------------------------------
(* Everything the proofs use of a sum: it is an integer, nothing on the    *)
(* empty set, and any term can be taken out of it.                         *)
LEMMA SumFacts ==
  ASSUME NEW S, IsFiniteSet(S), NEW f, \A x \in S : f[x] \in Int
  PROVE  /\ SumFunctionOnSet(f, S) \in Int
         /\ S = {} => SumFunctionOnSet(f, S) = 0
         /\ \A x \in S : SumFunctionOnSet(f, S) = f[x] + SumFunctionOnSet(f, S \ {x})
<1> DEFINE G == CHOOSE k : Solves(k, f, S)
<1>1. PICK h \in [SUBSET S -> Int] : Solves(h, f, S)
  BY SolutionExists
<1>2. Solves(G, f, S)
  BY <1>1
<1>3. \A s \in SUBSET S : G[s] = h[s]
  BY <1>1, <1>2, SolutionsAgree
<1>4. G \in [SUBSET S -> Int]
  <2>1. G = [s \in SUBSET S |-> Term(G, f, s)]
    BY <1>2 DEF Solves
  <2> HIDE DEF G
  <2> QED BY <1>1, <1>3, <2>1
<1>5. SumFunctionOnSet(f, S) = G[S]
  BY SumIs
<1>6. S = {} => G[S] = 0
  BY <1>2 DEF Solves, Term
<1>7. ASSUME NEW x \in S PROVE SumFunctionOnSet(f, S \ {x}) = G[S \ {x}]
  <2> DEFINE T == S \ {x}
             e == CHOOSE k : Solves(k, f, T)
  <2>1. IsFiniteSet(T) /\ \A y \in T : f[y] \in Int
    BY FS_RemoveElement
  <2>2. \E g1 : Solves(g1, f, T)
    BY <2>1, SolutionExists
  <2>3. Solves(e, f, T)
    BY <2>2
  <2> HIDE DEF G, e
  <2>6. T \subseteq S /\ \A y \in T : f[y] = f[y]
    OBVIOUS
  <2> HIDE DEF T
  <2>7. \A s \in SUBSET T : G[s] = e[s]
    BY <1>2, <2>3, <2>6, SolutionsAgree
  <2>4. G[T] = e[T]
    BY <2>7
  <2>5. SumFunctionOnSet(f, T) = e[T]
    BY SumIs DEF e
  <2> QED BY <2>4, <2>5 DEF T
<1> HIDE DEF G
<1>8. Peels(G, f, S)
  BY <1>2, <1>4, AnyFirst
<1>9. \A x \in S : G[S] = f[x] + G[S \ {x}]
  BY <1>8 DEF Peels
<1> QED BY <1>4, <1>5, <1>6, <1>7, <1>9

(* A sum looks at the terms it has.                                        *)
LEMMA SumSame ==
  ASSUME NEW S, IsFiniteSet(S), NEW f, NEW e, \A x \in S : f[x] \in Int /\ e[x] = f[x]
  PROVE  SumFunctionOnSet(e, S) = SumFunctionOnSet(f, S)
<1> DEFINE bad == {s \in SUBSET S : SumFunctionOnSet(e, s) # SumFunctionOnSet(f, s)}
<1> SUFFICES ASSUME bad # {} PROVE FALSE
  OBVIOUS
<1>1. PICK s \in bad : IsFiniteSet(s) /\ \A x \in s : s \ {x} \notin bad
  BY LeastSubset
<1>2. (\A x \in s : f[x] \in Int) /\ \A x \in s : e[x] \in Int
  OBVIOUS
<1>3. s # {}
  BY <1>1, <1>2, SumFacts
<1>4. PICK x \in s : TRUE
  BY <1>3
<1>5. SumFunctionOnSet(f, s) = f[x] + SumFunctionOnSet(f, s \ {x})
  BY <1>1, <1>2, SumFacts
<1>6. SumFunctionOnSet(e, s) = e[x] + SumFunctionOnSet(e, s \ {x})
  BY <1>1, <1>2, SumFacts
<1>7. SumFunctionOnSet(e, s \ {x}) = SumFunctionOnSet(f, s \ {x}) /\ e[x] = f[x]
  BY <1>1, <1>4
<1> QED BY <1>5, <1>6, <1>7

(* Terms that are at most as large have a sum that is.                     *)
LEMMA SumBelow ==
  ASSUME NEW S, IsFiniteSet(S), NEW f, NEW e,
         \A x \in S : f[x] \in Int /\ e[x] \in Int /\ f[x] <= e[x]
  PROVE  SumFunctionOnSet(f, S) <= SumFunctionOnSet(e, S)
<1> DEFINE bad == {s \in SUBSET S : ~(SumFunctionOnSet(f, s) <= SumFunctionOnSet(e, s))}
<1> SUFFICES ASSUME bad # {} PROVE FALSE
  OBVIOUS
<1>1. PICK s \in bad : IsFiniteSet(s) /\ \A x \in s : s \ {x} \notin bad
  BY LeastSubset
<1>2. (\A x \in s : f[x] \in Int) /\ \A x \in s : e[x] \in Int
  OBVIOUS
<1>3. s # {}
  BY <1>1, <1>2, SumFacts
<1>4. PICK x \in s : TRUE
  BY <1>3
<1>5. IsFiniteSet(s \ {x})
  BY <1>1, FS_RemoveElement
<1>6. /\ SumFunctionOnSet(f, s) = f[x] + SumFunctionOnSet(f, s \ {x})
      /\ SumFunctionOnSet(f, s \ {x}) \in Int
  BY <1>1, <1>2, <1>5, SumFacts
<1>7. /\ SumFunctionOnSet(e, s) = e[x] + SumFunctionOnSet(e, s \ {x})
      /\ SumFunctionOnSet(e, s \ {x}) \in Int
  BY <1>1, <1>2, <1>5, SumFacts
<1>8. SumFunctionOnSet(f, s \ {x}) <= SumFunctionOnSet(e, s \ {x}) /\ f[x] <= e[x]
  BY <1>1, <1>4
<1>9. f[x] \in Int /\ e[x] \in Int
  BY <1>2, <1>4
<1> QED BY <1>6, <1>7, <1>8, <1>9

(* One more term.                                                          *)
LEMMA SumAdd ==
  ASSUME NEW S, IsFiniteSet(S), NEW f, NEW x, x \notin S, \A y \in S \cup {x} : f[y] \in Int
  PROVE  SumFunctionOnSet(f, S \cup {x}) = f[x] + SumFunctionOnSet(f, S)
<1>1. IsFiniteSet(S \cup {x}) /\ x \in S \cup {x} /\ (S \cup {x}) \ {x} = S
  BY FS_AddElement
<1> QED BY <1>1, SumFacts

(* One term changes.                                                       *)
LEMMA SumChange ==
  ASSUME NEW S, IsFiniteSet(S), NEW x \in S, NEW f, NEW e, \A y \in S : f[y] \in Int,
         e[x] \in Int, \A y \in S : y # x => e[y] = f[y]
  PROVE  SumFunctionOnSet(e, S) = SumFunctionOnSet(f, S) - f[x] + e[x]
<1>1. IsFiniteSet(S \ {x}) /\ \A y \in S \ {x} : f[y] \in Int /\ e[y] = f[y]
  BY FS_RemoveElement
<1>2. SumFunctionOnSet(e, S \ {x}) = SumFunctionOnSet(f, S \ {x})
  BY <1>1, SumSame
<1>3. SumFunctionOnSet(f, S) = f[x] + SumFunctionOnSet(f, S \ {x})
  BY SumFacts
<1>4. \A y \in S : e[y] \in Int
  OBVIOUS
<1>5. SumFunctionOnSet(e, S) = e[x] + SumFunctionOnSet(e, S \ {x})
  BY <1>4, SumFacts
<1>6. SumFunctionOnSet(f, S \ {x}) \in Int
  BY <1>1, SumFacts
<1> QED BY <1>2, <1>3, <1>5, <1>6

(* The sum of zeroes.                                                      *)
LEMMA SumZero ==
  ASSUME NEW S, IsFiniteSet(S), NEW f, \A x \in S : f[x] = 0
  PROVE  SumFunctionOnSet(f, S) = 0
<1> DEFINE bad == {s \in SUBSET S : SumFunctionOnSet(f, s) # 0}
<1> SUFFICES ASSUME bad # {} PROVE FALSE
  OBVIOUS
<1>1. PICK s \in bad : IsFiniteSet(s) /\ \A x \in s : s \ {x} \notin bad
  BY LeastSubset
<1>2. \A x \in s : f[x] \in Int
  OBVIOUS
<1>3. s # {}
  BY <1>1, <1>2, SumFacts
<1>4. PICK x \in s : TRUE
  BY <1>3
<1>5. SumFunctionOnSet(f, s) = f[x] + SumFunctionOnSet(f, s \ {x})
  BY <1>1, <1>2, SumFacts
<1>6. SumFunctionOnSet(f, s \ {x}) = 0 /\ f[x] = 0
  BY <1>1, <1>4
<1> QED BY <1>5, <1>6

(* The sum of numbers that are not negative.                               *)
LEMMA SumNat ==
  ASSUME NEW S, IsFiniteSet(S), NEW f, \A x \in S : f[x] \in Nat
  PROVE  SumFunctionOnSet(f, S) \in Nat
<1> DEFINE z == [x \in S |-> 0]
<1>1. SumFunctionOnSet(z, S) = 0
  BY SumZero
<1>2. SumFunctionOnSet(z, S) <= SumFunctionOnSet(f, S)
  BY SumBelow
<1>3. SumFunctionOnSet(f, S) \in Int
  BY SumFacts
<1> QED BY <1>1, <1>2, <1>3

(* A part of a sum of such numbers is no larger.                           *)
LEMMA SumPart ==
  ASSUME NEW S, IsFiniteSet(S), NEW T \in SUBSET S, NEW f, \A x \in S : f[x] \in Nat
  PROVE  SumFunctionOnSet(f, T) <= SumFunctionOnSet(f, S)
<1> DEFINE bad == {s \in SUBSET S : T \subseteq s /\
                     ~(SumFunctionOnSet(f, T) <= SumFunctionOnSet(f, s))}
<1> SUFFICES ASSUME bad # {} PROVE FALSE
  OBVIOUS
<1>1. PICK s \in bad : IsFiniteSet(s) /\ \A x \in s : s \ {x} \notin bad
  <2>1. bad \subseteq SUBSET S
    OBVIOUS
  <2> HIDE DEF bad
  <2> QED BY <2>1, LeastSubset
<1>2. (\A x \in s : f[x] \in Nat) /\ (\A x \in T : f[x] \in Int) /\ IsFiniteSet(T)
  BY FS_Subset
<1>3. SumFunctionOnSet(f, T) \in Int
  BY <1>2, SumFacts
<1>4. s # T
  BY <1>3
<1>5. PICK x \in s : x \notin T
  BY <1>4
<1>6. IsFiniteSet(s \ {x})
  BY <1>1, FS_RemoveElement
<1>7. SumFunctionOnSet(f, s) = f[x] + SumFunctionOnSet(f, s \ {x})
  BY <1>1, <1>2, SumFacts
<1>8. SumFunctionOnSet(f, T) <= SumFunctionOnSet(f, s \ {x})
  BY <1>1, <1>5
<1>9. SumFunctionOnSet(f, s \ {x}) \in Nat /\ f[x] \in Nat
  BY <1>2, <1>6, SumNat
<1>10. SumFunctionOnSet(f, T) <= SumFunctionOnSet(f, s)
  BY <1>3, <1>7, <1>8, <1>9
<1> QED BY <1>10

(* A sum over a part is the sum of the terms in it, and nothing for the    *)
(* others.                                                                 *)
LEMMA SumOnPart ==
  ASSUME NEW S, IsFiniteSet(S), NEW T \in SUBSET S, NEW f, NEW e,
         \A x \in S : f[x] \in Int /\ e[x] = IF x \in T THEN f[x] ELSE 0
  PROVE  SumFunctionOnSet(e, S) = SumFunctionOnSet(f, T)
<1> DEFINE bad == {s \in SUBSET S : SumFunctionOnSet(e, s) # SumFunctionOnSet(f, s \cap T)}
<1>1. S \notin bad
  <2> SUFFICES ASSUME bad # {} PROVE FALSE
    OBVIOUS
  <2>1. PICK s \in bad : IsFiniteSet(s) /\ \A x \in s : s \ {x} \notin bad
    <3>1. bad \subseteq SUBSET S
      OBVIOUS
    <3> HIDE DEF bad
    <3> QED BY <3>1, LeastSubset
  <2>2. /\ (\A x \in s : e[x] \in Int) /\ (\A x \in s \cap T : f[x] \in Int)
        /\ IsFiniteSet(s \cap T)
    <3>1. \A x \in s : f[x] \in Int /\ e[x] = IF x \in T THEN f[x] ELSE 0
      OBVIOUS
    <3>2. \A x \in s : e[x] \in Int
      BY <3>1
    <3> QED BY <2>1, <3>1, <3>2, FS_Subset
  <2>3. s # {}
    BY <2>1, <2>2, SumFacts
  <2>4. PICK x \in s : TRUE
    BY <2>3
  <2>5. SumFunctionOnSet(e, s) = e[x] + SumFunctionOnSet(e, s \ {x})
    BY <2>1, <2>2, SumFacts
  <2>6. SumFunctionOnSet(e, s \ {x}) = SumFunctionOnSet(f, (s \ {x}) \cap T)
    BY <2>1, <2>4
  <2>7. CASE x \in T
    <3>1. (s \ {x}) \cap T = (s \cap T) \ {x} /\ x \in s \cap T /\ e[x] = f[x]
      BY <2>7
    <3>2. SumFunctionOnSet(f, s \cap T) = f[x] + SumFunctionOnSet(f, (s \cap T) \ {x})
      BY <2>2, <3>1, SumFacts
    <3>3. SumFunctionOnSet(e, s) = f[x] + SumFunctionOnSet(f, (s \cap T) \ {x})
      BY <2>5, <2>6, <3>1
    <3>4. SumFunctionOnSet(e, s) = SumFunctionOnSet(f, s \cap T)
      BY <3>2, <3>3
    <3> QED BY <3>4
  <2>8. CASE x \notin T
    <3>1. (s \ {x}) \cap T = s \cap T /\ e[x] = 0
      BY <2>8
    <3>2. SumFunctionOnSet(f, s \cap T) \in Int
      BY <2>2, SumFacts
    <3>3. SumFunctionOnSet(e, s \ {x}) = SumFunctionOnSet(f, s \cap T)
      BY <2>6, <3>1
    <3>4. SumFunctionOnSet(e, s) = 0 + SumFunctionOnSet(f, s \cap T)
      BY <2>5, <3>1, <3>3
    <3>5. SumFunctionOnSet(e, s) = SumFunctionOnSet(f, s \cap T)
      BY <3>2, <3>4
    <3> QED BY <3>5
  <2> QED BY <2>7, <2>8
<1>2. S \cap T = T
  OBVIOUS
<1> QED BY <1>1, <1>2
=============================================================================

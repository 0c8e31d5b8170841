------------------------- MODULE CollectionTheorems -------------------------
(***************************************************************************)
(* Facts about the collections the models compute with: sums over a finite *)
(* set (SumFunctionOnSet of the community modules), the least and the      *)
(* greatest element of a finite set of integers, the elements and the sum  *)
(* of a sequence, a finite set listed in an order, and a sequence without  *)
(* one of its elements.  The code computes each of them in a loop over a   *)
(* map, a list or a vector.                                                *)
(*                                                                         *)
(* All rest on one form of induction, Smallest: a set of subsets of a      *)
(* finite set has a minimal member.  A lemma is proved for every subset by *)
(* looking at a minimal one for which it fails.                            *)
(***************************************************************************)
EXTENDS SequencesExt, FiniteSetsExt, Functions, FiniteSetTheorems, TLAPS

\* The element a sum over s takes first.
Chosen(s) == CHOOSE x \in s : TRUE

\* g sums f over the subsets of D, as the recursive definition of the library does.
Sums(g, f, D) ==
    g = [s \in SUBSET D |-> IF s = {} THEN 0 ELSE f[Chosen(s)] + g[s \ {Chosen(s)}]]

\* A sum is the value of some function that sums.
LEMMA SumIsChosen ==
    ASSUME NEW f, NEW S
    PROVE  SumFunctionOnSet(f, S) = (CHOOSE g : Sums(g, f, S))[S]
  BY DEF SumFunctionOnSet, FoldFunctionOnSet, MapThenFoldSet, Sums, Chosen

\* Strict inclusion is well-founded on the subsets of a finite set.
LEMMA Smallest ==
    ASSUME NEW S, IsFiniteSet(S), NEW T, T \subseteq SUBSET S, T # {}
    PROVE  \E x \in T : \A y \in T : y \subseteq x => y = x
<1> DEFINE R == StrictSubsetOrdering(S)
<1>1. IsWellFoundedOn(R, FiniteSubsetsOf(S))
  BY FS_StrictSubsetOrderingWellFounded
<1>2. FiniteSubsetsOf(S) = SUBSET S
  BY FS_FiniteSubsetsOfFinite
<1> HIDE DEF R
<1>3. PICK x \in T : \A y \in T : ~(<<y, x>> \in R)
  BY <1>1, <1>2, WFMin
<1>4. \A y \in T : y \subseteq x => y = x
  BY <1>3 DEF R, StrictSubsetOrdering
<1> QED BY <1>4

\* There is something to take from a set that is not empty.
LEMMA ChosenIsElement ==
    ASSUME NEW s, s # {}
    PROVE  Chosen(s) \in s
  BY DEF Chosen

\* One step of the recursive definition.
LEMMA SumsValue ==
    ASSUME NEW f, NEW D, NEW g, Sums(g, f, D), NEW s \in SUBSET D
    PROVE  g[s] = IF s = {} THEN 0 ELSE f[Chosen(s)] + g[s \ {Chosen(s)}]
  BY DEF Sums

\* Two sums of f agree where both are defined.
LEMMA SumsAgree ==
    ASSUME NEW f, NEW D, IsFiniteSet(D), NEW E, D \subseteq E, NEW g, NEW h, Sums(g, f, D), Sums(h, f, E),
           NEW s \in SUBSET D
    PROVE  g[s] = h[s]
<1> DEFINE T == {t \in SUBSET D : g[t] # h[t]}
<1>0. T \subseteq SUBSET D
  OBVIOUS
<1>1. SUFFICES ASSUME T # {} PROVE FALSE
  OBVIOUS
<1> HIDE DEF T
<1>2. PICK t \in T : \A u \in T : u \subseteq t => u = t
  BY <1>1, <1>0, Smallest
<1>3. t \in SUBSET D /\ t \in SUBSET E /\ g[t] # h[t]
  BY DEF T
<1>4. t # {}
  <2>1. g[{}] = 0 /\ h[{}] = 0
    BY SumsValue
  <2> QED
    BY <1>3, <2>1
<1>5. Chosen(t) \in t
  BY <1>4, ChosenIsElement
<1> DEFINE u == t \ {Chosen(t)}
<1>6. u \in SUBSET D /\ u \subseteq t /\ u # t
  BY <1>3, <1>5
<1>7. g[u] = h[u]
  BY <1>2, <1>6 DEF T
<1>8. g[t] = f[Chosen(t)] + g[u] /\ h[t] = f[Chosen(t)] + h[u]
  BY <1>3, <1>4, SumsValue
<1> QED
  BY <1>3, <1>7, <1>8

\* Every finite set has a sum: the recursive definition defines a function.
LEMMA SumsExist ==
    ASSUME NEW f, NEW S, IsFiniteSet(S)
    PROVE  \E g : Sums(g, f, S)
<1> DEFINE T == {t \in SUBSET S : ~\E g : Sums(g, f, t)}
<1>0. T \subseteq SUBSET S
  OBVIOUS
<1>1. SUFFICES ASSUME T # {} PROVE FALSE
  OBVIOUS
<1> HIDE DEF T
<1>2. PICK t \in T : \A u \in T : u \subseteq t => u = t
  BY <1>0, <1>1, Smallest
<1>3. t \subseteq S /\ ~\E g : Sums(g, f, t)
  BY DEF T
<1> DEFINE G(u) == CHOOSE g : Sums(g, f, u)
           h == [s \in SUBSET t |-> IF s = {} THEN 0
                                    ELSE f[Chosen(s)] + G(s \ {Chosen(s)})[s \ {Chosen(s)}]]
<1>4. ASSUME NEW u, u \subseteq t, u # t
      PROVE  Sums(G(u), f, u) /\ IsFiniteSet(u)
  <2>1. u \in SUBSET S /\ u \notin T
    BY <1>2, <1>3, <1>4
  <2>2. \E g : Sums(g, f, u)
    BY <2>1 DEF T
  <2>3. IsFiniteSet(u)
    BY <2>1, FS_Subset
  <2> QED
    BY <2>2, <2>3
<1> HIDE DEF G
<1>5. ASSUME NEW u, u \subseteq t, u # t
      PROVE  h[u] = G(u)[u]
  <2>1. CASE u = {}
    BY <2>1, <1>4, <1>5, SumsValue
  <2>2. CASE u # {}
    <3> DEFINE v == u \ {Chosen(u)}
    <3>1. Chosen(u) \in u
      BY <2>2, ChosenIsElement
    <3>2. v \subseteq u /\ v \subseteq t /\ v # t
      BY <1>5, <3>1
    <3>3. Sums(G(u), f, u) /\ Sums(G(v), f, v) /\ IsFiniteSet(v)
      BY <1>4, <1>5, <3>2
    <3>4. G(v)[v] = G(u)[v]
      BY <3>2, <3>3, SumsAgree
    <3>5. G(u)[u] = f[Chosen(u)] + G(u)[v]
      BY <2>2, <3>3, SumsValue
    <3>6. h[u] = f[Chosen(u)] + G(v)[v]
      BY <1>5, <2>2
    <3> QED
      BY <3>4, <3>5, <3>6
  <2> QED
    BY <2>1, <2>2
<1>6. ASSUME NEW s \in SUBSET t, s # {}
      PROVE  h[s] = f[Chosen(s)] + h[s \ {Chosen(s)}]
  <2>1. Chosen(s) \in s
    BY <1>6, ChosenIsElement
  <2>2. s \ {Chosen(s)} \subseteq t /\ s \ {Chosen(s)} # t
    BY <2>1
  <2>3. h[s \ {Chosen(s)}] = G(s \ {Chosen(s)})[s \ {Chosen(s)}]
    BY <1>5, <2>2
  <2> QED
    BY <1>6, <2>3
<1>7. h[{}] = 0
  OBVIOUS
<1>8. h = [s \in SUBSET t |-> h[s]]
  OBVIOUS
<1> HIDE DEF h
<1>9. Sums(h, f, t)
  BY <1>6, <1>7, <1>8 DEF Sums
<1> QED
  BY <1>3, <1>9

\* The first element and the sum of the others.
LEMMA SumRecursive ==
    ASSUME NEW f, NEW S, IsFiniteSet(S), S # {}
    PROVE  SumFunctionOnSet(f, S) = f[Chosen(S)] + SumFunctionOnSet(f, S \ {Chosen(S)})
<1> DEFINE x == Chosen(S)
           g == CHOOSE g : Sums(g, f, S)
           h == CHOOSE h : Sums(h, f, S \ {x})
<1>1. IsFiniteSet(S \ {x})
  BY FS_RemoveElement
<1>2. Sums(g, f, S) /\ Sums(h, f, S \ {x})
  BY <1>1, SumsExist
<1>3. SumFunctionOnSet(f, S) = g[S] /\ SumFunctionOnSet(f, S \ {x}) = h[S \ {x}]
  BY SumIsChosen
<1> HIDE DEF g, h
<1>4. g[S] = f[x] + g[S \ {x}]
  BY <1>2, SumsValue
<1>5. h[S \ {x}] = g[S \ {x}]
  BY <1>1, <1>2, SumsAgree
<1> QED
  BY <1>3, <1>4, <1>5

\* The empty sum.
LEMMA SumEmpty ==
    ASSUME NEW f
    PROVE  SumFunctionOnSet(f, {}) = 0
<1> DEFINE g == CHOOSE g : Sums(g, f, {})
<1>1. Sums(g, f, {})
  BY FS_EmptySet, SumsExist
<1>2. SumFunctionOnSet(f, {}) = g[{}]
  BY SumIsChosen
<1> HIDE DEF g
<1> QED
  BY <1>1, <1>2, SumsValue

\* A sum of integers is an integer.
LEMMA SumType ==
    ASSUME NEW f, NEW S, IsFiniteSet(S), \A x \in S : f[x] \in Int
    PROVE  SumFunctionOnSet(f, S) \in Int
<1> DEFINE T == {t \in SUBSET S : SumFunctionOnSet(f, t) \notin Int}
<1>0. T \subseteq SUBSET S
  OBVIOUS
<1>1. SUFFICES ASSUME T # {} PROVE FALSE
  OBVIOUS
<1> HIDE DEF T
<1>2. PICK t \in T : \A u \in T : u \subseteq t => u = t
  BY <1>0, <1>1, Smallest
<1>3. t \subseteq S /\ SumFunctionOnSet(f, t) \notin Int
  BY DEF T
<1>4. t # {}
  BY <1>3, SumEmpty
<1>5. Chosen(t) \in t /\ IsFiniteSet(t)
  BY <1>3, <1>4, ChosenIsElement, FS_Subset
<1>6. SumFunctionOnSet(f, t \ {Chosen(t)}) \in Int
  BY <1>2, <1>3, <1>5 DEF T
<1>7. SumFunctionOnSet(f, t) = f[Chosen(t)] + SumFunctionOnSet(f, t \ {Chosen(t)})
  BY <1>4, <1>5, SumRecursive
<1> QED
  BY <1>3, <1>5, <1>6, <1>7

\* Any element may be taken out first.
LEMMA SumRemove ==
    ASSUME NEW f, NEW S, IsFiniteSet(S), \A x \in S : f[x] \in Int, NEW x \in S
    PROVE  SumFunctionOnSet(f, S) = f[x] + SumFunctionOnSet(f, S \ {x})
<1> DEFINE Sum(t) == SumFunctionOnSet(f, t)
           T == {t \in SUBSET S : \E y \in t : Sum(t) # f[y] + Sum(t \ {y})}
<1>0. T \subseteq SUBSET S
  OBVIOUS
<1>1. SUFFICES ASSUME T # {} PROVE FALSE
  OBVIOUS
<1> HIDE DEF T
<1>2. PICK t \in T : \A u \in T : u \subseteq t => u = t
  BY <1>0, <1>1, Smallest
<1>3. PICK y \in t : Sum(t) # f[y] + Sum(t \ {y})
  BY DEF T
<1>4. t \subseteq S /\ t # {} /\ IsFiniteSet(t)
  BY <1>0, <1>3, FS_Subset
<1> DEFINE z == Chosen(t)
<1>5. z \in t /\ Sum(t) = f[z] + Sum(t \ {z})
  BY <1>4, ChosenIsElement, SumRecursive
<1>6. y # z
  BY <1>3, <1>5
<1> HIDE DEF z
<1>7. t \ {z} \in SUBSET S /\ t \ {z} # t /\ t \ {z} \notin T /\ y \in t \ {z}
  BY <1>2, <1>3, <1>4, <1>5, <1>6
<1>8. Sum(t \ {z}) = f[y] + Sum((t \ {z}) \ {y})
  BY <1>7 DEF T
<1>9. t \ {y} \in SUBSET S /\ t \ {y} # t /\ t \ {y} \notin T /\ z \in t \ {y}
  BY <1>2, <1>3, <1>4, <1>5, <1>6
<1>10. Sum(t \ {y}) = f[z] + Sum((t \ {y}) \ {z})
  BY <1>9 DEF T
<1> DEFINE rest == (t \ {y}) \ {z}
<1>11. (t \ {z}) \ {y} = rest
  OBVIOUS
<1>12. IsFiniteSet(rest) /\ rest \subseteq S
  BY <1>4, FS_Subset
<1>13. Sum(rest) \in Int
  BY <1>12, SumType
<1>14. f[y] \in Int /\ f[z] \in Int
  BY <1>4, <1>5
<1> HIDE DEF rest
<1>15. Sum(t) = f[z] + (f[y] + Sum(rest)) /\ Sum(t \ {y}) = f[z] + Sum(rest)
  BY <1>5, <1>8, <1>10, <1>11 DEF rest
<1> HIDE DEF Sum
<1> QED
  BY <1>3, <1>13, <1>14, <1>15

\* The sum over a set with one element more.
LEMMA SumInsert ==
    ASSUME NEW f, NEW S, IsFiniteSet(S), NEW x, x \notin S, \A y \in S \cup {x} : f[y] \in Int
    PROVE  SumFunctionOnSet(f, S \cup {x}) = f[x] + SumFunctionOnSet(f, S)
<1>1. IsFiniteSet(S \cup {x}) /\ (S \cup {x}) \ {x} = S
  BY FS_AddElement
<1> QED
  BY <1>1, SumRemove

\* The sum depends on the values on the set only.
LEMMA SumEqual ==
    ASSUME NEW f, NEW g, NEW S, IsFiniteSet(S), \A x \in S : f[x] = g[x]
    PROVE  SumFunctionOnSet(f, S) = SumFunctionOnSet(g, S)
<1> DEFINE T == {t \in SUBSET S : SumFunctionOnSet(f, t) # SumFunctionOnSet(g, t)}
<1>0. T \subseteq SUBSET S
  OBVIOUS
<1>1. SUFFICES ASSUME T # {} PROVE FALSE
  OBVIOUS
<1> HIDE DEF T
<1>2. PICK t \in T : \A u \in T : u \subseteq t => u = t
  BY <1>0, <1>1, Smallest
<1>3. t \subseteq S /\ SumFunctionOnSet(f, t) # SumFunctionOnSet(g, t)
  BY DEF T
<1>4. t # {}
  BY <1>3, SumEmpty
<1>5. Chosen(t) \in t /\ IsFiniteSet(t)
  BY <1>3, <1>4, ChosenIsElement, FS_Subset
<1>6. SumFunctionOnSet(f, t \ {Chosen(t)}) = SumFunctionOnSet(g, t \ {Chosen(t)})
  BY <1>2, <1>3, <1>5 DEF T
<1>7. /\ SumFunctionOnSet(f, t) = f[Chosen(t)] + SumFunctionOnSet(f, t \ {Chosen(t)})
      /\ SumFunctionOnSet(g, t) = g[Chosen(t)] + SumFunctionOnSet(g, t \ {Chosen(t)})
  BY <1>4, <1>5, SumRecursive
<1> QED
  BY <1>3, <1>5, <1>6, <1>7

\* One summand changes.
LEMMA SumUpdate ==
    ASSUME NEW f, NEW g, NEW S, IsFiniteSet(S), \A y \in S : f[y] \in Int /\ g[y] \in Int,
           NEW x \in S, \A y \in S \ {x} : f[y] = g[y]
    PROVE  SumFunctionOnSet(g, S) = SumFunctionOnSet(f, S) - f[x] + g[x]
<1>1. IsFiniteSet(S \ {x})
  BY FS_RemoveElement
<1>2. SumFunctionOnSet(f, S \ {x}) = SumFunctionOnSet(g, S \ {x})
  BY <1>1, SumEqual
<1>3. SumFunctionOnSet(f, S \ {x}) \in Int
  BY <1>1, SumType
<1>4. /\ SumFunctionOnSet(f, S) = f[x] + SumFunctionOnSet(f, S \ {x})
      /\ SumFunctionOnSet(g, S) = g[x] + SumFunctionOnSet(g, S \ {x})
  BY SumRemove
<1> QED
  BY <1>2, <1>3, <1>4

\* A sum of natural numbers is one.
LEMMA SumNat ==
    ASSUME NEW f, NEW S, IsFiniteSet(S), \A x \in S : f[x] \in Nat
    PROVE  SumFunctionOnSet(f, S) \in Nat
<1> DEFINE T == {t \in SUBSET S : SumFunctionOnSet(f, t) \notin Nat}
<1>0. T \subseteq SUBSET S
  OBVIOUS
<1>1. SUFFICES ASSUME T # {} PROVE FALSE
  OBVIOUS
<1> HIDE DEF T
<1>2. PICK t \in T : \A u \in T : u \subseteq t => u = t
  BY <1>0, <1>1, Smallest
<1>3. t \subseteq S /\ SumFunctionOnSet(f, t) \notin Nat
  BY DEF T
<1>4. t # {}
  BY <1>3, SumEmpty
<1>5. Chosen(t) \in t /\ IsFiniteSet(t)
  BY <1>3, <1>4, ChosenIsElement, FS_Subset
<1>6. SumFunctionOnSet(f, t \ {Chosen(t)}) \in Nat
  BY <1>2, <1>3, <1>5 DEF T
<1>7. SumFunctionOnSet(f, t) = f[Chosen(t)] + SumFunctionOnSet(f, t \ {Chosen(t)})
  BY <1>4, <1>5, SumRecursive
<1> QED
  BY <1>3, <1>5, <1>6, <1>7

\* No natural summand is more than the sum.
LEMMA SumAtLeast ==
    ASSUME NEW f, NEW S, IsFiniteSet(S), \A x \in S : f[x] \in Nat, NEW x \in S
    PROVE  f[x] <= SumFunctionOnSet(f, S)
<1>1. IsFiniteSet(S \ {x})
  BY FS_RemoveElement
<1>2. SumFunctionOnSet(f, S \ {x}) \in Nat
  BY <1>1, SumNat
<1>3. SumFunctionOnSet(f, S) = f[x] + SumFunctionOnSet(f, S \ {x})
  BY SumRemove
<1> QED
  BY <1>2, <1>3

\* The sum over two disjoint sets.
LEMMA SumUnion ==
    ASSUME NEW f, NEW S, NEW R, IsFiniteSet(S), IsFiniteSet(R), S \cap R = {},
           \A x \in S \cup R : f[x] \in Int
    PROVE  SumFunctionOnSet(f, S \cup R) = SumFunctionOnSet(f, S) + SumFunctionOnSet(f, R)
<1> DEFINE Sum(t) == SumFunctionOnSet(f, t)
           T == {t \in SUBSET R : Sum(S \cup t) # Sum(S) + Sum(t)}
<1>0. T \subseteq SUBSET R
  OBVIOUS
<1>1. SUFFICES ASSUME T # {} PROVE FALSE
  OBVIOUS
<1> HIDE DEF T
<1>2. PICK t \in T : \A u \in T : u \subseteq t => u = t
  BY <1>0, <1>1, Smallest
<1>3. t \subseteq R /\ Sum(S \cup t) # Sum(S) + Sum(t)
  BY DEF T
<1>4. Sum(S) \in Int /\ Sum({}) = 0 /\ S \cup {} = S
  BY SumType, SumEmpty
<1>5. t # {}
  <2>1. ASSUME t = {} PROVE S \cup t = S
    BY <2>1
  <2>2. ASSUME t = {} PROVE Sum(S \cup t) = Sum(S) /\ Sum(t) = 0
    BY <1>4, <2>1, <2>2
  <2> HIDE DEF Sum
  <2> QED
    BY <1>3, <1>4, <2>2
<1>6. PICK x \in t : TRUE
  BY <1>5
<1>7. IsFiniteSet(t) /\ IsFiniteSet(t \ {x}) /\ IsFiniteSet(S \cup t)
  BY <1>3, FS_Subset, FS_RemoveElement, FS_Union
<1>8. Sum(S \cup (t \ {x})) = Sum(S) + Sum(t \ {x})
  BY <1>2, <1>3, <1>6 DEF T
<1>9. Sum(t) = f[x] + Sum(t \ {x})
  BY <1>3, <1>6, <1>7, SumRemove
<1>10. (S \cup t) \ {x} = S \cup (t \ {x})
  BY <1>3, <1>6
<1>11. Sum(S \cup t) = f[x] + Sum((S \cup t) \ {x})
  BY <1>3, <1>6, <1>7, SumRemove
<1>12. Sum(t \ {x}) \in Int /\ f[x] \in Int
  BY <1>3, <1>6, <1>7, SumType
<1>13. Sum(S \cup t) = f[x] + (Sum(S) + Sum(t \ {x}))
  BY <1>8, <1>10, <1>11
<1> HIDE DEF Sum
<1> QED
  BY <1>3, <1>4, <1>9, <1>12, <1>13

\* The sum over more summands is not less.
LEMMA SumSubset ==
    ASSUME NEW f, NEW S, IsFiniteSet(S), \A x \in S : f[x] \in Nat, NEW R \in SUBSET S
    PROVE  SumFunctionOnSet(f, R) <= SumFunctionOnSet(f, S)
<1>1. IsFiniteSet(R) /\ IsFiniteSet(S \ R) /\ S = R \cup (S \ R) /\ R \cap (S \ R) = {}
  BY FS_Subset
<1>2. SumFunctionOnSet(f, R) \in Nat /\ SumFunctionOnSet(f, S \ R) \in Nat
  BY <1>1, SumNat
<1>3. SumFunctionOnSet(f, R \cup (S \ R)) = SumFunctionOnSet(f, R) + SumFunctionOnSet(f, S \ R)
  BY <1>1, SumUnion
<1>4. SumFunctionOnSet(f, R \cup (S \ R)) = SumFunctionOnSet(f, S)
  BY <1>1
<1> QED
  BY <1>2, <1>3, <1>4

\* The summands may be renamed.
LEMMA SumRenamed ==
    ASSUME NEW f, NEW g, NEW S, NEW R, NEW h, IsFiniteSet(S),
           \A x \in S : h[x] \in R /\ f[x] = g[h[x]] /\ f[x] \in Int,
           \A x, y \in S : h[x] = h[y] => x = y,
           \A y \in R : \E x \in S : h[x] = y
    PROVE  IsFiniteSet(R) /\ SumFunctionOnSet(f, S) = SumFunctionOnSet(g, R)
<1> DEFINE Image(t) == {y \in R : \E x \in t : h[x] = y}
           T == {t \in SUBSET S : ~(IsFiniteSet(Image(t))
                                       /\ SumFunctionOnSet(f, t) = SumFunctionOnSet(g, Image(t)))}
<1>0. T \subseteq SUBSET S
  OBVIOUS
<1>1. Image(S) = R
  OBVIOUS
<1>2. SUFFICES ASSUME T # {} PROVE FALSE
  <2>1. ASSUME T = {}
        PROVE  IsFiniteSet(Image(S)) /\ SumFunctionOnSet(f, S) = SumFunctionOnSet(g, Image(S))
    <3>1. S \in SUBSET S
      OBVIOUS
    <3> HIDE DEF Image
    <3> QED
      BY <2>1, <3>1
  <2> HIDE DEF Image, T
  <2> QED
    BY <1>1, <2>1
<1> HIDE DEF T
<1>3. PICK t \in T : \A u \in T : u \subseteq t => u = t
  BY <1>0, <1>2, Smallest
<1>4. t \subseteq S
  BY <1>0
<1>5. t # {}
  <2>1. Image({}) = {}
    OBVIOUS
  <2>2. {} \notin T
    BY <2>1, SumEmpty, FS_EmptySet DEF T
  <2> QED
    BY <2>2
<1>6. PICK x \in t : TRUE
  BY <1>5
<1> DEFINE u == t \ {x}
<1>7. IsFiniteSet(t) /\ u \in SUBSET S /\ u \notin T
  BY <1>3, <1>4, <1>6, FS_Subset
<1>8. IsFiniteSet(Image(u)) /\ SumFunctionOnSet(f, u) = SumFunctionOnSet(g, Image(u))
  BY <1>7 DEF T
<1>9. Image(t) = Image(u) \cup {h[x]} /\ h[x] \notin Image(u)
  BY <1>4, <1>6
<1>10. SumFunctionOnSet(f, t) = f[x] + SumFunctionOnSet(f, u)
  BY <1>4, <1>6, <1>7, SumRemove
<1>11. \A y \in Image(u) \cup {h[x]} : g[y] \in Int
  BY <1>4, <1>6
<1> HIDE DEF Image, u
<1>12. IsFiniteSet(Image(t)) /\ SumFunctionOnSet(g, Image(t)) = g[h[x]] + SumFunctionOnSet(g, Image(u))
  BY <1>8, <1>9, <1>11, SumInsert, FS_AddElement
<1>13. f[x] = g[h[x]]
  BY <1>4, <1>6
<1>14. t \notin T
  BY <1>4, <1>8, <1>10, <1>12, <1>13 DEF T
<1> QED
  BY <1>14

\* Summands that are zero add up to zero.
LEMMA SumZero ==
    ASSUME NEW f, NEW S, IsFiniteSet(S), \A x \in S : f[x] = 0
    PROVE  SumFunctionOnSet(f, S) = 0
<1> DEFINE T == {t \in SUBSET S : SumFunctionOnSet(f, t) # 0}
<1>0. T \subseteq SUBSET S
  OBVIOUS
<1>1. SUFFICES ASSUME T # {} PROVE FALSE
  OBVIOUS
<1> HIDE DEF T
<1>2. PICK t \in T : \A u \in T : u \subseteq t => u = t
  BY <1>0, <1>1, Smallest
<1>3. t \subseteq S /\ SumFunctionOnSet(f, t) # 0
  BY DEF T
<1>4. t # {}
  BY <1>3, SumEmpty
<1>5. Chosen(t) \in t /\ IsFiniteSet(t)
  BY <1>3, <1>4, ChosenIsElement, FS_Subset
<1>6. SumFunctionOnSet(f, t \ {Chosen(t)}) = 0
  BY <1>2, <1>3, <1>5 DEF T
<1>7. SumFunctionOnSet(f, t) = f[Chosen(t)] + SumFunctionOnSet(f, t \ {Chosen(t)})
  BY <1>4, <1>5, SumRecursive
<1> QED
  BY <1>3, <1>5, <1>6, <1>7

\* Larger summands have a larger sum.
LEMMA SumMonotone ==
    ASSUME NEW f, NEW g, NEW S, IsFiniteSet(S),
           \A x \in S : f[x] \in Int /\ g[x] \in Int /\ f[x] <= g[x]
    PROVE  SumFunctionOnSet(f, S) <= SumFunctionOnSet(g, S)
<1> DEFINE T == {t \in SUBSET S : ~(SumFunctionOnSet(f, t) <= SumFunctionOnSet(g, t))}
<1>0. T \subseteq SUBSET S
  OBVIOUS
<1>1. SUFFICES ASSUME T # {} PROVE FALSE
  OBVIOUS
<1> HIDE DEF T
<1>2. PICK t \in T : \A u \in T : u \subseteq t => u = t
  BY <1>0, <1>1, Smallest
<1>3. t \subseteq S /\ ~(SumFunctionOnSet(f, t) <= SumFunctionOnSet(g, t))
  BY DEF T
<1>4. t # {}
  BY <1>3, SumEmpty
<1>5. Chosen(t) \in t /\ IsFiniteSet(t) /\ IsFiniteSet(t \ {Chosen(t)})
  BY <1>3, <1>4, ChosenIsElement, FS_Subset, FS_RemoveElement
<1> DEFINE u == t \ {Chosen(t)}
<1>6. SumFunctionOnSet(f, u) <= SumFunctionOnSet(g, u)
  BY <1>2, <1>3, <1>5 DEF T
<1>7. /\ SumFunctionOnSet(f, t) = f[Chosen(t)] + SumFunctionOnSet(f, u)
      /\ SumFunctionOnSet(g, t) = g[Chosen(t)] + SumFunctionOnSet(g, u)
  BY <1>4, <1>5, SumRecursive
<1>8. SumFunctionOnSet(f, u) \in Int /\ SumFunctionOnSet(g, u) \in Int
  BY <1>3, <1>5, SumType
<1>9. f[Chosen(t)] \in Int /\ g[Chosen(t)] \in Int /\ f[Chosen(t)] <= g[Chosen(t)]
  BY <1>3, <1>5
<1> HIDE DEF u
<1> QED
  BY <1>3, <1>6, <1>7, <1>8, <1>9

\* A sum is at most the number of summands times a bound on them.
LEMMA SumBound ==
    ASSUME NEW f, NEW S, IsFiniteSet(S), NEW m \in Int, \A x \in S : f[x] \in Int /\ f[x] <= m
    PROVE  Cardinality(S) \in Nat /\ SumFunctionOnSet(f, S) <= Cardinality(S) * m
<1> DEFINE T == {t \in SUBSET S : ~(SumFunctionOnSet(f, t) <= Cardinality(t) * m)}
<1>0. T \subseteq SUBSET S
  OBVIOUS
<1>1. SUFFICES ASSUME T # {} PROVE FALSE
  BY FS_CardinalityType
<1> HIDE DEF T
<1>2. PICK t \in T : \A u \in T : u \subseteq t => u = t
  BY <1>0, <1>1, Smallest
<1>3. t \subseteq S /\ ~(SumFunctionOnSet(f, t) <= Cardinality(t) * m)
  BY DEF T
<1>4. t # {}
  <2>1. SumFunctionOnSet(f, {}) = 0 /\ Cardinality({}) = 0 /\ 0 * m = 0
    BY SumEmpty, FS_EmptySet
  <2>2. SumFunctionOnSet(f, {}) <= Cardinality({}) * m
    BY <2>1
  <2> QED
    BY <1>3, <2>2
<1>5. Chosen(t) \in t /\ IsFiniteSet(t) /\ IsFiniteSet(t \ {Chosen(t)})
  BY <1>3, <1>4, ChosenIsElement, FS_Subset, FS_RemoveElement
<1> DEFINE u == t \ {Chosen(t)}
<1>6. SumFunctionOnSet(f, u) <= Cardinality(u) * m
  BY <1>2, <1>3, <1>5 DEF T
<1>7. SumFunctionOnSet(f, t) = f[Chosen(t)] + SumFunctionOnSet(f, u)
  BY <1>4, <1>5, SumRecursive
<1>8. SumFunctionOnSet(f, u) \in Int
  BY <1>3, <1>5, SumType
<1>9. f[Chosen(t)] \in Int /\ f[Chosen(t)] <= m
  BY <1>3, <1>5
<1>10. Cardinality(u) = Cardinality(t) - 1 /\ Cardinality(t) \in Nat
  BY <1>5, FS_RemoveElement, FS_CardinalityType
<1> DEFINE n == Cardinality(t)
<1> HIDE DEF u, n
<1>11. n \in Nat /\ (n - 1) * m = n * m - m /\ n * m \in Int
  <2>1. n \in Int
    BY <1>10 DEF n
  <2>2. (n - 1) * m = n * m - m /\ n * m \in Int
    BY <2>1
  <2> QED
    BY <1>10, <2>2 DEF n
<1>12. SumFunctionOnSet(f, u) <= n * m - m
  BY <1>6, <1>10, <1>11 DEF n
<1>13. SumFunctionOnSet(f, t) <= n * m
  BY <1>7, <1>8, <1>9, <1>11, <1>12
<1> QED
  BY <1>3, <1>13 DEF n

\* Summands that are zero can be left out.
LEMMA SumSelect ==
    ASSUME NEW f, NEW g, NEW S, NEW R, IsFiniteSet(S), R \subseteq S,
           \A x \in R : g[x] = f[x] /\ f[x] \in Int, \A x \in S \ R : g[x] = 0
    PROVE  SumFunctionOnSet(g, S) = SumFunctionOnSet(f, R)
<1>1. IsFiniteSet(R) /\ IsFiniteSet(S \ R) /\ S = R \cup (S \ R) /\ R \cap (S \ R) = {}
  BY FS_Subset
<1> DEFINE P == S \ R
<1>2. \A x \in R \cup P : g[x] \in Int
  OBVIOUS
<1>3. SumFunctionOnSet(g, P) = 0
  BY <1>1, SumZero
<1>4. SumFunctionOnSet(g, R) = SumFunctionOnSet(f, R) /\ SumFunctionOnSet(f, R) \in Int
  BY <1>1, SumEqual, SumType
<1> HIDE DEF P
<1>5. SumFunctionOnSet(g, R \cup P) = SumFunctionOnSet(g, R) + SumFunctionOnSet(g, P)
  BY <1>1, <1>2, SumUnion DEF P
<1>6. SumFunctionOnSet(g, R \cup P) = SumFunctionOnSet(f, R)
  BY <1>3, <1>4, <1>5
<1> QED
  BY <1>1, <1>6 DEF P

-----------------------------------------------------------------------------
(* The least and the greatest element.                                     *)

\* A finite set of integers has a least and a greatest element.
LEMMA Extrema ==
    ASSUME NEW S, S \subseteq Int, IsFiniteSet(S), S # {}
    PROVE  (\E x \in S : \A y \in S : x <= y) /\ (\E x \in S : \A y \in S : x >= y)
<1> DEFINE Has(t) == (\E x \in t : \A y \in t : x <= y) /\ (\E x \in t : \A y \in t : x >= y)
           T == {t \in SUBSET S : t # {} /\ ~Has(t)}
<1>0. T \subseteq SUBSET S
  OBVIOUS
<1>1. SUFFICES ASSUME T # {} PROVE FALSE
  <2>1. S \in SUBSET S
    OBVIOUS
  <2>2. T = {} => Has(S)
    <3> HIDE DEF Has
    <3> QED
      BY <2>1
  <2> HIDE DEF T
  <2> QED
    BY <2>2
<1> HIDE DEF T, Has
<1>2. PICK t \in T : \A u \in T : u \subseteq t => u = t
  <2>1. IsFiniteSet(S) /\ T \subseteq SUBSET S /\ T # {}
    BY <1>0, <1>1
  <2> QED
    BY ONLY <2>1, Smallest
<1>3. t \subseteq S /\ t # {} /\ ~Has(t)
  BY DEF T
<1> USE DEF Has
<1>4. PICK x \in t : TRUE
  BY <1>3
<1> DEFINE u == t \ {x}
<1>5. CASE u = {}
  <2>1. t = {x} /\ x \in Int
    BY <1>3, <1>4, <1>5
  <2> QED
    BY <1>3, <2>1
<1>6. CASE u # {}
  <2>1. u \subseteq t /\ u # t /\ u \subseteq S
    BY <1>3, <1>4
  <2> HIDE DEF Has
  <2>2. Has(u)
    BY <1>2, <1>6, <2>1 DEF T
  <2> USE DEF Has
  <2>3. PICK low \in u : \A y \in u : low <= y
    BY <2>2
  <2>4. PICK high \in u : \A y \in u : high >= y
    BY <2>2
  <2> HIDE DEF u
  <2>5. /\ \A y \in t : y \in u \/ y = x
        /\ low \in t /\ high \in t /\ x \in t
        /\ \A y \in t : y \in Int
    BY <1>3, <1>4 DEF u
  <2>6. \E a \in t : \A y \in t : a <= y
    <3>1. CASE low <= x
      BY <2>3, <2>5, <3>1
    <3>2. CASE ~(low <= x)
      <4>1. \A y \in t : x <= y
        BY <2>3, <2>5, <3>2
      <4> QED
        BY <2>5, <4>1
    <3> QED
      BY <3>1, <3>2
  <2>7. \E a \in t : \A y \in t : a >= y
    <3>1. CASE high >= x
      BY <2>4, <2>5, <3>1
    <3>2. CASE ~(high >= x)
      <4>1. ASSUME NEW y \in t PROVE x >= y
        <5>1. y \in Int /\ x \in Int /\ high \in Int
          BY <2>5
        <5>2. y = x \/ high >= y
          BY <2>4, <2>5
        <5> QED
          BY <3>2, <5>1, <5>2
      <4> QED
        BY <2>5, <4>1
    <3> QED
      BY <3>1, <3>2
  <2> QED
    BY <1>3, <2>6, <2>7
<1> QED
  BY <1>5, <1>6

\* What Min and Max return.
LEMMA MinMax ==
    ASSUME NEW S, S \subseteq Int, IsFiniteSet(S), S # {}
    PROVE  /\ Min(S) \in S /\ \A y \in S : Min(S) <= y
           /\ Max(S) \in S /\ \A y \in S : Max(S) >= y
  BY Extrema DEF Min, Max

\* Of two numbers.
LEMMA PairExtrema ==
    ASSUME NEW a \in Int, NEW b \in Int
    PROVE  Min({a, b}) = (IF a < b THEN a ELSE b) /\ Max({a, b}) = (IF a < b THEN b ELSE a)
<1> DEFINE S == {a, b}
<1>1. IsFiniteSet(S)
  <2>1. S = {a} \cup {b}
    OBVIOUS
  <2>2. IsFiniteSet({a})
    BY FS_Singleton
  <2> HIDE DEF S
  <2> QED
    BY <2>1, <2>2, FS_AddElement
<1>2. S \subseteq Int /\ S # {}
  OBVIOUS
<1>3. Min(S) \in S /\ (\A y \in S : Min(S) <= y) /\ Max(S) \in S /\ (\A y \in S : Max(S) >= y)
  BY <1>1, <1>2, MinMax
<1> QED
  BY <1>3

-----------------------------------------------------------------------------
(* Sequences.                                                              *)

\* The elements of a sequence are finitely many.
LEMMA ElementsFinite ==
    ASSUME NEW S, NEW q \in Seq(S)
    PROVE  IsFiniteSet({q[i] : i \in DOMAIN q}) /\ {q[i] : i \in DOMAIN q} \subseteq S
<1>1. DOMAIN q = 1 .. Len(q) /\ Len(q) \in Nat
  OBVIOUS
<1>2. IsFiniteSet(1 .. Len(q))
  BY <1>1, FS_Interval
<1> DEFINE f == [i \in 1 .. Len(q) |-> q[i]]
           R == {q[i] : i \in DOMAIN q}
<1>3. f \in Surjection(1 .. Len(q), R)
  <2>1. f \in [1 .. Len(q) -> R]
    BY <1>1
  <2>2. \A t \in R : \E s \in 1 .. Len(q) : f[s] = t
    BY <1>1
  <2> HIDE DEF f, R
  <2> QED
    BY <2>1, <2>2 DEF Surjection
<1>4. IsFiniteSet(R)
  <2> HIDE DEF f, R
  <2> QED
    BY <1>2, <1>3, FS_Surjection
<1>5. R \subseteq S
  BY <1>1
<1> QED
  BY <1>4, <1>5

\* The sum of a sequence of integers.
SumSeq(q) == SumFunctionOnSet(q, DOMAIN q)

\* It is an integer.
LEMMA SumSeqType ==
    ASSUME NEW q \in Seq(Int)
    PROVE  SumSeq(q) \in Int
<1>1. DOMAIN q = 1 .. Len(q) /\ Len(q) \in Nat /\ \A i \in 1 .. Len(q) : q[i] \in Int
  OBVIOUS
<1>2. IsFiniteSet(1 .. Len(q))
  BY <1>1, FS_Interval
<1> QED
  BY <1>1, <1>2, SumType DEF SumSeq

\* An empty sequence adds up to nothing.
LEMMA SumSeqEmpty == SumSeq(<< >>) = 0
<1>1. DOMAIN << >> = {}
  OBVIOUS
<1> QED
  BY <1>1, SumEmpty DEF SumSeq

\* push_back.
LEMMA SumSeqAppend ==
    ASSUME NEW q \in Seq(Int), NEW x \in Int
    PROVE  SumSeq(Append(q, x)) = SumSeq(q) + x
<1> DEFINE r == Append(q, x)
           n == Len(q)
<1>1. /\ DOMAIN q = 1 .. n /\ n \in Nat /\ DOMAIN r = 1 .. n + 1
      /\ r[n + 1] = x /\ \A i \in 1 .. n : r[i] = q[i] /\ r[i] \in Int
  <2>1. n \in Nat /\ DOMAIN q = 1 .. n /\ \A i \in 1 .. n : q[i] \in Int
    OBVIOUS
  <2>2. DOMAIN r = 1 .. n + 1 /\ r[n + 1] = x /\ \A i \in 1 .. n : r[i] = q[i]
    OBVIOUS
  <2> HIDE DEF r, n
  <2> QED
    BY <2>1, <2>2
<1> HIDE DEF r, n
<1>2. 1 .. n + 1 = (1 .. n) \cup {n + 1} /\ n + 1 \notin 1 .. n /\ IsFiniteSet(1 .. n)
  <2>1. \A i : i \in 1 .. n + 1 <=> i \in 1 .. n \/ i = n + 1
    BY <1>1
  <2>2. n + 1 \notin 1 .. n /\ IsFiniteSet(1 .. n)
    BY <1>1, FS_Interval
  <2> QED
    BY <2>1, <2>2
<1>3. \A i \in (1 .. n) \cup {n + 1} : r[i] \in Int
  BY <1>1
<1>4. SumFunctionOnSet(r, (1 .. n) \cup {n + 1}) = r[n + 1] + SumFunctionOnSet(r, 1 .. n)
  BY <1>2, <1>3, SumInsert
<1>5. SumFunctionOnSet(r, 1 .. n) = SumFunctionOnSet(q, 1 .. n)
  BY <1>1, <1>2, SumEqual
<1>6. SumFunctionOnSet(q, 1 .. n) \in Int
  BY <1>1, <1>2, SumType
<1>7. SumFunctionOnSet(r, 1 .. n + 1) = SumFunctionOnSet(r, (1 .. n) \cup {n + 1})
  BY <1>2
<1> QED
  BY <1>1, <1>4, <1>5, <1>6, <1>7 DEF SumSeq, r

\* pop_front.
LEMMA SumSeqTail ==
    ASSUME NEW q \in Seq(Int), q # << >>
    PROVE  Tail(q) \in Seq(Int) /\ SumSeq(q) = Head(q) + SumSeq(Tail(q))
<1> DEFINE r == Tail(q)
           n == Len(q)
           h == [i \in 2 .. n |-> i - 1]
<1>1. /\ DOMAIN q = 1 .. n /\ n \in Nat /\ n > 0 /\ DOMAIN r = 1 .. n - 1 /\ r \in Seq(Int)
      /\ Head(q) = q[1] /\ \A i \in 1 .. n - 1 : r[i] = q[i + 1]
      /\ \A i \in 1 .. n : q[i] \in Int
  <2>1. /\ DOMAIN q = 1 .. n /\ n \in Nat /\ n > 0 /\ Head(q) = q[1]
        /\ \A i \in 1 .. n : q[i] \in Int
    OBVIOUS
  <2>2. r \in Seq(Int) /\ Len(r) = n - 1 /\ DOMAIN r = 1 .. n - 1
    OBVIOUS
  <2>3. \A i \in 1 .. n - 1 : r[i] = q[i + 1]
    OBVIOUS
  <2> QED
    BY <2>1, <2>2, <2>3
<1> HIDE DEF r, n
<1>2. 1 \in 1 .. n /\ (1 .. n) \ {1} = 2 .. n /\ IsFiniteSet(1 .. n) /\ IsFiniteSet(2 .. n)
  <2>1. \A i : i \in 2 .. n <=> i \in 1 .. n /\ i # 1
    BY <1>1
  <2>2. 1 \in 1 .. n
    BY <1>1
  <2>3. IsFiniteSet(1 .. n) /\ IsFiniteSet(2 .. n)
    BY <1>1, FS_Interval
  <2> QED
    BY <2>1, <2>2, <2>3
<1>3. SumFunctionOnSet(q, 1 .. n) = q[1] + SumFunctionOnSet(q, (1 .. n) \ {1})
  <2> DEFINE D == 1 .. n
  <2>1. IsFiniteSet(D) /\ 1 \in D /\ \A i \in D : q[i] \in Int
    BY <1>1, <1>2
  <2> HIDE DEF D
  <2>2. SumFunctionOnSet(q, D) = q[1] + SumFunctionOnSet(q, D \ {1})
    BY <2>1, SumRemove
  <2> QED
    BY <2>2 DEF D
<1>4. SumFunctionOnSet(q, 2 .. n) = SumFunctionOnSet(r, 1 .. n - 1)
  <2>1. \A i \in 2 .. n : h[i] \in 1 .. n - 1 /\ q[i] = r[h[i]] /\ q[i] \in Int
    BY <1>1
  <2>2. \A i, j \in 2 .. n : h[i] = h[j] => i = j
    BY <1>1
  <2>3. \A j \in 1 .. n - 1 : \E i \in 2 .. n : h[i] = j
    <3> SUFFICES ASSUME NEW j \in 1 .. n - 1 PROVE \E i \in 2 .. n : h[i] = j
      OBVIOUS
    <3>1. j + 1 \in 2 .. n /\ h[j + 1] = j
      BY <1>1
    <3> QED
      BY <3>1
  <2>4. IsFiniteSet(2 .. n) /\ IsFiniteSet(1 .. n - 1)
    BY <1>1, <1>2, FS_Interval
  <2> DEFINE D == 2 .. n
             E == 1 .. n - 1
  <2>5. /\ IsFiniteSet(D)
        /\ \A i \in D : h[i] \in E /\ q[i] = r[h[i]] /\ q[i] \in Int
        /\ \A i, j \in D : h[i] = h[j] => i = j
        /\ \A j \in E : \E i \in D : h[i] = j
    BY <2>1, <2>2, <2>3, <2>4
  <2> HIDE DEF h, D, E
  <2>6. SumFunctionOnSet(q, D) = SumFunctionOnSet(r, E)
    BY <2>5, SumRenamed
  <2> QED
    BY <2>6 DEF D, E
<1>5. SumFunctionOnSet(q, (1 .. n) \ {1}) = SumFunctionOnSet(q, 2 .. n)
  BY <1>2
<1> QED
  BY <1>1, <1>3, <1>4, <1>5 DEF SumSeq, r
-----------------------------------------------------------------------------
(* A finite set that a relation orders: B holds the pairs in order.        *)

\* It has a last element.
LEMMA LastElement ==
    ASSUME NEW S, IsFiniteSet(S), S # {}, NEW B,
           \A x \in S : <<x, x>> \notin B,
           \A x, y, z \in S : <<x, y>> \in B /\ <<y, z>> \in B => <<x, z>> \in B,
           \A x, y \in S : x # y => <<x, y>> \in B \/ <<y, x>> \in B
    PROVE  \E z \in S : \A y \in S : y # z => <<y, z>> \in B
<1> DEFINE After(x) == {y \in S : <<x, y>> \in B}
           T == {After(x) : x \in S}
<1>1. T \subseteq SUBSET S /\ T # {}
  <2>1. \A x \in S : After(x) \in SUBSET S
    OBVIOUS
  <2> HIDE DEF After
  <2> QED
    BY <2>1
<1>2. PICK a \in T : \A b \in T : b \subseteq a => b = a
  <2> HIDE DEF T
  <2> QED
    BY ONLY <1>1, IsFiniteSet(S), Smallest
<1>3. PICK z \in S : a = After(z)
  BY <1>2
<1>4. ASSUME NEW y \in After(z) PROVE FALSE
  <2>1. y \in S /\ After(y) \in T
    BY <1>4
  <2>2. After(y) \subseteq a /\ y \in a /\ y \notin After(y)
    BY <1>3, <1>4, <2>1
  <2> QED
    BY <1>2, <2>1, <2>2
<1> QED
  BY <1>4

\* Its elements can be listed in order.
LEMMA Listed ==
    ASSUME NEW S, IsFiniteSet(S), NEW B,
           \A x \in S : <<x, x>> \notin B,
           \A x, y, z \in S : <<x, y>> \in B /\ <<y, z>> \in B => <<x, z>> \in B,
           \A x, y \in S : x # y => <<x, y>> \in B \/ <<y, x>> \in B
    PROVE  \E r \in [1 .. Cardinality(S) -> S] :
               \A i, j \in 1 .. Cardinality(S) : i < j => <<r[i], r[j]>> \in B
<1> DEFINE Has(t) == \E r \in [1 .. Cardinality(t) -> t] :
                         \A i, j \in 1 .. Cardinality(t) : i < j => <<r[i], r[j]>> \in B
           T == {t \in SUBSET S : ~Has(t)}
<1>0. T \subseteq SUBSET S
  OBVIOUS
<1>1. SUFFICES ASSUME T # {} PROVE FALSE
  <2> HIDE DEF Has
  <2>1. S \in SUBSET S
    OBVIOUS
  <2>2. T = {} => Has(S)
    BY <2>1
  <2> HIDE DEF T
  <2> USE DEF Has
  <2> QED
    BY <2>2
<1> HIDE DEF T, Has
<1>2. PICK t \in T : \A u \in T : u \subseteq t => u = t
  BY ONLY <1>0, <1>1, IsFiniteSet(S), Smallest
<1>3. t \subseteq S /\ ~Has(t)
  BY DEF T
<1>4. IsFiniteSet(t) /\ Cardinality(t) \in Nat
  BY <1>3, FS_Subset, FS_CardinalityType
<1>5. t # {}
  <2>1. SUFFICES ASSUME t = {} PROVE Has(t)
    BY <1>3
  <2>2. Cardinality(t) = 0
    BY <2>1, FS_EmptySet
  <2> DEFINE r == [i \in 1 .. 0 |-> 0]
  <2>3. r \in [1 .. 0 -> t]
    OBVIOUS
  <2>4. \A i, j \in 1 .. 0 : i < j => <<r[i], r[j]>> \in B
    OBVIOUS
  <2> HIDE DEF r
  <2> QED
    BY <2>2, <2>3, <2>4 DEF Has
<1>6. PICK z \in t : \A y \in t : y # z => <<y, z>> \in B
  <2>1. /\ \A x \in t : <<x, x>> \notin B
        /\ \A x, y, v \in t : <<x, y>> \in B /\ <<y, v>> \in B => <<x, v>> \in B
        /\ \A x, y \in t : x # y => <<x, y>> \in B \/ <<y, x>> \in B
    BY <1>3
  <2> QED
    BY ONLY <1>4, <1>5, <2>1, LastElement
<1> DEFINE u == t \ {z}
           n == Cardinality(u)
<1>7. u \subseteq t /\ u # t /\ u \subseteq S
  BY <1>3, <1>6
<1>8. Cardinality(t) = n + 1 /\ n \in Nat
  <2>1. IsFiniteSet(u) /\ n = Cardinality(t) - 1
    BY <1>4, <1>6, FS_RemoveElement
  <2>2. n \in Nat
    BY <2>1, FS_CardinalityType
  <2> HIDE DEF n
  <2> QED
    BY <1>4, <2>1, <2>2
<1>9. Has(u)
  BY <1>2, <1>7 DEF T
<1>10. PICK r \in [1 .. n -> u] : \A i, j \in 1 .. n : i < j => <<r[i], r[j]>> \in B
  BY <1>9 DEF Has
<1> HIDE DEF n
<1> DEFINE q == [i \in 1 .. n + 1 |-> IF i <= n THEN r[i] ELSE z]
<1>11. q \in [1 .. n + 1 -> t]
  BY <1>6, <1>8, <1>10
<1>12. ASSUME NEW i \in 1 .. n + 1, NEW j \in 1 .. n + 1, i < j PROVE <<q[i], q[j]>> \in B
  <2>1. i \in 1 .. n /\ (j \in 1 .. n \/ j = n + 1)
    BY <1>8, <1>12
  <2>2. q[i] = r[i] /\ r[i] \in t /\ r[i] # z
    BY <1>8, <1>10, <2>1
  <2>3. CASE j \in 1 .. n
    BY <1>8, <1>10, <1>12, <2>1, <2>2, <2>3
  <2>4. CASE j = n + 1
    BY <1>6, <1>8, <2>2, <2>4
  <2> QED
    BY <2>1, <2>3, <2>4
<1> HIDE DEF q
<1> QED
  BY <1>3, <1>8, <1>11, <1>12 DEF Has

\* A list without repetitions, as long as the set is large, holds all of it.
LEMMA ListedAll ==
    ASSUME NEW S, IsFiniteSet(S), NEW r \in [1 .. Cardinality(S) -> S],
           \A i, j \in 1 .. Cardinality(S) : i < j => r[i] # r[j]
    PROVE  \A y \in S : \E i \in 1 .. Cardinality(S) : r[i] = y
<1> DEFINE n == Cardinality(S)
<1>1. n \in Nat
  BY FS_CardinalityType
<1>2. IsFiniteSet(1 .. n) /\ Cardinality(1 .. n) = n
  BY <1>1, FS_Interval
<1>3. \A i, j \in 1 .. n : r[i] = r[j] => i = j
  <2>1. \A i, j \in 1 .. n : i < j \/ j < i \/ i = j
    BY <1>1
  <2> QED
    BY <2>1
<1> HIDE DEF n
<1>4. r \in [1 .. n -> S]
  BY DEF n
<1>5. r \in Injection(1 .. n, S)
  BY <1>3, <1>4 DEF Injection, IsInjective
<1>6. r \in Surjection(1 .. n, S)
  BY <1>2, <1>5, FS_Injection DEF n
<1>7. \A y \in S : \E i \in 1 .. n : r[i] = y
  BY <1>6 DEF Surjection
<1> QED
  BY <1>7 DEF n

-----------------------------------------------------------------------------
(* A sequence without one of its elements.                                 *)

\* What std::list::erase does to a queue: the elements behind the gap move up.
LEMMA RemoveAtValue ==
    ASSUME NEW S, NEW q \in Seq(S), NEW i \in 1 .. Len(q)
    PROVE  /\ RemoveAt(q, i) \in Seq(S)
           /\ Len(RemoveAt(q, i)) = Len(q) - 1
           /\ \A j \in 1 .. Len(q) - 1 :
                 RemoveAt(q, i)[j] = q[IF j < i THEN j ELSE j + 1]
<1> DEFINE front == SubSeq(q, 1, i - 1)
           back == SubSeq(q, i + 1, Len(q))
<1>1. /\ front \in Seq(S) /\ Len(front) = i - 1
      /\ \A j \in 1 .. i - 1 : front[j] = q[j]
  OBVIOUS
<1>2. /\ back \in Seq(S) /\ Len(back) = Len(q) - i
      /\ \A j \in 1 .. Len(q) - i : back[j] = q[j + i]
  OBVIOUS
<1>3. RemoveAt(q, i) = front \o back
  BY DEF RemoveAt
<1> HIDE DEF front, back
<1>4. /\ front \o back \in Seq(S)
      /\ Len(front \o back) = Len(q) - 1
  BY <1>1, <1>2
<1>5. ASSUME NEW j \in 1 .. Len(q) - 1
      PROVE  (front \o back)[j] = q[IF j < i THEN j ELSE j + 1]
  <2>1. CASE j < i
    <3>1. j \in 1 .. i - 1 /\ (front \o back)[j] = front[j]
      BY <1>1, <1>2, <2>1
    <3> QED
      BY <1>1, <2>1, <3>1
  <2>2. CASE ~(j < i)
    <3>1. (front \o back)[j] = back[j - (i - 1)]
      BY <1>1, <1>2, <2>2
    <3>2. j - (i - 1) \in 1 .. Len(q) - i /\ j - (i - 1) + i = j + 1
      BY <2>2
    <3>3. back[j - (i - 1)] = q[j + 1]
      BY <1>2, <3>2
    <3> QED
      BY <2>2, <3>1, <3>3
  <2> QED
    BY <2>1, <2>2
<1> QED
  BY <1>3, <1>4, <1>5

\* r is q without the element at i.
Dropped(q, i, r) ==
    /\ Len(r) = Len(q) - 1
    /\ \A j \in 1 .. Len(q) - 1 : r[j] = q[IF j < i THEN j ELSE j + 1]

\* A queue that lost one element still holds all others, each once.
LEMMA DroppedElements ==
    ASSUME NEW S, NEW q \in Seq(S), NEW i \in 1 .. Len(q), NEW r \in Seq(S), Dropped(q, i, r)
    PROVE  /\ \A j \in DOMAIN r : \E k \in DOMAIN q : k # i /\ r[j] = q[k]
           /\ \A k \in DOMAIN q : k # i => \E j \in DOMAIN r : r[j] = q[k]
           /\ (\A j, k \in DOMAIN q : q[j] = q[k] => j = k) =>
                  \A j, k \in DOMAIN r : r[j] = r[k] => j = k
<1> DEFINE f(x) == IF x < i THEN x ELSE x + 1
<1>1. DOMAIN q = 1 .. Len(q) /\ DOMAIN r = 1 .. Len(q) - 1 /\ Len(q) \in Nat
  BY DEF Dropped
<1>2. \A j \in DOMAIN r : r[j] = q[f(j)]
  BY <1>1 DEF Dropped
<1>3. \A j \in DOMAIN r : f(j) \in DOMAIN q /\ f(j) # i
  BY <1>1
<1>4. \A j, k \in DOMAIN r : f(j) = f(k) => j = k
  BY <1>1
<1>5. \A k \in DOMAIN q : k # i => \E j \in DOMAIN r : f(j) = k
  <2> SUFFICES ASSUME NEW k \in DOMAIN q, k # i PROVE \E j \in DOMAIN r : f(j) = k
    OBVIOUS
  <2>1. CASE k < i
    <3>1. k \in DOMAIN r /\ f(k) = k
      BY <1>1, <2>1
    <3> QED
      BY <3>1
  <2>2. CASE k > i
    <3>1. k - 1 \in DOMAIN r /\ f(k - 1) = k
      BY <1>1, <2>2
    <3> QED
      BY <3>1
  <2> QED
    BY <1>1, <2>1, <2>2
<1> HIDE DEF f
<1> QED
  BY <1>2, <1>3, <1>4, <1>5

\* Where nothing is repeated, RemoveFirst leaves everything but x.
LEMMA FirstRemoved ==
    ASSUME NEW S, NEW q \in Seq(S), NEW x, \A i, j \in DOMAIN q : q[i] = q[j] => i = j
    PROVE  LET r == RemoveFirst(q, x)
           IN  /\ r \in Seq(S)
               /\ \A i \in DOMAIN r : r[i] # x /\ \E j \in DOMAIN q : q[j] = r[i]
               /\ \A i, j \in DOMAIN r : r[i] = r[j] => i = j
<1> DEFINE r == RemoveFirst(q, x)
           I == {i \in 1 .. Len(q) : q[i] = x}
<1>1. DOMAIN q = 1 .. Len(q) /\ Len(q) \in Nat
  OBVIOUS
<1>2. r = IF \E i \in 1 .. Len(q) : q[i] = x THEN RemoveAt(q, IF I # {} THEN Min(I) ELSE 0) ELSE q
  BY DEF RemoveFirst, SelectInSeq
<1> HIDE DEF r
<1>3. CASE \A i \in DOMAIN q : q[i] # x
  <2>1. r = q
    BY <1>1, <1>2, <1>3
  <2> QED
    BY <1>1, <1>3, <2>1 DEF r
<1>4. ASSUME NEW k \in DOMAIN q, q[k] = x
      PROVE  /\ r \in Seq(S)
             /\ \A i \in DOMAIN r : r[i] # x /\ \E j \in DOMAIN q : q[j] = r[i]
             /\ \A i, j \in DOMAIN r : r[i] = r[j] => i = j
  <2>1. I = {k}
    BY <1>1, <1>4
  <2>2. k \in Int /\ k \in 1 .. Len(q)
    BY <1>1
  <2>3. Min({k}) = k
    <3>1. {k} \subseteq Int /\ {k} # {} /\ IsFiniteSet({k})
      BY <2>2, FS_Singleton
    <3>2. Min({k}) \in {k}
      BY <3>1, MinMax
    <3> QED
      BY <3>2
  <2> HIDE DEF I
  <2>4. r = RemoveAt(q, k)
    BY <1>1, <1>2, <1>4, <2>1, <2>3
  <2>5. r \in Seq(S) /\ Dropped(q, k, r)
    BY <2>2, <2>4, RemoveAtValue DEF Dropped
  <2>6. /\ \A j \in DOMAIN r : \E i \in DOMAIN q : i # k /\ r[j] = q[i]
        /\ \A i, j \in DOMAIN r : r[i] = r[j] => i = j
    BY <2>2, <2>5, DroppedElements
  <2>7. \A j \in DOMAIN r : r[j] # x
    BY <1>4, <2>6
  <2> QED
    BY <2>5, <2>6, <2>7
<1> QED
  BY <1>3, <1>4 DEF r
=============================================================================

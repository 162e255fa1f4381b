---------------------------- MODULE PricingProofs ----------------------------
(***************************************************************************)
(* Proofs about sums over finite sets and about Pricing, for every scale of *)
(* prices and width of an integer.                                         *)
(***************************************************************************)
EXTENDS Pricing, FiniteSetTheorems, WellFoundedInduction, TLAPS

-----------------------------------------------------------------------------
(* Sums.  The sums of the Functions module are folds, recursive over the      *)
(* subsets of an index set.  Every non-empty set of natural numbers has a     *)
(* least element, and what holds of every finite set is proved on a smallest  *)
(* one it would fail for.                                                     *)

\* A non-empty set of natural numbers has a least element.
LEMMA Least == 
  ASSUME NEW T, T \subseteq Nat, T # {}
  PROVE \E n \in T : \A m \in T : n <= m
<1>1. PICK R : R = {ss \in Nat \X Nat : ss[1] < ss[2]}
  OBVIOUS
<1>2. R = OpToRel(<, Nat)
  BY <1>1 DEF OpToRel
<1>3. IsWellFoundedOn(R, Nat)
  BY <1>2, NatLessThanWellFounded
<1>4. PICK n \in T : \A m \in T : ~(<<m, n>> \in R)
  BY <1>3, WFMin
<1>5. \A m \in T : ~(m < n)
  BY <1>1, <1>4
<1>6. QED
  BY <1>5

\* Induction over the natural numbers, for a set of them.
LEMMA Induction ==
  ASSUME NEW G, G \subseteq Nat, 0 \in G, \A n \in Nat : n \in G => n + 1 \in G
  PROVE  G = Nat
<1>1. SUFFICES ASSUME Nat \ G # {} PROVE FALSE
  OBVIOUS
<1>2. PICK n \in Nat \ G : \A m \in Nat \ G : n <= m
  BY <1>1, Least
<1>3. n - 1 \in Nat
  BY <1>2
<1>4. n - 1 \in G
  BY <1>2, <1>3
<1>5. n - 1 + 1 \in G
  BY <1>3, <1>4
<1>6. QED
  BY <1>2, <1>5

\* Induction on the size of finite sets: of the sets in a family of finite sets
\* one is smallest.
LEMMA Smallest ==
  ASSUME NEW F, F # {}, \A s \in F : IsFiniteSet(s)
  PROVE  \E s \in F : \A r \in F : Cardinality(s) <= Cardinality(r)
<1>1. PICK T : T = {Cardinality(s) : s \in F}
  OBVIOUS
<1>2. T \subseteq Nat /\ T # {}
  BY <1>1, FS_CardinalityType
<1>3. PICK n \in T : \A m \in T : n <= m
  BY <1>2, Least
<1>4. QED
  BY <1>1, <1>3

\* The element a fold takes next.
Pick(s) == CHOOSE x \in s : TRUE

\* it sums f over every subset of S, as the fold of the Functions module does.
Sums(it, f, S) ==
  it = [s \in SUBSET S |-> IF s = {} THEN 0 ELSE f[Pick(s)] + it[s \ {Pick(s)}]]

\* The sum as a member of such a recursion.
LEMMA Unfold ==
  ASSUME NEW f, NEW S
  PROVE  SumFunctionOnSet(f, S) = (CHOOSE it : Sums(it, f, S))[S]
BY DEF SumFunctionOnSet, FoldFunctionOnSet, MapThenFoldSet, Sums, Pick

\* A smaller set is left when an element is taken.
LEMMA TakeOne ==
  ASSUME NEW s, IsFiniteSet(s), s # {}
  PROVE  /\ Pick(s) \in s
         /\ \A x \in s : IsFiniteSet(s \ {x}) /\ Cardinality(s \ {x}) = Cardinality(s) - 1
         /\ Cardinality(s) \in Nat \ {0}
<1>1. Pick(s) \in s
  BY DEF Pick
<1>2. \A x \in s : IsFiniteSet(s \ {x}) /\ Cardinality(s \ {x}) = Cardinality(s) - 1
  BY FS_RemoveElement
<1>3. Cardinality(s) \in Nat \ {0}
  BY FS_CardinalityType, FS_EmptySet
<1>4. QED
  BY <1>1, <1>2, <1>3

\* The fold is well defined.
LEMMA SumsExist ==
  ASSUME NEW f, NEW S, IsFiniteSet(S)
  PROVE  \E it : Sums(it, f, S)
<1> DEFINE Small(n) == {s \in SUBSET S : Cardinality(s) <= n}
           Good(n) == \E it : it = [s \in Small(n) |->
                        IF s = {} THEN 0 ELSE f[Pick(s)] + it[s \ {Pick(s)}]]
<1>0. \A s \in SUBSET S : IsFiniteSet(s) /\ Cardinality(s) \in Nat /\ Cardinality(s) <= Cardinality(S)
  BY FS_Subset, FS_CardinalityType
<1>1. Good(0)
  <2>1. Small(0) = {{}}
    BY <1>0, FS_EmptySet
  <2>2. PICK it : it = [s \in Small(0) |-> 0]
    OBVIOUS
  <2>3. it = [s \in Small(0) |-> IF s = {} THEN 0 ELSE f[Pick(s)] + it[s \ {Pick(s)}]]
    BY <2>1, <2>2
  <2>4. QED
    BY <2>3
<1>2. ASSUME NEW n \in Nat, Good(n) PROVE Good(n + 1)
  <2>1. PICK it : it = [s \in Small(n) |-> IF s = {} THEN 0 ELSE f[Pick(s)] + it[s \ {Pick(s)}]]
    BY <1>2
  <2>2. PICK next : next = [s \in Small(n + 1) |->
                              IF s = {} THEN 0 ELSE f[Pick(s)] + it[s \ {Pick(s)}]]
    OBVIOUS
  <2>3. \A s \in Small(n) : s \in Small(n + 1)
    BY <1>0
  <2>4. \A s \in Small(n) : next[s] = it[s]
    BY <2>1, <2>2, <2>3
  <2>5. \A s \in Small(n + 1) : s # {} => s \ {Pick(s)} \in Small(n)
    BY <1>0, TakeOne
  <2>6. \A s \in Small(n + 1) : next[s] = IF s = {} THEN 0 ELSE f[Pick(s)] + next[s \ {Pick(s)}]
    BY <2>2, <2>4, <2>5
  <2>7. next = [s \in Small(n + 1) |-> IF s = {} THEN 0 ELSE f[Pick(s)] + next[s \ {Pick(s)}]]
    BY <2>2, <2>6
  <2>8. QED
    BY <2>7
<1>3. Good(Cardinality(S))
  <2> HIDE DEF Good
  <2>1. PICK G : G = {n \in Nat : Good(n)}
    OBVIOUS
  <2>2. G = Nat
    BY <1>1, <1>2, <2>1, Induction
  <2>3. QED
    BY <2>1, <2>2, FS_CardinalityType
<1>4. Small(Cardinality(S)) = SUBSET S
  BY <1>0
<1>5. QED
  BY <1>3, <1>4 DEF Sums

\* The sum of f over S, where the fold is over the subsets of T.
SumWithin(f, T, S) == (CHOOSE it : Sums(it, f, T))[S]

\* The fold, one element at a time.
LEMMA SumWithinStep ==
  ASSUME NEW f, NEW T, IsFiniteSet(T), NEW S \in SUBSET T
  PROVE  SumWithin(f, T, S) = IF S = {} THEN 0 ELSE f[Pick(S)] + SumWithin(f, T, S \ {Pick(S)})
<1>1. PICK it : it = (CHOOSE t : Sums(t, f, T))
  OBVIOUS
<1>2. Sums(it, f, T)
  BY <1>1, SumsExist
<1>3. it[S] = IF S = {} THEN 0 ELSE f[Pick(S)] + it[S \ {Pick(S)}]
  BY <1>2 DEF Sums
<1>4. QED
  BY <1>1, <1>3 DEF SumWithin

\* A sum does not depend on what it is part of.
LEMMA SumWithinAny ==
  ASSUME NEW f, NEW T, IsFiniteSet(T), NEW S \in SUBSET T
  PROVE  SumWithin(f, T, S) = SumFunctionOnSet(f, S)
<1>1. IsFiniteSet(S)
  BY FS_Subset
<1>2. PICK F : F = {s \in SUBSET S : SumWithin(f, T, s) # SumWithin(f, S, s)}
  OBVIOUS
<1>3. F = {}
  <2>1. SUFFICES ASSUME F # {} PROVE FALSE
    OBVIOUS
  <2>2. \A s \in F : IsFiniteSet(s)
    BY <1>1, <1>2, FS_Subset
  <2>3. PICK s \in F : \A r \in F : Cardinality(s) <= Cardinality(r)
    BY <2>1, <2>2, Smallest
  <2>4. s \in SUBSET T /\ s \in SUBSET S /\ IsFiniteSet(s)
    BY <1>2, <2>2, <2>3
  <2>5. /\ SumWithin(f, T, s) = IF s = {} THEN 0 ELSE f[Pick(s)] + SumWithin(f, T, s \ {Pick(s)})
        /\ SumWithin(f, S, s) = IF s = {} THEN 0 ELSE f[Pick(s)] + SumWithin(f, S, s \ {Pick(s)})
    BY <1>1, <2>4, SumWithinStep
  <2>6. s # {}
    BY <1>2, <2>3, <2>5
  <2>7. s \ {Pick(s)} \notin F
    BY <2>3, <2>4, <2>6, TakeOne
  <2>8. SumWithin(f, T, s \ {Pick(s)}) = SumWithin(f, S, s \ {Pick(s)})
    BY <1>2, <2>4, <2>7
  <2>9. SumWithin(f, T, s) = SumWithin(f, S, s)
    BY <2>5, <2>8
  <2>10. QED
    BY <1>2, <2>3, <2>9
<1>4. SumWithin(f, T, S) = SumWithin(f, S, S)
  BY <1>2, <1>3
<1>5. QED
  BY <1>4, Unfold DEF SumWithin

\* A sum over nothing, and over one element more.
LEMMA SumTaken ==
  ASSUME NEW f, NEW S, IsFiniteSet(S)
  PROVE  SumFunctionOnSet(f, S) =
           IF S = {} THEN 0 ELSE f[Pick(S)] + SumFunctionOnSet(f, S \ {Pick(S)})
<1>1. SumWithin(f, S, S) = IF S = {} THEN 0 ELSE f[Pick(S)] + SumWithin(f, S, S \ {Pick(S)})
  BY SumWithinStep
<1>2. SumWithin(f, S, S) = SumFunctionOnSet(f, S)
  BY SumWithinAny
<1>3. SumWithin(f, S, S \ {Pick(S)}) = SumFunctionOnSet(f, S \ {Pick(S)})
  BY SumWithinAny
<1>4. QED
  BY <1>1, <1>2, <1>3

\* A sum of integers is an integer.
LEMMA SumType ==
  ASSUME NEW f, NEW S, IsFiniteSet(S), \A x \in S : f[x] \in Int
  PROVE  SumFunctionOnSet(f, S) \in Int
<1>1. PICK F : F = {s \in SUBSET S : SumFunctionOnSet(f, s) \notin Int}
  OBVIOUS
<1>2. SUFFICES ASSUME F # {} PROVE FALSE
  BY <1>1
<1>3. \A s \in SUBSET S : IsFiniteSet(s)
  BY FS_Subset
<1>4. PICK s \in F : \A r \in F : Cardinality(s) <= Cardinality(r)
  BY <1>1, <1>2, <1>3, Smallest
<1>5. s \in SUBSET S /\ IsFiniteSet(s)
  BY <1>1, <1>3, <1>4
<1>6. SumFunctionOnSet(f, s) =
        IF s = {} THEN 0 ELSE f[Pick(s)] + SumFunctionOnSet(f, s \ {Pick(s)})
  BY <1>5, SumTaken
<1>7. s # {}
  BY <1>1, <1>4, <1>6
<1>8. s \ {Pick(s)} \notin F
  BY <1>4, <1>5, <1>7, TakeOne
<1>9. SumFunctionOnSet(f, s \ {Pick(s)}) \in Int /\ f[Pick(s)] \in Int
  BY <1>1, <1>5, <1>7, <1>8, TakeOne
<1>10. QED
  BY <1>1, <1>4, <1>6, <1>7, <1>9

\* Any element can be taken out of a sum: the order of the fold does not matter.
LEMMA SumSplit ==
  ASSUME NEW f, NEW S, IsFiniteSet(S), \A x \in S : f[x] \in Int, NEW y \in S
  PROVE  SumFunctionOnSet(f, S) = f[y] + SumFunctionOnSet(f, S \ {y})
<1> DEFINE Splits(s) ==
      \A x \in s : SumFunctionOnSet(f, s) = f[x] + SumFunctionOnSet(f, s \ {x})
<1>1. PICK F : F = {s \in SUBSET S : ~Splits(s)}
  OBVIOUS
<1>2. SUFFICES ASSUME F # {} PROVE FALSE
  BY <1>1
<1>3. \A s \in SUBSET S : IsFiniteSet(s) /\ SumFunctionOnSet(f, s) \in Int
  BY FS_Subset, SumType
<1>4. PICK s \in F : \A r \in F : Cardinality(s) <= Cardinality(r)
  <2>1. \A r \in F : IsFiniteSet(r)
    BY <1>1, <1>3
  <2>2. QED
    BY <1>2, <2>1, Smallest
<1>5. s \in SUBSET S /\ IsFiniteSet(s)
  BY <1>1, <1>3, <1>4
<1>6. PICK x \in s : SumFunctionOnSet(f, s) # f[x] + SumFunctionOnSet(f, s \ {x})
  BY <1>1, <1>4
<1>7. PICK p : p = Pick(s)
  OBVIOUS
<1>8. p \in s /\ SumFunctionOnSet(f, s) = f[p] + SumFunctionOnSet(f, s \ {p})
  BY <1>5, <1>6, <1>7, SumTaken, TakeOne
<1>9. p # x
  BY <1>6, <1>8
<1>10. \A z \in s : Splits(s \ {z})
  <2>1. \A z \in s : s \ {z} \in SUBSET S
    BY <1>5
  <2>2. \A z \in s : Cardinality(s \ {z}) = Cardinality(s) - 1 /\ Cardinality(s) \in Nat
    BY <1>5, TakeOne
  <2>3. \A z \in s : s \ {z} \notin F
    BY <1>4, <2>2
  <2>4. QED
    BY <1>1, <2>1, <2>3
<1>11. SumFunctionOnSet(f, s \ {p}) = f[x] + SumFunctionOnSet(f, (s \ {p}) \ {x})
  BY <1>6, <1>8, <1>9, <1>10
<1>12. SumFunctionOnSet(f, s \ {x}) = f[p] + SumFunctionOnSet(f, (s \ {x}) \ {p})
  BY <1>6, <1>8, <1>9, <1>10
<1>13. (s \ {p}) \ {x} = (s \ {x}) \ {p}
  OBVIOUS
<1>14. PICK a \in Int, b \in Int, c \in Int :
         f[p] = a /\ f[x] = b /\ SumFunctionOnSet(f, (s \ {x}) \ {p}) = c
  BY <1>3, <1>5, <1>6, <1>8
<1>15. SumFunctionOnSet(f, s) = a + (b + c) /\ SumFunctionOnSet(f, s \ {x}) = a + c
  BY <1>8, <1>11, <1>12, <1>13, <1>14
<1>16. SumFunctionOnSet(f, s) = b + (a + c)
  BY <1>15
<1>17. QED
  BY <1>6, <1>14, <1>15, <1>16

\* A sum depends on the terms only.
LEMMA SumSame ==
  ASSUME NEW f, NEW g, NEW S, IsFiniteSet(S), \A x \in S : f[x] = g[x]
  PROVE  SumFunctionOnSet(f, S) = SumFunctionOnSet(g, S)
<1>1. PICK F : F = {s \in SUBSET S : SumFunctionOnSet(f, s) # SumFunctionOnSet(g, s)}
  OBVIOUS
<1>2. SUFFICES ASSUME F # {} PROVE FALSE
  BY <1>1
<1>3. \A s \in SUBSET S : IsFiniteSet(s)
  BY FS_Subset
<1>4. PICK s \in F : \A r \in F : Cardinality(s) <= Cardinality(r)
  BY <1>1, <1>2, <1>3, Smallest
<1>5. s \in SUBSET S /\ IsFiniteSet(s)
  BY <1>1, <1>3, <1>4
<1>6. /\ SumFunctionOnSet(f, s) = IF s = {} THEN 0 ELSE f[Pick(s)] + SumFunctionOnSet(f, s \ {Pick(s)})
      /\ SumFunctionOnSet(g, s) = IF s = {} THEN 0 ELSE g[Pick(s)] + SumFunctionOnSet(g, s \ {Pick(s)})
  BY <1>5, SumTaken
<1>7. s # {}
  BY <1>1, <1>4, <1>6
<1>8. s \ {Pick(s)} \notin F /\ Pick(s) \in S
  BY <1>4, <1>5, <1>7, TakeOne
<1>9. SumFunctionOnSet(f, s \ {Pick(s)}) = SumFunctionOnSet(g, s \ {Pick(s)})
  BY <1>1, <1>5, <1>8
<1>10. QED
  BY <1>1, <1>4, <1>6, <1>8, <1>9

\* Induction on finite sets, for a family of them.
LEMMA SetInduction ==
  ASSUME NEW S, IsFiniteSet(S), NEW G, {} \in G,
         \A s \in SUBSET S : \A x \in s : s \ {x} \in G => s \in G
  PROVE  \A s \in SUBSET S : s \in G
<1>1. PICK F : F = {s \in SUBSET S : s \notin G}
  OBVIOUS
<1>2. SUFFICES ASSUME F # {} PROVE FALSE
  BY <1>1
<1>3. \A s \in F : IsFiniteSet(s)
  BY <1>1, FS_Subset
<1>4. PICK s \in F : \A r \in F : Cardinality(s) <= Cardinality(r)
  BY <1>2, <1>3, Smallest
<1>5. s \in SUBSET S /\ s # {} /\ IsFiniteSet(s)
  BY <1>1, <1>3, <1>4
<1>6. PICK x \in s : TRUE
  BY <1>5
<1>7. s \ {x} \notin F
  BY <1>4, <1>5, <1>6, TakeOne
<1>8. s \ {x} \in G
  BY <1>1, <1>5, <1>7
<1>9. QED
  BY <1>1, <1>4, <1>5, <1>6, <1>8

\* The sum over nothing.
LEMMA SumEmpty ==
  ASSUME NEW f
  PROVE  SumFunctionOnSet(f, {}) = 0
BY FS_EmptySet, SumTaken

\* The sum over one element more.
LEMMA SumAdded ==
  ASSUME NEW f, NEW S, IsFiniteSet(S), \A x \in S : f[x] \in Int, NEW y, y \notin S, f[y] \in Int
  PROVE  SumFunctionOnSet(f, S \cup {y}) = SumFunctionOnSet(f, S) + f[y]
<1>1. IsFiniteSet(S \cup {y})
  BY FS_AddElement
<1>2. SumFunctionOnSet(f, S \cup {y}) = f[y] + SumFunctionOnSet(f, (S \cup {y}) \ {y})
  BY <1>1, SumSplit
<1>3. (S \cup {y}) \ {y} = S
  OBVIOUS
<1>4. PICK a \in Int, b \in Int : a = SumFunctionOnSet(f, S) /\ b = f[y]
  BY SumType
<1>5. SumFunctionOnSet(f, S \cup {y}) = b + a
  BY <1>2, <1>3, <1>4
<1>6. QED
  BY <1>4, <1>5

\* A sum over two disjoint sets.
LEMMA SumUnion ==
  ASSUME NEW f, NEW S, NEW T, IsFiniteSet(S), IsFiniteSet(T), S \cap T = {},
         \A x \in S \cup T : f[x] \in Int
  PROVE  SumFunctionOnSet(f, S \cup T) = SumFunctionOnSet(f, S) + SumFunctionOnSet(f, T)
<1>1. PICK G : G = {s \in SUBSET T :
        SumFunctionOnSet(f, S \cup s) = SumFunctionOnSet(f, S) + SumFunctionOnSet(f, s)}
  OBVIOUS
<1>2. SumFunctionOnSet(f, S) \in Int
  BY SumType
<1>3. {} \in G
  BY <1>1, <1>2, SumEmpty
<1>4. ASSUME NEW s \in SUBSET T, NEW x \in s, s \ {x} \in G PROVE s \in G
  <2>1. IsFiniteSet(s \ {x}) /\ IsFiniteSet(S \cup (s \ {x})) /\ IsFiniteSet(s)
    BY FS_Subset, FS_Union
  <2>2. f[x] \in Int /\ x \notin S
    OBVIOUS
  <2>3. SumFunctionOnSet(f, (s \ {x}) \cup {x}) = SumFunctionOnSet(f, s \ {x}) + f[x]
    BY <2>1, <2>2, SumAdded
  <2>4. SumFunctionOnSet(f, (S \cup (s \ {x})) \cup {x}) = SumFunctionOnSet(f, S \cup (s \ {x})) + f[x]
    BY <2>1, <2>2, SumAdded
  <2>5. (s \ {x}) \cup {x} = s /\ (S \cup (s \ {x})) \cup {x} = S \cup s
    OBVIOUS
  <2>6. PICK a \in Int, b \in Int, c \in Int :
          a = SumFunctionOnSet(f, S) /\ b = SumFunctionOnSet(f, s \ {x}) /\ c = f[x]
    BY <1>2, <2>1, <2>2, SumType
  <2>9. SumFunctionOnSet(f, S \cup (s \ {x})) = a + b
    BY <1>1, <1>4, <2>6
  <2>10. SumFunctionOnSet(f, S \cup s) = (a + b) + c
    BY <2>4, <2>5, <2>6, <2>9
  <2>11. SumFunctionOnSet(f, s) = b + c
    BY <2>3, <2>5, <2>6
  <2>7. SumFunctionOnSet(f, S \cup s) = SumFunctionOnSet(f, S) + SumFunctionOnSet(f, s)
    BY <2>6, <2>10, <2>11
  <2>8. QED
    BY <1>1, <2>7
<1>5. \A s \in SUBSET T : s \in G
  BY <1>3, <1>4, SetInduction, Zenon
<1>6. QED
  BY <1>1, <1>5

\* Smaller terms make a smaller sum.
LEMMA SumLeq ==
  ASSUME NEW f, NEW g, NEW S, IsFiniteSet(S),
         \A x \in S : f[x] \in Int /\ g[x] \in Int /\ f[x] <= g[x]
  PROVE  SumFunctionOnSet(f, S) <= SumFunctionOnSet(g, S)
<1>1. PICK G : G = {s \in SUBSET S : SumFunctionOnSet(f, s) <= SumFunctionOnSet(g, s)}
  OBVIOUS
<1>2. {} \in G
  BY <1>1, SumEmpty
<1>3. ASSUME NEW s \in SUBSET S, NEW x \in s, s \ {x} \in G PROVE s \in G
  <2>1. IsFiniteSet(s) /\ IsFiniteSet(s \ {x})
    BY FS_Subset
  <2>2. /\ SumFunctionOnSet(f, s) = f[x] + SumFunctionOnSet(f, s \ {x})
        /\ SumFunctionOnSet(g, s) = g[x] + SumFunctionOnSet(g, s \ {x})
    BY <2>1, SumSplit
  <2>3. SumFunctionOnSet(f, s \ {x}) \in Int /\ SumFunctionOnSet(g, s \ {x}) \in Int
    BY <2>1, SumType
  <2>4. f[x] \in Int /\ g[x] \in Int /\ f[x] <= g[x]
    OBVIOUS
  <2>5. QED
    BY <1>1, <1>3, <2>2, <2>3, <2>4
<1>4. S \in G
  BY <1>2, <1>3, SetInduction
<1>5. QED
  BY <1>1, <1>4

\* A sum of sums.
LEMMA SumPlus ==
  ASSUME NEW f, NEW g, NEW h, NEW S, IsFiniteSet(S),
         \A x \in S : f[x] \in Int /\ g[x] \in Int /\ h[x] = f[x] + g[x]
  PROVE  SumFunctionOnSet(h, S) = SumFunctionOnSet(f, S) + SumFunctionOnSet(g, S)
<1>1. PICK G : G = {s \in SUBSET S :
        SumFunctionOnSet(h, s) = SumFunctionOnSet(f, s) + SumFunctionOnSet(g, s)}
  OBVIOUS
<1>2. {} \in G
  BY <1>1, SumEmpty
<1>3. ASSUME NEW s \in SUBSET S, NEW x \in s, s \ {x} \in G PROVE s \in G
  <2>1. IsFiniteSet(s) /\ IsFiniteSet(s \ {x})
    BY FS_Subset
  <2>2. /\ SumFunctionOnSet(f, s) = f[x] + SumFunctionOnSet(f, s \ {x})
        /\ SumFunctionOnSet(g, s) = g[x] + SumFunctionOnSet(g, s \ {x})
        /\ SumFunctionOnSet(h, s) = h[x] + SumFunctionOnSet(h, s \ {x})
    BY <2>1, SumSplit
  <2>3. SumFunctionOnSet(f, s \ {x}) \in Int /\ SumFunctionOnSet(g, s \ {x}) \in Int
    BY <2>1, SumType
  <2>4. f[x] \in Int /\ g[x] \in Int /\ h[x] = f[x] + g[x]
    OBVIOUS
  <2>5. QED
    BY <1>1, <1>3, <2>2, <2>3, <2>4
<1>4. S \in G
  BY <1>2, <1>3, SetInduction
<1>5. QED
  BY <1>1, <1>4

\* A constant factor of every term.
LEMMA SumTimes ==
  ASSUME NEW f, NEW g, NEW c \in Int, NEW S, IsFiniteSet(S),
         \A x \in S : f[x] \in Int /\ g[x] = c * f[x]
  PROVE  SumFunctionOnSet(g, S) = c * SumFunctionOnSet(f, S)
<1>1. PICK G : G = {s \in SUBSET S : SumFunctionOnSet(g, s) = c * SumFunctionOnSet(f, s)}
  OBVIOUS
<1>2. {} \in G
  <2>1. c * 0 = 0
    OBVIOUS
  <2>2. QED
    BY <1>1, <2>1, SumEmpty
<1>3. ASSUME NEW s \in SUBSET S, NEW x \in s, s \ {x} \in G PROVE s \in G
  <2>1. IsFiniteSet(s) /\ IsFiniteSet(s \ {x})
    BY FS_Subset
  <2>2. /\ SumFunctionOnSet(f, s) = f[x] + SumFunctionOnSet(f, s \ {x})
        /\ SumFunctionOnSet(g, s) = g[x] + SumFunctionOnSet(g, s \ {x})
    BY <2>1, SumSplit
  <2>3. PICK a \in Int, b \in Int : a = f[x] /\ b = SumFunctionOnSet(f, s \ {x})
    BY <2>1, SumType
  <2>4. c * (a + b) = c * a + c * b
    OBVIOUS
  <2>5. g[x] = c * a /\ SumFunctionOnSet(g, s \ {x}) = c * b
    BY <1>1, <1>3, <2>3
  <2>6. SumFunctionOnSet(g, s) = c * SumFunctionOnSet(f, s)
    BY <2>2, <2>3, <2>4, <2>5
  <2>7. QED
    BY <1>1, <2>6
<1>4. S \in G
  BY <1>2, <1>3, SetInduction
<1>5. QED
  BY <1>1, <1>4

\* A sum of equal terms.
LEMMA SumEqual ==
  ASSUME NEW f, NEW c \in Int, NEW S, IsFiniteSet(S), \A x \in S : f[x] = c
  PROVE  SumFunctionOnSet(f, S) = c * Cardinality(S)
<1>1. PICK G : G = {s \in SUBSET S : SumFunctionOnSet(f, s) = c * Cardinality(s)}
  OBVIOUS
<1>2. {} \in G
  <2>1. c * 0 = 0
    OBVIOUS
  <2>2. QED
    BY <1>1, <2>1, SumEmpty, FS_EmptySet
<1>3. ASSUME NEW s \in SUBSET S, NEW x \in s, s \ {x} \in G PROVE s \in G
  <2>1. IsFiniteSet(s) /\ IsFiniteSet(s \ {x})
    BY FS_Subset
  <2>2. SumFunctionOnSet(f, s) = f[x] + SumFunctionOnSet(f, s \ {x})
    BY <2>1, SumSplit
  <2>3. PICK k \in Int : k = Cardinality(s \ {x}) /\ Cardinality(s) = k + 1
    BY <2>1, TakeOne, FS_CardinalityType
  <2>4. c * (k + 1) = c + c * k
    OBVIOUS
  <2>5. SumFunctionOnSet(f, s) = c * Cardinality(s)
    BY <1>1, <1>3, <2>2, <2>3, <2>4
  <2>6. QED
    BY <1>1, <2>5
<1>4. S \in G
  BY <1>2, <1>3, SetInduction
<1>5. QED
  BY <1>1, <1>4

\* A sum of ones and zeros counts the ones.
LEMMA SumCounts ==
  ASSUME NEW f, NEW S, IsFiniteSet(S), NEW T \in SUBSET S,
         \A x \in T : f[x] = 1, \A x \in S \ T : f[x] = 0
  PROVE  SumFunctionOnSet(f, S) = Cardinality(T)
<1>1. IsFiniteSet(T) /\ IsFiniteSet(S \ T)
  BY FS_Subset
<1>2. SumFunctionOnSet(f, T) = 1 * Cardinality(T)
  BY <1>1, SumEqual
<1>3. SumFunctionOnSet(f, S \ T) = 0 * Cardinality(S \ T)
  BY <1>1, SumEqual
<1>4. Cardinality(T) \in Nat /\ Cardinality(S \ T) \in Nat
  BY <1>1, FS_CardinalityType
<1>5. SumFunctionOnSet(f, T \cup (S \ T)) = SumFunctionOnSet(f, T) + SumFunctionOnSet(f, S \ T)
  BY <1>1, SumUnion
<1>6. T \cup (S \ T) = S
  OBVIOUS
<1>7. SumFunctionOnSet(f, T) = Cardinality(T) /\ SumFunctionOnSet(f, S \ T) = 0
  BY <1>2, <1>3, <1>4
<1>8. SumFunctionOnSet(f, S) = Cardinality(T) + 0
  BY <1>5, <1>6, <1>7
<1>9. QED
  BY <1>4, <1>8

\* One term of natural numbers is at most their sum.
LEMMA SumAbove ==
  ASSUME NEW f, NEW S, IsFiniteSet(S), \A x \in S : f[x] \in Nat, NEW y \in S
  PROVE  f[y] <= SumFunctionOnSet(f, S) /\ SumFunctionOnSet(f, S) \in Nat
<1>1. PICK z : z = [x \in S |-> 0]
  OBVIOUS
<1>2. IsFiniteSet(S \ {y})
  BY FS_Subset
<1>3. SumFunctionOnSet(z, S \ {y}) = 0 * Cardinality(S \ {y}) /\ Cardinality(S \ {y}) \in Nat
  BY <1>1, <1>2, SumEqual, FS_CardinalityType
<1>4. SumFunctionOnSet(z, S \ {y}) <= SumFunctionOnSet(f, S \ {y})
  BY <1>1, <1>2, SumLeq
<1>5. SumFunctionOnSet(f, S) = f[y] + SumFunctionOnSet(f, S \ {y})
  BY SumSplit
<1>6. SumFunctionOnSet(f, S \ {y}) \in Int /\ f[y] \in Nat
  BY <1>2, SumType
<1>7. QED
  BY <1>3, <1>4, <1>5, <1>6

\* One term changed changes the sum by as much.
LEMMA SumChanged ==
  ASSUME NEW f, NEW g, NEW S, IsFiniteSet(S), NEW y \in S,
         \A x \in S : f[x] \in Int /\ g[x] \in Int,
         \A x \in S \ {y} : g[x] = f[x]
  PROVE  SumFunctionOnSet(g, S) = SumFunctionOnSet(f, S) + (g[y] - f[y])
<1>1. IsFiniteSet(S \ {y})
  BY FS_Subset
<1>2. /\ SumFunctionOnSet(f, S) = f[y] + SumFunctionOnSet(f, S \ {y})
      /\ SumFunctionOnSet(g, S) = g[y] + SumFunctionOnSet(g, S \ {y})
  BY <1>1, SumSplit
<1>3. SumFunctionOnSet(f, S \ {y}) = SumFunctionOnSet(g, S \ {y})
  BY <1>1, SumSame
<1>4. SumFunctionOnSet(f, S \ {y}) \in Int
  BY <1>1, SumType
<1>5. QED
  BY <1>2, <1>3, <1>4

\* One entry of a vector changed changes its sum by as much.
LEMMA VectorChanged ==
  ASSUME NEW f, NEW g, NEW S, IsFiniteSet(S), DOMAIN f = S, DOMAIN g = S, NEW y \in S,
         \A x \in S : f[x] \in Int /\ g[x] \in Int,
         \A x \in S \ {y} : g[x] = f[x]
  PROVE  SumFunction(g) = SumFunction(f) + (g[y] - f[y])
BY SumChanged DEF SumFunction

\* A vector of zeros sums to zero.
LEMMA ZeroVector ==
  ASSUME NEW n \in Nat, NEW f \in [1 .. n -> Int], \A i \in 1 .. n : f[i] = 0
  PROVE  SumFunction(f) = 0
<1>1. PICK S : S = 1 .. n
  OBVIOUS
<1>2. IsFiniteSet(S)
  BY <1>1, FS_Interval
<1>3. PICK c \in Nat : c = Cardinality(S)
  BY <1>2, FS_CardinalityType
<1>4. \A x \in S : f[x] = 0
  BY <1>1
<1>5. SumFunctionOnSet(f, S) = 0 * Cardinality(S)
  BY <1>2, <1>4, SumEqual
<1>6. SumFunctionOnSet(f, S) = 0
  BY <1>3, <1>5
<1>7. DOMAIN f = S
  BY <1>1
<1>8. QED
  BY <1>6, <1>7 DEF SumFunction

-----------------------------------------------------------------------------
(* Prices and payouts *)

USE PricingAssumption

\* Integer division rounds down.
LEMMA DivBounds ==
  ASSUME NEW a \in Nat, NEW d \in Nat, d > 0
  PROVE  /\ a \div d \in Nat
         /\ d * (a \div d) <= a
         /\ a - d * (a \div d) <= d - 1
OBVIOUS

\* A positive factor cancels.
LEMMA Cancel ==
  ASSUME NEW t \in Nat, t > 0, NEW a \in Int, NEW b \in Int
  PROVE  /\ t * a <= t * b => a <= b
         /\ t * a < t * b => a < b
<1>1. ASSUME a > b PROVE t * a > t * b
  <2>1. PICK d \in Nat : a = b + d /\ d >= 1
    BY <1>1
  <2>2. t * a = t * b + t * d
    BY <2>1
  <2>3. t * d >= 1
    BY <2>1
  <2>4. t * b \in Int /\ t * d \in Int
    BY <2>1
  <2>5. QED
    BY <2>2, <2>3, <2>4
<1>2. a = b => t * a = t * b
  OBVIOUS
<1>3. t * a \in Int /\ t * b \in Int
  OBVIOUS
<1>4. QED
  BY <1>1, <1>2, <1>3

\* The floored shares of a total leave less than one unit per outcome.
LEMMA FlooredShares ==
  ASSUME NEW S, IsFiniteSet(S), S # {}, NEW v \in [S -> Nat], NEW s \in [S -> Nat],
         NEW T \in Nat, T > 0, T = SumFunctionOnSet(v, S),
         \A i \in S : s[i] = (v[i] * SCALE) \div T
  PROVE  SCALE - SumFunctionOnSet(s, S) \in 0 .. Cardinality(S) - 1
<1>0. PICK n \in Nat : n = Cardinality(S) /\ n >= 1
  BY TakeOne
<1>1. PICK scaled : scaled = [i \in S |-> SCALE * v[i]]
  OBVIOUS
<1>2. PICK taken : taken = [i \in S |-> T * s[i]]
  OBVIOUS
<1>3. PICK left : left = [i \in S |-> SCALE * v[i] - T * s[i]]
  OBVIOUS
<1>4. PICK most : most = [i \in S |-> T - 1]
  OBVIOUS
<1>5. PICK none : none = [i \in S |-> 0]
  OBVIOUS
<1>6. ASSUME NEW i \in S
      PROVE  /\ scaled[i] \in Int /\ taken[i] \in Int /\ left[i] \in Int
             /\ scaled[i] = taken[i] + left[i]
             /\ 0 <= left[i] /\ left[i] <= T - 1
  <2>7. PICK x \in Nat, c \in Nat : x = v[i] /\ c = SCALE
    OBVIOUS
  <2>8. x * c \in Nat /\ x * c = c * x
    OBVIOUS
  <2>1. PICK a \in Nat : a = v[i] * SCALE /\ a = SCALE * v[i]
    BY <2>7, <2>8
  <2>2. s[i] = a \div T
    BY <2>1
  <2>3. PICK b \in Nat : b = T * s[i]
    OBVIOUS
  <2>4. b <= a /\ a - b <= T - 1
    BY <2>2, <2>3, DivBounds
  <2>5. scaled[i] = a /\ taken[i] = b /\ left[i] = a - b
    BY <1>1, <1>2, <1>3, <2>1, <2>3
  <2>6. QED
    BY <2>4, <2>5
<1>7. SumFunctionOnSet(scaled, S) = SCALE * T
  BY <1>0, <1>1, SumTimes
<1>8. SumFunctionOnSet(taken, S) = T * SumFunctionOnSet(s, S)
  BY <1>0, <1>2, SumTimes
<1>9. SumFunctionOnSet(scaled, S) = SumFunctionOnSet(taken, S) + SumFunctionOnSet(left, S)
  <2>1. \A i \in S : taken[i] \in Int /\ left[i] \in Int /\ scaled[i] = taken[i] + left[i]
    BY <1>6
  <2>2. QED
    BY <1>0, <2>1, SumPlus
<1>10. SumFunctionOnSet(most, S) = (T - 1) * n /\ SumFunctionOnSet(none, S) = 0 * n
  <2>1. (\A i \in S : most[i] = T - 1) /\ T - 1 \in Int
    BY <1>4
  <2>2. SumFunctionOnSet(most, S) = (T - 1) * Cardinality(S)
    BY <1>0, <2>1, SumEqual
  <2>3. (\A i \in S : none[i] = 0) /\ 0 \in Int
    BY <1>5
  <2>4. SumFunctionOnSet(none, S) = 0 * Cardinality(S)
    BY <1>0, <2>3, SumEqual
  <2>5. QED
    BY <1>0, <2>2, <2>4
<1>11. SumFunctionOnSet(left, S) <= SumFunctionOnSet(most, S)
  <2>1. \A i \in S : left[i] \in Int /\ most[i] \in Int /\ left[i] <= most[i]
    BY <1>4, <1>6
  <2>2. QED
    BY <1>0, <2>1, SumLeq
<1>12. SumFunctionOnSet(none, S) <= SumFunctionOnSet(left, S)
  <2>1. \A i \in S : none[i] \in Int /\ left[i] \in Int /\ none[i] <= left[i]
    BY <1>5, <1>6
  <2>2. QED
    BY <1>0, <2>1, SumLeq
<1>13. PICK Z \in Int, L \in Int :
         Z = SumFunctionOnSet(s, S) /\ L = SumFunctionOnSet(left, S)
  <2>1. (\A i \in S : s[i] \in Int) /\ (\A i \in S : left[i] \in Int)
    BY <1>6
  <2>2. SumFunctionOnSet(s, S) \in Int
    BY <1>0, <2>1, SumType
  <2>3. SumFunctionOnSet(left, S) \in Int
    BY <1>0, <2>1, SumType
  <2>4. QED
    BY <2>2, <2>3
<1>14. SCALE * T = T * Z + L /\ 0 <= L /\ L <= (T - 1) * n
  BY <1>7, <1>8, <1>9, <1>10, <1>11, <1>12, <1>13
<1>15. PICK d \in Int : d = SCALE - Z
  BY <1>13
<1>16. T * d = L
  <2>1. T * d = T * SCALE - T * Z
    BY <1>13, <1>15
  <2>2. QED
    BY <1>13, <1>14, <2>1
<1>17. T * 0 <= T * d
  BY <1>14, <1>16
<1>18. T * d < T * n
  <2>1. PICK x \in Int : x = T * n /\ (T - 1) * n = x - n
    <3>1. T * n \in Int /\ (T - 1) * n = T * n - n
      OBVIOUS
    <3>2. QED
      BY <3>1
  <2>2. L <= x - n
    BY <1>14, <2>1
  <2>3. L < x
    BY <1>0, <1>13, <2>1, <2>2
  <2>4. QED
    BY <1>16, <2>1, <2>3
<1>19. 0 <= d /\ d < n
  BY <1>17, <1>18, Cancel
<1>20. QED
  BY <1>0, <1>13, <1>15, <1>19

\* The even split of an empty board leaves less than one unit per outcome.
LEMMA EvenShares ==
  ASSUME NEW n \in Nat, n >= 1, NEW s \in [1 .. n -> Nat], \A i \in 1 .. n : s[i] = SCALE \div n
  PROVE  SCALE - SumFunctionOnSet(s, 1 .. n) \in 0 .. n - 1
<1>0. IsFiniteSet(1 .. n) /\ Cardinality(1 .. n) = n
  BY FS_Interval
<1>1. PICK q \in Nat : q = SCALE \div n
  BY DivBounds
<1>2. n * q <= SCALE /\ SCALE - n * q <= n - 1
  BY <1>1, DivBounds
<1>3. SumFunctionOnSet(s, 1 .. n) = q * n
  <2>1. (\A i \in 1 .. n : s[i] = q) /\ q \in Int
    BY <1>1
  <2>2. SumFunctionOnSet(s, 1 .. n) = q * Cardinality(1 .. n)
    BY <1>0, <2>1, SumEqual
  <2>3. QED
    BY <1>0, <2>2
<1>4. q * n = n * q /\ q * n \in Nat
  BY <1>1
<1>5. QED
  BY <1>2, <1>3, <1>4

\* p are the shares s with one tick more for as many outcomes as ticks remain.
RemainderGiven(n, s, R, p) ==
  /\ n \in Nat /\ n >= 1 /\ s \in [1 .. n -> Nat] /\ p \in [1 .. n -> Nat]
  /\ R \in 0 .. n - 1 /\ SCALE - SumFunctionOnSet(s, 1 .. n) = R
  /\ \A i \in 1 .. n : p[i] = s[i] + (IF i <= R THEN 1 ELSE 0)

\* Shares rounded up one each in order of the outcomes make up the scale.
LEMMA RoundedShares ==
  ASSUME NEW n, NEW s, NEW R, NEW p, RemainderGiven(n, s, R, p)
  PROVE  /\ p \in [1 .. n -> Price]
         /\ SumFunctionOnSet(p, 1 .. n) = SCALE
<1> USE DEF RemainderGiven
<1>0. IsFiniteSet(1 .. n) /\ Cardinality(1 .. R) = R
  BY FS_Interval
<1>1. PICK one : one = [i \in 1 .. n |-> IF i <= R THEN 1 ELSE 0]
  OBVIOUS
<1>2. SumFunctionOnSet(one, 1 .. n) = Cardinality(1 .. R)
  <2>1. (1 .. R) \in SUBSET (1 .. n)
    OBVIOUS
  <2>2. (\A x \in 1 .. R : one[x] = 1) /\ (\A x \in (1 .. n) \ (1 .. R) : one[x] = 0)
    BY <1>1
  <2>3. QED
    BY <1>0, <2>1, <2>2, SumCounts
<1>3. \A i \in 1 .. n : s[i] \in Int /\ one[i] \in Int /\ p[i] = s[i] + one[i]
  BY <1>1
<1>4. SumFunctionOnSet(p, 1 .. n) = SumFunctionOnSet(s, 1 .. n) + SumFunctionOnSet(one, 1 .. n)
  BY <1>0, <1>3, SumPlus
<1>5. SumFunctionOnSet(s, 1 .. n) \in Int
  BY <1>0, SumType
<1>6. SumFunctionOnSet(p, 1 .. n) = SCALE
  BY <1>0, <1>2, <1>4, <1>5
<1>7. \A i \in 1 .. n : p[i] \in Nat
  OBVIOUS
<1>8. \A i \in 1 .. n : p[i] <= SCALE
  BY <1>0, <1>6, <1>7, SumAbove
<1>9. p \in [1 .. n -> Price]
  BY <1>7, <1>8 DEF Price
<1>10. QED
  BY <1>6, <1>9

\* With a stake on the board the share of every outcome is its exact share of the
\* total, rounded down: nothing wraps.
LEMMA ScaledShares ==
  ASSUME NEW n \in Nat, n >= 1, NEW v \in [1 .. n -> Nat], SumFunction(v) * SCALE <= I64MAX
  PROVE  \E T \in Nat :
           /\ T = SumFunction(v) /\ T = SumFunctionOnSet(v, 1 .. n)
           /\ WrapI64(SumFunction(v)) = T
           /\ T > 0 => /\ Shares(v) \in [1 .. n -> Nat]
                       /\ \A i \in 1 .. n : v[i] <= T /\ Shares(v)[i] = (v[i] * SCALE) \div T
<1>0. /\ DOMAIN v = 1 .. n /\ IsFiniteSet(1 .. n) /\ 1 \in 1 .. n
      /\ SumFunction(v) = SumFunctionOnSet(v, 1 .. n)
  BY FS_Interval DEF SumFunction
<1>1. PICK T \in Nat : T = SumFunctionOnSet(v, 1 .. n)
  BY <1>0, SumAbove
<1>2. T * SCALE <= I64MAX /\ T <= I64MAX
  <2>1. T * SCALE <= I64MAX
    BY <1>0, <1>1
  <2>2. PICK k \in Nat : SCALE = k + 1
    <3>1. SCALE - 1 \in Nat /\ SCALE = (SCALE - 1) + 1
      OBVIOUS
    <3>2. QED
      BY <3>1
  <2>3. T * SCALE = T * k + T /\ T * k \in Nat
    BY <2>2
  <2>4. QED
    BY <2>1, <2>3
<1>3. WrapI64(SumFunction(v)) = T
  BY <1>0, <1>1, <1>2 DEF WrapI64, I64
<1>4. ASSUME T > 0
      PROVE  /\ Shares(v) \in [1 .. n -> Nat]
             /\ \A i \in 1 .. n : v[i] <= T /\ Shares(v)[i] = (v[i] * SCALE) \div T
  <2>1. \A i \in 1 .. n : v[i] <= T
    BY <1>0, <1>1, SumAbove
  <2>2. \A i \in 1 .. n : v[i] * SCALE \in Nat /\ v[i] * SCALE <= I64MAX
    <3>1. SUFFICES ASSUME NEW i \in 1 .. n PROVE v[i] * SCALE \in Nat /\ v[i] * SCALE <= I64MAX
      OBVIOUS
    <3>2. PICK a \in Nat, d \in Nat : a = v[i] /\ T = a + d
      <4>1. T - v[i] \in Nat /\ T = v[i] + (T - v[i])
        BY <2>1
      <4>2. QED
        BY <4>1
    <3>3. PICK c \in Nat : c = SCALE
      OBVIOUS
    <3>4. T * c = a * c + d * c /\ a * c \in Nat /\ d * c \in Nat
      BY <3>2
    <3>5. PICK x \in Nat, y \in Nat : x = a * c /\ y = d * c
      BY <3>4
    <3>6. x <= I64MAX
      BY <1>2, <3>3, <3>4, <3>5
    <3>7. QED
      BY <3>2, <3>3, <3>5, <3>6
  <2>3. \A i \in 1 .. n : TruncDiv(WrapI64(v[i] * SCALE), T) = (v[i] * SCALE) \div T
    BY <2>2 DEF WrapI64, I64, TruncDiv
  <2>4. Shares(v) = [i \in 1 .. n |-> TruncDiv(WrapI64(v[i] * SCALE), T)]
    BY <1>0, <1>3, <1>4 DEF Shares
  <2>5. \A i \in 1 .. n : Shares(v)[i] = (v[i] * SCALE) \div T
    BY <2>3, <2>4
  <2>6. ASSUME NEW i \in 1 .. n PROVE Shares(v)[i] \in Nat
    <3>1. PICK a \in Nat : a = v[i] * SCALE
      BY <2>2
    <3>2. a \div T \in Nat
      BY <1>4, DivBounds
    <3>3. QED
      BY <2>5, <3>1, <3>2
  <2>7. Shares(v) \in [1 .. n -> Nat]
    BY <2>4, <2>6
  <2>8. QED
    BY <2>1, <2>5, <2>7
<1>5. QED
  BY <1>0, <1>1, <1>3, <1>4

\* What recalculate_prices computes: whatever the old prices, the new ones are
\* in range and sum to exactly 1.0000, for volumes an i64 holds when scaled.
THEOREM RecalculatedPrices ==
  ASSUME NEW n \in Nat, n >= 1, NEW v \in [1 .. n -> Nat],
         SumFunction(v) * SCALE <= I64MAX, NEW old
  PROVE  /\ RecalculatePrices(v, old) = SharesWithRemainder(v)
         /\ SharesWithRemainder(v) \in [1 .. n -> Price]
         /\ SumFunction(SharesWithRemainder(v)) = SCALE
<1>0. DOMAIN v = 1 .. n /\ IsFiniteSet(1 .. n) /\ Cardinality(1 .. n) = n
  BY FS_Interval
<1>1. PICK T \in Nat :
        /\ T = SumFunctionOnSet(v, 1 .. n)
        /\ WrapI64(SumFunction(v)) = T
        /\ T > 0 => /\ Shares(v) \in [1 .. n -> Nat]
                    /\ \A i \in 1 .. n : v[i] <= T /\ Shares(v)[i] = (v[i] * SCALE) \div T
  BY ScaledShares
<1>2. PICK s : s = Shares(v)
  OBVIOUS
<1>4. s \in [1 .. n -> Nat] /\ SCALE - SumFunctionOnSet(s, 1 .. n) \in 0 .. n - 1
  <2>1. CASE T = 0
    <3>1. s = [i \in 1 .. n |-> SCALE \div n]
      BY <1>0, <1>1, <1>2, <2>1 DEF Shares
    <3>2. SCALE \div n \in Nat
      BY DivBounds
    <3>3. s \in [1 .. n -> Nat]
      BY <3>1, <3>2
    <3>4. QED
      BY <3>1, <3>3, EvenShares
  <2>2. CASE T > 0
    <3>1. s \in [1 .. n -> Nat]
      BY <1>1, <1>2, <2>2
    <3>2. \A i \in 1 .. n : s[i] = (v[i] * SCALE) \div T
      BY <1>1, <1>2, <2>2
    <3>3. IsFiniteSet(1 .. n) /\ 1 .. n # {} /\ Cardinality(1 .. n) = n
      <4>1. 1 \in 1 .. n
        OBVIOUS
      <4>2. QED
        BY <1>0, <4>1
    <3>4. SCALE - SumFunctionOnSet(s, 1 .. n) \in 0 .. Cardinality(1 .. n) - 1
      <4>1. T = SumFunctionOnSet(v, 1 .. n)
        BY <1>1
      <4>2. QED
        BY <2>2, <3>1, <3>2, <3>3, <4>1, FlooredShares
    <3>5. QED
      BY <3>1, <3>3, <3>4
  <2>3. QED
    BY <2>1, <2>2
<1>5. PICK R : R = SCALE - SumFunctionOnSet(s, 1 .. n) /\ R \in 0 .. n - 1
  BY <1>4
<1>6. Remainder(v) = R
  BY <1>2, <1>4, <1>5 DEF Remainder, SumFunction
<1>7. PICK p : p = SharesWithRemainder(v)
  OBVIOUS
<1>8. p = [i \in 1 .. n |-> s[i] + (IF i <= R THEN 1 ELSE 0)]
  BY <1>0, <1>2, <1>6, <1>7 DEF SharesWithRemainder
<1>9. p \in [1 .. n -> Price] /\ SumFunctionOnSet(p, 1 .. n) = SCALE
  <2>1. s \in [1 .. n -> Nat]
    BY <1>4
  <2>2. R \in 0 .. n - 1
    BY <1>5
  <2>3. SCALE - SumFunctionOnSet(s, 1 .. n) = R
    BY <1>5
  <2>4. p \in [1 .. n -> Nat]
    BY <1>8, <2>1
  <2>5. \A i \in 1 .. n : p[i] = s[i] + (IF i <= R THEN 1 ELSE 0)
    BY <1>8
  <2>6. n \in Nat /\ n >= 1
    BY <1>0
  <2>7. QED
    <3>1. RemainderGiven(n, s, R, p)
      BY ONLY <2>1, <2>2, <2>3, <2>4, <2>5, <2>6 DEF RemainderGiven
    <3>2. QED
      BY ONLY <3>1, RoundedShares
<1>10. SumFunction(p) = SCALE
  BY <1>9 DEF SumFunction
<1>11. RecalculatePrices(v, old) = p
  BY <1>0, <1>7, <1>9 DEF RecalculatePrices
<1>12. QED
  BY <1>7, <1>9, <1>10, <1>11

\* p is the share of x in T rounded down, or one tick more.
NearShare(x, T, p) ==
  \E q \in Nat, e \in Nat :
    /\ x <= T /\ e <= 1
    /\ p = q + e
    /\ T * q <= x * SCALE /\ x * SCALE <= T * q + (T - 1)

\* So is every price.
LEMMA PriceOfShare ==
  ASSUME NEW n \in Nat, n >= 1, NEW v \in [1 .. n -> Nat], SumFunction(v) * SCALE <= I64MAX
  PROVE  \E T \in Nat :
           /\ T = SumFunction(v)
           /\ T > 0 => \A old : \A i \in 1 .. n : NearShare(v[i], T, RecalculatePrices(v, old)[i])
<1>1. PICK T \in Nat :
        /\ T = SumFunction(v)
        /\ T > 0 => /\ Shares(v) \in [1 .. n -> Nat]
                    /\ \A i \in 1 .. n : v[i] <= T /\ Shares(v)[i] = (v[i] * SCALE) \div T
  BY ScaledShares
<1>2. ASSUME T > 0, NEW old, NEW i \in 1 .. n
      PROVE  NearShare(v[i], T, RecalculatePrices(v, old)[i])
  <2>1. RecalculatePrices(v, old) = SharesWithRemainder(v)
    BY RecalculatedPrices
  <2>2. PICK x \in Nat, q \in Nat : x = v[i] /\ x <= T /\ q = Shares(v)[i]
    BY <1>1, <1>2
  <2>3. PICK e \in Nat : e = IF i <= Remainder(v) THEN 1 ELSE 0
    OBVIOUS
  <2>4. SharesWithRemainder(v)[i] = q + e
    BY <2>2, <2>3 DEF SharesWithRemainder
  <2>5. PICK k \in Nat : k = x * SCALE
    <3>1. x * SCALE \in Nat
      OBVIOUS
    <3>2. QED
      BY <3>1
  <2>6. q = k \div T
    BY <1>1, <1>2, <2>2, <2>5
  <2>7. T * q <= k /\ k - T * q <= T - 1 /\ T * q \in Nat
    BY <1>2, <2>6, DivBounds
  <2>8. PICK y \in Nat : y = T * q
    BY <2>7
  <2>9. T * q <= k /\ k <= T * q + (T - 1)
    BY <2>7, <2>8
  <2>10. e <= 1
    BY <2>3
  <2>11. RecalculatePrices(v, old)[i] = q + e
    BY <2>1, <2>4
  <2>12. QED
    BY <2>2, <2>5, <2>9, <2>10, <2>11 DEF NearShare
<1>3. QED
  BY <1>1, <1>2

\* A price is within one tick of the outcome's exact share of the volume: the
\* remainder of the rounding never piles up on one outcome (pricing.rs).
THEOREM PricesTrackVolumes ==
  ASSUME NEW n \in Nat, n >= 1, NEW v \in [1 .. n -> Nat],
         SumFunction(v) * SCALE <= I64MAX, SumFunction(v) > 0, NEW old, NEW i \in 1 .. n
  PROVE  /\ RecalculatePrices(v, old)[i] * SumFunction(v) > v[i] * SCALE - SumFunction(v)
         /\ RecalculatePrices(v, old)[i] * SumFunction(v) <= v[i] * SCALE + SumFunction(v)
<1>1. PICK T \in Nat :
        /\ T = SumFunction(v)
        /\ T > 0 => \A older : \A j \in 1 .. n : NearShare(v[j], T, RecalculatePrices(v, older)[j])
  BY PriceOfShare
<1>2. T > 0
  BY <1>1
<1>3. PICK x \in Nat, q \in Nat, e \in Nat :
        /\ x = v[i] /\ x <= T /\ e <= 1
        /\ RecalculatePrices(v, old)[i] = q + e
        /\ T * q <= x * SCALE /\ x * SCALE <= T * q + (T - 1)
  BY <1>1, <1>2 DEF NearShare
<1>4. PICK y \in Nat, k \in Nat, p \in Nat, z \in Nat :
        y = T * q /\ k = x * SCALE /\ p = q + e /\ z = p * T /\ z = y + e * T
  <2>1. T * q \in Nat /\ x * SCALE \in Nat /\ q + e \in Nat
    OBVIOUS
  <2>2. (q + e) * T \in Nat /\ (q + e) * T = T * q + e * T
    OBVIOUS
  <2>3. QED
    BY <2>1, <2>2
<1>5. e * T = IF e = 1 THEN T ELSE 0
  BY <1>3
<1>6. z > k - T /\ z <= k + T
  <2>1. y <= k /\ k <= y + (T - 1)
    BY <1>3, <1>4
  <2>2. CASE e = 1
    <3>1. z = y + T
      BY <1>4, <1>5, <2>2
    <3>2. QED
      BY <1>2, <2>1, <3>1
  <2>3. CASE e # 1
    <3>1. z = y
      BY <1>4, <1>5, <2>3
    <3>2. QED
      BY <1>2, <2>1, <3>1
  <2>4. QED
    BY <2>2, <2>3
<1>7. RecalculatePrices(v, old)[i] * SumFunction(v) = z /\ v[i] * SCALE = k
  BY <1>1, <1>3, <1>4
<1>8. QED
  BY <1>1, <1>6, <1>7

\* If q units of 1/T are no more than b of 1/U, rounded down, q is no more either.
LEMMA FloorsOrdered ==
  ASSUME NEW U \in Nat, U > 0, NEW q \in Nat, NEW r \in Nat, NEW b \in Nat,
         U * q <= b, b <= U * r + (U - 1)
  PROVE  q <= r
<1>1. PICK w \in Nat, z \in Nat : w = U * q /\ z = U * r /\ U * (r + 1) = z + U
  <2>1. U * q \in Nat /\ U * r \in Nat /\ U * (r + 1) = U * r + U
    OBVIOUS
  <2>2. QED
    BY <2>1
<1>2. U * q < U * (r + 1)
  BY <1>1
<1>3. q < r + 1
  BY <1>2, Cancel
<1>4. QED
  BY <1>3

\* The share of the outcome backed does not shrink.
LEMMA BackedShare ==
  ASSUME NEW T \in Nat, T > 0, NEW U \in Nat, NEW a \in Nat, U = T + a, NEW c \in Nat,
         NEW x \in Nat, x <= T, NEW q \in Nat, T * q <= x * c,
         NEW w \in Nat, w = x + a, NEW r \in Nat, w * c <= U * r + (U - 1)
  PROVE  q <= r
<1>1. q <= c
  <2>1. PICK d \in Nat : T = x + d
    <3>1. T - x \in Nat /\ T = x + (T - x)
      OBVIOUS
    <3>2. QED
      BY <3>1
  <2>2. PICK k \in Nat, m \in Nat, z \in Nat, y \in Nat :
          k = x * c /\ m = d * c /\ z = T * c /\ y = T * q /\ z = k + m
    <3>1. x * c \in Nat /\ d * c \in Nat /\ T * c \in Nat /\ T * q \in Nat
      OBVIOUS
    <3>2. T * c = x * c + d * c
      BY <2>1
    <3>3. QED
      BY <3>1, <3>2
  <2>3. T * q <= T * c
    BY <2>2
  <2>4. QED
    BY <2>3, Cancel
<1>2. PICK d \in Nat : c = q + d
  <2>1. c - q \in Nat /\ c = q + (c - q)
    BY <1>1
  <2>2. QED
    BY <2>1
<1>3. PICK y \in Nat, k \in Nat, g \in Nat, h \in Nat, b \in Nat :
        /\ y = T * q /\ k = x * c /\ g = a * q /\ h = a * d /\ b = w * c
        /\ U * q = y + g /\ b = k + (g + h)
  <2>1. T * q \in Nat /\ x * c \in Nat /\ a * q \in Nat /\ a * d \in Nat /\ w * c \in Nat
    OBVIOUS
  <2>2. U * q = T * q + a * q
    OBVIOUS
  <2>3. w * c = x * c + a * c
    OBVIOUS
  <2>4. a * c = a * q + a * d
    BY <1>2
  <2>5. QED
    BY <2>1, <2>2, <2>3, <2>4
<1>4. U * q <= b
  BY <1>3
<1>5. b <= U * r + (U - 1)
  BY <1>3
<1>6. U > 0
  OBVIOUS
<1>7. QED
  BY <1>4, <1>5, <1>6, FloorsOrdered

\* The share of a rival does not grow.
LEMMA RivalShare ==
  ASSUME NEW T \in Nat, T > 0, NEW U \in Nat, NEW a \in Nat, U = T + a, NEW b \in Nat,
         NEW q \in Nat, b <= T * q + (T - 1), NEW r \in Nat, U * r <= b
  PROVE  r <= q
<1>1. PICK y \in Nat, z \in Nat : y = T * r /\ z = a * r /\ U * r = y + z
  <2>1. T * r \in Nat /\ a * r \in Nat
    OBVIOUS
  <2>2. U * r = T * r + a * r
    OBVIOUS
  <2>3. QED
    BY <2>1, <2>2
<1>2. T * r <= b
  BY <1>1
<1>3. QED
  BY <1>2, FloorsOrdered

\* Backing an outcome of a market that has volume never makes it cheaper, and no
\* rival dearer, by more than the one tick that rounding can move (pricing.rs).
THEOREM BackingMovesPrices ==
  ASSUME NEW n \in Nat, n >= 1, NEW v \in [1 .. n -> Nat], NEW w \in [1 .. n -> Nat],
         NEW o \in 1 .. n, NEW a \in Nat, \A j \in 1 .. n : w[j] = v[j] + (IF j = o THEN a ELSE 0),
         SumFunction(v) > 0, SumFunction(v) * SCALE <= I64MAX, SumFunction(w) * SCALE <= I64MAX,
         NEW old, NEW older, NEW i \in 1 .. n
  PROVE  IF i = o THEN RecalculatePrices(w, old)[i] >= RecalculatePrices(v, older)[i] - 1
                  ELSE RecalculatePrices(w, old)[i] <= RecalculatePrices(v, older)[i] + 1
<1>1. PICK T \in Nat :
        /\ T = SumFunction(v)
        /\ T > 0 => \A ps : \A j \in 1 .. n : NearShare(v[j], T, RecalculatePrices(v, ps)[j])
  BY PriceOfShare
<1>2. PICK U \in Nat :
        /\ U = SumFunction(w)
        /\ U > 0 => \A ps : \A j \in 1 .. n : NearShare(w[j], U, RecalculatePrices(w, ps)[j])
  BY PriceOfShare
<1>3. U = T + a /\ T > 0 /\ U > 0
  <2>1. IsFiniteSet(1 .. n)
    BY FS_Interval
  <2>2. PICK S : S = 1 .. n /\ o \in S /\ IsFiniteSet(S)
    BY <2>1
  <2>3. DOMAIN v = S /\ DOMAIN w = S /\ (\A x \in S : v[x] \in Int /\ w[x] \in Int)
        /\ \A x \in S \ {o} : w[x] = v[x]
    BY <2>2
  <2>4. SumFunction(w) = SumFunction(v) + (w[o] - v[o])
    BY <2>2, <2>3, VectorChanged
  <2>5. w[o] - v[o] = a
    OBVIOUS
  <2>6. QED
    BY <1>1, <1>2, <2>4, <2>5
<1>4. PICK x \in Nat, q \in Nat, e \in Nat :
        /\ x = v[i] /\ x <= T /\ e <= 1
        /\ RecalculatePrices(v, older)[i] = q + e
        /\ T * q <= x * SCALE /\ x * SCALE <= T * q + (T - 1)
  BY <1>1, <1>3 DEF NearShare
<1>5. PICK y \in Nat, r \in Nat, f \in Nat :
        /\ y = w[i] /\ y <= U /\ f <= 1
        /\ RecalculatePrices(w, old)[i] = r + f
        /\ U * r <= y * SCALE /\ y * SCALE <= U * r + (U - 1)
  BY <1>2, <1>3 DEF NearShare
<1>6. CASE i = o
  <2>1. y = x + a /\ SCALE \in Nat
    BY <1>4, <1>5, <1>6
  <2>2. /\ U = T + a /\ T > 0 /\ x <= T /\ T * q <= x * SCALE
        /\ y * SCALE <= U * r + (U - 1)
    BY <1>3, <1>4, <1>5
  <2>3. q <= r
    BY <2>1, <2>2, BackedShare
  <2>4. r + f >= (q + e) - 1
    BY <1>4, <2>3
  <2>5. QED
    BY <1>4, <1>5, <1>6, <2>4
<1>7. CASE i # o
  <2>1. y = x
    BY <1>4, <1>5, <1>7
  <2>2. PICK b \in Nat : b = x * SCALE
    <3>1. x * SCALE \in Nat
      OBVIOUS
    <3>2. QED
      BY <3>1
  <2>3. U = T + a /\ T > 0 /\ b <= T * q + (T - 1) /\ U * r <= b
    BY <1>3, <1>4, <1>5, <2>1, <2>2
  <2>4. r <= q
    BY <2>3, RivalShare
  <2>5. r + f <= (q + e) + 1
    BY <1>5, <2>4
  <2>6. QED
    BY <1>4, <1>5, <1>7, <2>5
<1>8. QED
  BY <1>6, <1>7

\* A settled bet pays a natural number (Bet::settle_as_winner): its amount and
\* price are positive.
LEMMA PayoutNat ==
  ASSUME NEW amount \in Int, amount > 0, NEW p \in Price, p >= MinTick
  PROVE  Payout(amount, p) \in Nat
<1>1. amount * SCALE \in Nat
  OBVIOUS
<1>2. SaturateI64(amount * SCALE) \in Nat
  BY <1>1 DEF SaturateI64
<1>3. p \in Nat /\ p > 0
  BY DEF Price, MinTick
<1>. HIDE DEF SaturateI64
<1>4. QED
  BY <1>2, <1>3 DEF Payout

\* recalculate_prices keeps every price in range whatever the volumes: a share
\* out of range leaves the old price.
LEMMA RecalculatePricesType ==
  ASSUME NEW n \in Nat, NEW vols \in [1 .. n -> Int], NEW old \in [1 .. n -> Price]
  PROVE  RecalculatePrices(vols, old) \in [1 .. n -> Price]
BY DEF RecalculatePrices

\* Adding a stake to one outcome keeps the vector's shape.
LEMMA AddVolumeType ==
  ASSUME NEW n \in Nat, NEW vols \in [1 .. n -> Int], NEW i \in 1 .. n, NEW a \in Int
  PROVE  AddVolume(vols, i, a) \in [1 .. n -> Int]
BY DEF AddVolume, SaturateI64

\* The price a bet buys at is a price, at least one tick.
LEMMA BuyPriceType ==
  ASSUME NEW p \in Price
  PROVE  BuyPrice(p) \in Price /\ BuyPrice(p) >= MinTick
BY DEF BuyPrice, Price, MinTick

\* A sum of natural numbers is one.
LEMMA SumNat ==
  ASSUME NEW f, NEW S, IsFiniteSet(S), \A x \in S : f[x] \in Nat
  PROVE  SumFunctionOnSet(f, S) \in Nat
<1>1. CASE S = {}
  BY <1>1, SumEmpty
<1>2. CASE S # {}
  BY <1>2, SumAbove
<1>3. QED
  BY <1>1, <1>2
=============================================================================

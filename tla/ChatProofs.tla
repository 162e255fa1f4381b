------------------------------ MODULE ChatProofs ------------------------------
(***************************************************************************)
(* Proofs about Chat, for any number of messages, rooms and readers and    *)
(* any page size, and about Reactions, for any number of users and         *)
(* requests and any batch size; what needs the processors to be one says   *)
(* so.                                                                     *)
(***************************************************************************)
EXTENDS Chat, Reactions, FiniteSetTheorems, SequenceTheorems, TLAPS

USE ChatAssumption

-----------------------------------------------------------------------------
(* The order of messages and its enumerations *)

Times == createdAt \in [Messages -> Nat]

\* The row value (created_at, id) orders messages totally: ids break the ties.
LEMMA OlderOrder ==
  ASSUME Times
  PROVE  /\ \A m \in Messages : ~Older(m, m)
         /\ \A m, n \in Messages : Older(m, n) \/ Older(n, m) \/ m = n
         /\ \A m, n \in Messages : ~(Older(m, n) /\ Older(n, m))
         /\ \A l, m, n \in Messages : Older(l, m) /\ Older(m, n) => Older(l, n)
BY DEF Times, Older

\* s lists exactly the members of S, oldest first.
Enumerates(s, S) ==
  /\ s \in Seq(S)
  /\ \A i, j \in 1 .. Len(s) : i < j => Older(s[i], s[j])
  /\ \A m \in S : \E i \in 1 .. Len(s) : s[i] = m

\* A message's place, counted from the oldest of S.
Place(m, S) == Cardinality({n \in S : ~Older(m, n)})

\* Places count from one and grow with the order.
LEMMA PlaceGrows ==
  ASSUME Times, NEW S, S \subseteq Messages, IsFiniteSet(S)
  PROVE  /\ Cardinality(S) \in Nat
         /\ \A m \in S : Place(m, S) \in 1 .. Cardinality(S)
         /\ \A m, n \in S : Older(m, n) => Place(m, S) < Place(n, S)
<1> DEFINE UpTo(m) == {n \in S : ~Older(m, n)}
<1>1. \A m : UpTo(m) \in SUBSET S /\ IsFiniteSet(UpTo(m)) /\ Cardinality(UpTo(m)) \in Nat
              /\ Cardinality(UpTo(m)) <= Cardinality(S)
  BY FS_Subset, FS_CardinalityType
<1>2. ASSUME NEW m \in S PROVE Cardinality(UpTo(m)) # 0
  <2>1. m \in UpTo(m)
    BY OlderOrder
  <2>2. QED
    BY <1>1, <2>1, FS_EmptySet
<1>3. ASSUME NEW m \in S, NEW n \in S, Older(m, n)
      PROVE  Cardinality(UpTo(m)) < Cardinality(UpTo(n))
  <2>1. UpTo(m) \in SUBSET UpTo(n) /\ n \in UpTo(n) /\ n \notin UpTo(m)
    BY <1>3, OlderOrder
  <2>2. /\ Cardinality(UpTo(m)) <= Cardinality(UpTo(n))
        /\ Cardinality(UpTo(n)) # Cardinality(UpTo(m))
    BY <1>1, <2>1, FS_Subset
  <2>3. QED
    BY <1>1, <2>2
<1>4. Cardinality(S) \in Nat
  BY FS_CardinalityType
<1>5. QED
  BY <1>1, <1>2, <1>3, <1>4 DEF Place

\* ORDER BY (created_at, id) has an answer: each message at its place.
LEMMA SortedExists ==
  ASSUME Times, NEW S, S \subseteq Messages, IsFiniteSet(S)
  PROVE  \E s \in [1 .. Cardinality(S) -> S] :
           IsInjective(s) /\ \A i, j \in DOMAIN s : i < j => ~Older(s[j], s[i])
<1> DEFINE N == Cardinality(S)
           place == [m \in S |-> Place(m, S)]
           s == [i \in 1 .. N |-> CHOOSE m \in S : place[m] = i]
<1>1. N \in Nat /\ IsFiniteSet(1 .. N) /\ Cardinality(1 .. N) = N
  BY FS_CardinalityType, FS_Interval
<1>2. place \in [S -> 1 .. N] /\ \A m, n \in S : Older(m, n) => place[m] < place[n]
  BY PlaceGrows
<1>3. place \in Injection(S, 1 .. N)
  <2>1. \A m, n \in S : place[m] = place[n] => m = n
    BY <1>1, <1>2, OlderOrder
  <2>2. QED
    BY <1>2, <2>1 DEF Injection, IsInjective
<1>4. \A i \in 1 .. N : \E m \in S : place[m] = i
  <2>1. place \in Surjection(S, 1 .. N)
    BY <1>1, <1>3, FS_Injection
  <2>2. QED
    BY <2>1 DEF Surjection
<1>5. \A i \in 1 .. N : s[i] \in S /\ place[s[i]] = i
  BY <1>4
<1> HIDE DEF place
<1>6. s \in [1 .. N -> S] /\ IsInjective(s)
  BY <1>5 DEF IsInjective
<1> HIDE DEF s
<1>7. ASSUME NEW i \in 1 .. N, NEW j \in 1 .. N, i < j PROVE ~Older(s[j], s[i])
  <2>1. Older(s[j], s[i]) => place[s[j]] < place[s[i]]
    BY <1>2, <1>5
  <2>2. QED
    BY <1>1, <1>5, <1>7, <2>1
<1>8. DOMAIN s = 1 .. N
  BY <1>6
<1>9. QED
  BY <1>6, <1>7, <1>8

\* Any enumeration puts each message at its place,
LEMMA EnumerationPlaces ==
  ASSUME Times, NEW S, S \subseteq Messages, NEW s, Enumerates(s, S)
  PROVE  /\ IsFiniteSet(S) /\ Cardinality(S) = Len(s)
         /\ \A i \in 1 .. Len(s) : Place(s[i], S) = i
<1>1. s \in [1 .. Len(s) -> S] /\ Len(s) \in Nat
  BY DEF Enumerates
<1>2. ASSUME NEW i \in 1 .. Len(s), NEW j \in 1 .. Len(s)
      PROVE  (s[i] = s[j] => i = j) /\ (Older(s[i], s[j]) => i < j)
  <2>1. s[i] \in Messages /\ s[j] \in Messages
    BY <1>1
  <2>2. i = j \/ (Older(s[i], s[j]) /\ i < j) \/ (Older(s[j], s[i]) /\ j < i)
    BY <1>1 DEF Enumerates
  <2>3. QED
    BY <2>1, <2>2, OlderOrder
<1>3. ASSUME NEW i \in 0 .. Len(s)
      PROVE  LET T == {s[j] : j \in 1 .. i} IN IsFiniteSet(T) /\ Cardinality(T) = i
  <2> DEFINE T == {s[j] : j \in 1 .. i}
             f == [j \in 1 .. i |-> s[j]]
  <2>1. f \in Bijection(1 .. i, T)
    BY <1>1, <1>2 DEF Bijection, Injection, Surjection, IsInjective
  <2> HIDE DEF f, T
  <2>2. ExistsBijection(1 .. i, T)
    BY <2>1 DEF ExistsBijection
  <2>3. i \in Nat
    BY <1>1
  <2>4. IsFiniteSet(T) /\ Cardinality(T) = i
    BY <2>2, <2>3, FS_CountingElements, FS_NatBijection
  <2>5. QED
    BY <2>4 DEF T
<1>4. S = {s[j] : j \in 1 .. Len(s)}
  BY <1>1 DEF Enumerates
<1>5. ASSUME NEW i \in 1 .. Len(s)
      PROVE  {n \in S : ~Older(s[i], n)} = {s[j] : j \in 1 .. i}
  <2>1. ASSUME NEW j \in 1 .. Len(s) PROVE ~Older(s[i], s[j]) <=> j <= i
    <3>1. i < j => Older(s[i], s[j])
      BY DEF Enumerates
    <3>2. Older(s[i], s[j]) => i < j
      BY <1>2
    <3>3. QED
      BY <1>1, <3>1, <3>2
  <2>2. QED
    BY <1>1, <1>4, <2>1
<1>6. IsFiniteSet(S) /\ Cardinality(S) = Len(s)
  <2>1. Len(s) \in 0 .. Len(s)
    BY <1>1
  <2>2. QED
    BY <1>3, <1>4, <2>1
<1>7. ASSUME NEW i \in 1 .. Len(s) PROVE Place(s[i], S) = i
  <2>1. i \in 0 .. Len(s)
    BY <1>1
  <2>2. QED
    BY <1>3, <1>5, <2>1 DEF Place
<1>8. QED
  BY <1>6, <1>7

\* so there is only one.
LEMMA EnumerationUnique ==
  ASSUME Times, NEW S, S \subseteq Messages,
         NEW s, Enumerates(s, S), NEW t, Enumerates(t, S)
  PROVE  s = t
<1>1. /\ Len(s) = Len(t) /\ IsFiniteSet(S)
      /\ \A i \in 1 .. Len(s) : Place(s[i], S) = i /\ Place(t[i], S) = i
  BY EnumerationPlaces
<1>2. s \in [1 .. Len(s) -> S] /\ t \in [1 .. Len(s) -> S]
  BY <1>1 DEF Enumerates
<1>3. ASSUME NEW m \in S, NEW n \in S, Place(m, S) = Place(n, S) PROVE m = n
  <2>1. /\ Cardinality(S) \in Nat
        /\ Place(m, S) \in 1 .. Cardinality(S) /\ Place(n, S) \in 1 .. Cardinality(S)
    BY PlaceGrows, <1>1
  <2>2. /\ Older(m, n) => Place(m, S) < Place(n, S)
        /\ Older(n, m) => Place(n, S) < Place(m, S)
    BY PlaceGrows, <1>1
  <2>3. ~Older(m, n) /\ ~Older(n, m)
    BY <1>3, <2>1, <2>2
  <2>4. QED
    BY <2>3, OlderOrder
<1>4. \A i \in 1 .. Len(s) : s[i] = t[i]
  BY <1>1, <1>2, <1>3
<1>5. QED
  BY <1>2, <1>4

\* The query's answer enumerates what it selects.
LEMMA SortedEnumerates ==
  ASSUME Times, NEW S, S \subseteq Messages, IsFiniteSet(S)
  PROVE  Enumerates(Sorted(S), S)
<1> DEFINE N == Cardinality(S)
<1>1. N \in Nat /\ IsFiniteSet(1 .. N) /\ Cardinality(1 .. N) = N
  BY FS_CardinalityType, FS_Interval
<1>2. /\ Sorted(S) \in [1 .. N -> S] /\ IsInjective(Sorted(S))
      /\ \A i, j \in DOMAIN Sorted(S) : i < j => ~Older(Sorted(S)[j], Sorted(S)[i])
  BY SortedExists DEF Sorted
<1>3. Sorted(S) \in Surjection(1 .. N, S)
  BY <1>1, <1>2, FS_Injection DEF Injection
<1>4. Sorted(S) \in Seq(S) /\ Len(Sorted(S)) = N
  BY <1>1, <1>2
<1>5. ASSUME NEW i \in 1 .. N, NEW j \in 1 .. N, i < j
      PROVE  Older(Sorted(S)[i], Sorted(S)[j])
  <2>1. Sorted(S)[i] \in Messages /\ Sorted(S)[j] \in Messages
    BY <1>2
  <2>2. Sorted(S)[i] # Sorted(S)[j] /\ ~Older(Sorted(S)[j], Sorted(S)[i])
    BY <1>2, <1>5 DEF IsInjective
  <2>3. QED
    BY <2>1, <2>2, OlderOrder
<1>6. QED
  BY <1>3, <1>4, <1>5 DEF Enumerates, Surjection

\* A stretch of an enumeration enumerates what is in it.
LEMMA StretchEnumerates ==
  ASSUME NEW S, NEW s, Enumerates(s, S),
         NEW a \in 1 .. Len(s) + 1, NEW b \in 0 .. Len(s), a <= b + 1
  PROVE  Enumerates(SubSeq(s, a, b), {s[i] : i \in a .. b})
<1> DEFINE T == {s[i] : i \in a .. b}
           t == SubSeq(s, a, b)
<1>1. s \in Seq(S) /\ Len(s) \in Nat
  BY DEF Enumerates
<1>2. /\ t \in Seq(S) /\ Len(t) = b - a + 1
      /\ \A i \in 1 .. Len(t) : t[i] = s[a + i - 1] /\ a + i - 1 \in a .. b
  BY <1>1, SubSeqProperties
<1> HIDE DEF t
<1>3. t \in Seq(T)
  <2>1. t \in [1 .. Len(t) -> S] /\ Len(t) \in Nat
    BY <1>2
  <2>2. \A i \in 1 .. Len(t) : t[i] \in T
    BY <1>2
  <2>3. t \in [1 .. Len(t) -> T]
    BY <2>1, <2>2
  <2>4. QED
    BY <2>1, <2>3
<1>4. ASSUME NEW i \in 1 .. Len(t), NEW j \in 1 .. Len(t), i < j
      PROVE  Older(t[i], t[j])
  <2>1. a + i - 1 \in 1 .. Len(s) /\ a + j - 1 \in 1 .. Len(s) /\ a + i - 1 < a + j - 1
    BY <1>1, <1>2, <1>4
  <2>2. Older(s[a + i - 1], s[a + j - 1])
    BY <2>1 DEF Enumerates
  <2>3. QED
    BY <1>2, <2>2
<1>5. ASSUME NEW m \in T PROVE \E i \in 1 .. Len(t) : t[i] = m
  <2>1. PICK k \in a .. b : m = s[k]
    OBVIOUS
  <2>2. k - a + 1 \in 1 .. Len(t) /\ a + (k - a + 1) - 1 = k
    BY <1>1, <1>2
  <2>3. t[k - a + 1] = m
    BY <1>2, <2>1, <2>2
  <2>4. QED
    BY <2>2, <2>3
<1>6. QED
  BY <1>3, <1>4, <1>5 DEF t, Enumerates

\* LIMIT, in either direction, cuts an end off the enumeration.
LEMMA InPage ==
  ASSUME Times, NEW S, S \subseteq Messages, NEW s, Enumerates(s, S)
  PROVE  /\ Newest(S) \subseteq S /\ Oldest(S) \subseteq S
         /\ \A i \in 1 .. Len(s) : (s[i] \in Newest(S)) <=> (Len(s) - i < Limit)
         /\ \A i \in 1 .. Len(s) : (s[i] \in Oldest(S)) <=> (i - 1 < Limit)
<1>0. s \in [1 .. Len(s) -> S] /\ Len(s) \in Nat
  BY DEF Enumerates
<1>1. S = {s[i] : i \in 1 .. Len(s)}
  BY <1>0 DEF Enumerates
<1>2. IsFiniteSet(S) /\ Cardinality(S) = Len(s)
  BY EnumerationPlaces
<1>3. ASSUME NEW i \in 1 .. Len(s)
      PROVE  /\ Cardinality({n \in S : Older(s[i], n)}) = Len(s) - i
             /\ Cardinality({n \in S : Older(n, s[i])}) = i - 1
  <2> DEFINE UpTo == {n \in S : ~Older(s[i], n)}
  <2>1. IsFiniteSet(UpTo) /\ Cardinality(UpTo) = i /\ s[i] \in UpTo
    <3>1. Place(s[i], S) = i
      BY EnumerationPlaces
    <3>2. Cardinality(UpTo) = i
      BY <3>1 DEF Place
    <3>3. s[i] \in UpTo
      BY <1>0, OlderOrder
    <3>4. UpTo \in SUBSET S
      OBVIOUS
    <3>5. IsFiniteSet(UpTo)
      BY <1>2, <3>4, FS_Subset
    <3>6. QED
      BY <3>2, <3>3, <3>5
  <2>2. Cardinality(S \ UpTo) = Len(s) - i
    <3>1. S \cap UpTo = UpTo
      OBVIOUS
    <3>2. Cardinality(S \ UpTo) = Cardinality(S) - Cardinality(S \cap UpTo)
      BY <1>2, FS_Difference
    <3>3. QED
      BY <1>2, <2>1, <3>1, <3>2
  <2>3. Cardinality(UpTo \ {s[i]}) = i - 1
    BY <2>1, FS_RemoveElement
  <2>4. {n \in S : Older(s[i], n)} = S \ UpTo
    OBVIOUS
  <2>5. {n \in S : Older(n, s[i])} = UpTo \ {s[i]}
    BY <1>0, OlderOrder
  <2>6. QED
    BY <2>2, <2>3, <2>4, <2>5
<1>4. \A i \in 1 .. Len(s) : s[i] \in S
  BY <1>0
<1>5. Newest(S) \subseteq S /\ Oldest(S) \subseteq S
  BY DEF Newest, Oldest
<1>6. QED
  BY <1>3, <1>4, <1>5 DEF Newest, Oldest

\* In the enumeration's own terms.
LEMMA EndsOf ==
  ASSUME Times, NEW S, S \subseteq Messages, NEW s, Enumerates(s, S)
  PROVE  /\ Newest(S) = {s[i] : i \in {j \in 1 .. Len(s) : Len(s) - j < Limit}}
         /\ Oldest(S) = {s[i] : i \in {j \in 1 .. Len(s) : j - 1 < Limit}}
<1>1. /\ \A m \in S : \E i \in 1 .. Len(s) : s[i] = m
      /\ Len(s) \in Nat
  BY DEF Enumerates
<1>2. /\ Newest(S) \subseteq S /\ Oldest(S) \subseteq S
      /\ \A i \in 1 .. Len(s) : (s[i] \in Newest(S)) <=> (Len(s) - i < Limit)
      /\ \A i \in 1 .. Len(s) : (s[i] \in Oldest(S)) <=> (i - 1 < Limit)
  BY InPage
<1>3. Newest(S) = {s[i] : i \in {j \in 1 .. Len(s) : Len(s) - j < Limit}}
  BY <1>1, <1>2
<1>4. Oldest(S) = {s[i] : i \in {j \in 1 .. Len(s) : j - 1 < Limit}}
  BY <1>1, <1>2
<1>5. QED
  BY <1>3, <1>4

\* So cutting the sorted room in memory gives the query's page.
LEMMA CutsAgree ==
  ASSUME Times, NEW S, S \subseteq Messages, NEW s, Enumerates(s, S)
  PROVE  LastOf(s) = Sorted(Newest(S)) /\ FirstOf(s) = Sorted(Oldest(S))
<1>0. Len(s) \in Nat
  BY DEF Enumerates
<1>1. Len(s) \in Nat /\ IsFiniteSet(S)
  BY <1>0, EnumerationPlaces
<1>2. /\ Newest(S) \subseteq Messages /\ IsFiniteSet(Newest(S))
      /\ Oldest(S) \subseteq Messages /\ IsFiniteSet(Oldest(S))
  BY <1>1, FS_Subset DEF Newest, Oldest
<1>3. /\ Enumerates(Sorted(Newest(S)), Newest(S))
      /\ Enumerates(Sorted(Oldest(S)), Oldest(S))
  BY <1>2, SortedEnumerates
<1>4. Enumerates(LastOf(s), Newest(S))
  <2> DEFINE a == IF Len(s) < Limit THEN 1 ELSE Len(s) - Limit + 1
  <2>1. a \in 1 .. Len(s) + 1 /\ Len(s) \in 0 .. Len(s) /\ a <= Len(s) + 1
    BY <1>1
  <2>2. a .. Len(s) = {j \in 1 .. Len(s) : Len(s) - j < Limit}
    BY <1>1
  <2>3. Enumerates(SubSeq(s, a, Len(s)), {s[i] : i \in a .. Len(s)})
    BY <2>1, StretchEnumerates
  <2>4. LastOf(s) = SubSeq(s, a, Len(s))
    BY DEF LastOf
  <2>5. QED
    BY <2>2, <2>3, <2>4, EndsOf
<1>5. Enumerates(FirstOf(s), Oldest(S))
  <2> DEFINE b == IF Len(s) < Limit THEN Len(s) ELSE Limit
  <2>1. 1 \in 1 .. Len(s) + 1 /\ b \in 0 .. Len(s) /\ 1 <= b + 1
    BY <1>1
  <2>2. 1 .. b = {j \in 1 .. Len(s) : j - 1 < Limit}
    BY <1>1
  <2>3. Enumerates(SubSeq(s, 1, b), {s[i] : i \in 1 .. b})
    BY <2>1, StretchEnumerates
  <2>4. FirstOf(s) = SubSeq(s, 1, b)
    BY DEF FirstOf
  <2>5. QED
    BY <2>2, <2>3, <2>4, EndsOf
<1>6. QED
  BY <1>2, <1>3, <1>4, <1>5, EnumerationUnique

\* What a page leaves out lies beyond it, and a page is empty only if nothing is
\* left.
LEMMA PagesCutOff ==
  ASSUME Times, NEW S, S \subseteq Messages, IsFiniteSet(S)
  PROVE  /\ \A m \in S \ Newest(S), n \in Newest(S) : Older(m, n)
         /\ \A m \in S \ Oldest(S), n \in Oldest(S) : Older(n, m)
         /\ S # {} => Newest(S) # {} /\ Oldest(S) # {}
<1>1. PICK s : Enumerates(s, S)
  BY SortedEnumerates
<1>2. /\ Newest(S) \subseteq S /\ Oldest(S) \subseteq S
      /\ \A i \in 1 .. Len(s) : (s[i] \in Newest(S)) <=> (Len(s) - i < Limit)
      /\ \A i \in 1 .. Len(s) : (s[i] \in Oldest(S)) <=> (i - 1 < Limit)
  BY <1>1, InPage
<1>3. Len(s) \in Nat /\ s \in [1 .. Len(s) -> S] /\ \A m \in S : \E i \in 1 .. Len(s) : s[i] = m
  BY <1>1 DEF Enumerates
<1>4. \A i, j \in 1 .. Len(s) : i < j => Older(s[i], s[j])
  BY <1>1 DEF Enumerates
<1>5. ASSUME NEW m \in S \ Newest(S), NEW n \in Newest(S)
      PROVE  Older(m, n)
  <2>0. PICK j \in 1 .. Len(s) : n = s[j]
    BY <1>2, <1>3
  <2>1. Len(s) - j < Limit
    BY <1>2, <2>0
  <2>2. PICK i \in 1 .. Len(s) : m = s[i]
    BY <1>3
  <2>3. ~(Len(s) - i < Limit)
    BY <1>2, <1>5, <2>2
  <2>4. QED
    BY <1>3, <1>4, <2>0, <2>1, <2>2, <2>3
<1>6. ASSUME NEW m \in S \ Oldest(S), NEW n \in Oldest(S)
      PROVE  Older(n, m)
  <2>0. PICK j \in 1 .. Len(s) : n = s[j]
    BY <1>2, <1>3
  <2>1. j - 1 < Limit
    BY <1>2, <2>0
  <2>2. PICK i \in 1 .. Len(s) : m = s[i]
    BY <1>3
  <2>3. ~(i - 1 < Limit)
    BY <1>2, <1>6, <2>2
  <2>4. QED
    BY <1>3, <1>4, <2>0, <2>1, <2>2, <2>3
<1>7. ASSUME S # {} PROVE Newest(S) # {} /\ Oldest(S) # {}
  <2>0. PICK i \in 1 .. Len(s) : TRUE
    BY <1>3, <1>7
  <2>1. Len(s) \in 1 .. Len(s) /\ 1 \in 1 .. Len(s)
    BY <1>3, <2>0
  <2>2. Len(s) - Len(s) < Limit /\ 1 - 1 < Limit
    BY <1>3
  <2>3. s[Len(s)] \in Newest(S) /\ s[1] \in Oldest(S)
    BY <1>2, <2>1, <2>2
  <2>4. QED
    BY <2>3
<1>8. QED
  BY <1>5, <1>6, <1>7

-----------------------------------------------------------------------------
(* The in-memory repository *)

\* partition_point: what is older than the anchor comes first.
LEMMA SplitPartitions ==
  ASSUME Times, NEW S, S \subseteq Messages, NEW s, Enumerates(s, S), NEW c \in Messages
  PROVE  /\ SplitAt(s, c) \in 0 .. Len(s)
         /\ \A i \in 1 .. Len(s) : Older(s[i], c) <=> i <= SplitAt(s, c)
<1> DEFINE D == {i \in 1 .. Len(s) : Older(s[i], c)}
<1>1. Len(s) \in Nat /\ s \in [1 .. Len(s) -> S]
  BY DEF Enumerates
<1>2. \A i, j \in 1 .. Len(s) : i < j => Older(s[i], s[j])
  BY DEF Enumerates
<1>3. SplitAt(s, c) = Cardinality(D)
  BY <1>1 DEF SplitAt
<1>4. \A i \in Nat : IsFiniteSet(1 .. i) /\ Cardinality(1 .. i) = i
  BY FS_Interval
<1>5. IsFiniteSet(D) /\ Cardinality(D) \in Nat /\ Cardinality(D) <= Len(s)
  <2>1. D \in SUBSET (1 .. Len(s))
    OBVIOUS
  <2>2. QED
    BY <1>1, <1>4, <2>1, FS_Subset, FS_CardinalityType
<1>6. ASSUME NEW i \in D PROVE i <= Cardinality(D)
  <2>1. ASSUME NEW j \in 1 .. i PROVE j \in D
    <3>1. j \in 1 .. Len(s) /\ (j < i \/ j = i)
      BY <1>1
    <3>2. s[j] \in Messages /\ s[i] \in Messages
      BY <1>1, <3>1
    <3>3. CASE j < i
      <4>1. Older(s[j], s[i]) /\ Older(s[i], c)
        BY <1>2, <3>1, <3>3
      <4>2. QED
        BY <3>1, <3>2, <4>1, OlderOrder
    <3>4. QED
      BY <3>1, <3>3
  <2>2. 1 .. i \in SUBSET D /\ i \in Nat
    BY <2>1
  <2> HIDE DEF D
  <2>3. Cardinality(1 .. i) <= Cardinality(D)
    BY <1>5, <2>2, FS_Subset
  <2>4. QED
    BY <1>4, <2>2, <2>3
<1>7. ASSUME NEW i \in 1 .. Len(s), i \notin D PROVE Cardinality(D) < i
  <2>1. ASSUME NEW j \in D PROVE j \in 1 .. i - 1
    <3>1. s[j] \in Messages /\ s[i] \in Messages /\ Older(s[j], c) /\ ~Older(s[i], c)
      BY <1>1, <1>7
    <3>2. ~(i < j) /\ i # j
      BY <1>2, <3>1, OlderOrder
    <3>3. QED
      BY <1>1, <3>2
  <2>2. D \in SUBSET (1 .. i - 1) /\ i - 1 \in Nat
    BY <1>1, <2>1
  <2>3. Cardinality(D) <= i - 1
    BY <1>4, <2>2, FS_Subset
  <2>4. QED
    BY <1>1, <1>5, <2>3
<1>8. ASSUME NEW i \in 1 .. Len(s)
      PROVE  Older(s[i], c) <=> i <= Cardinality(D)
  <2>1. i \in D <=> Older(s[i], c)
    OBVIOUS
  <2>2. i \in Nat
    BY <1>1
  <2> HIDE DEF D
  <2>3. QED
    BY <1>5, <1>6, <1>7, <2>1, <2>2
<1>9. QED
  BY <1>1, <1>3, <1>5, <1>8

\* Whatever was posted so far is finitely much.
StartedFinite == IsFiniteSet({m \in Messages : state[m] # "none"})

\* So every room, and every page of it, is finite.
LEMMA RoomsFinite ==
  ASSUME StartedFinite, NEW k
  PROVE  In(k) \subseteq Messages /\ IsFiniteSet(In(k)) /\ \A T \in SUBSET In(k) : IsFiniteSet(T)
<1>1. In(k) \in SUBSET {m \in Messages : state[m] # "none"}
  BY DEF In, Posted
<1>2. QED
  BY <1>1, FS_Subset DEF StartedFinite

\* Both repositories cut the same first page,
LEMMA NewestAgree ==
  ASSUME Times, StartedFinite, NEW k
  PROVE  MemNewest(k) = Sorted(Newest(In(k)))
<1>1. In(k) \subseteq Messages /\ Enumerates(Sorted(In(k)), In(k))
  BY RoomsFinite, SortedEnumerates
<1>2. QED
  BY <1>1, CutsAgree DEF MemNewest

\* and the same pages before and after any anchor.
LEMMA PagesAgree ==
  ASSUME Times, StartedFinite, NEW k, NEW c \in Messages
  PROVE  /\ MemBefore(k, c) = Sorted(Before(k, c))
         /\ MemAfter(k, c) = Sorted(After(k, c))
<1> DEFINE S == In(k)
           s == Sorted(S)
           p == SplitAt(s, c)
<1>1. S \subseteq Messages /\ IsFiniteSet(S)
  BY RoomsFinite
<1>2. Enumerates(s, S)
  BY <1>1, SortedEnumerates
<1>4. /\ p \in 0 .. Len(s)
      /\ \A i \in 1 .. Len(s) : Older(s[i], c) <=> i <= p
  BY <1>1, <1>2, SplitPartitions
<1>5. Len(s) \in Nat /\ s \in [1 .. Len(s) -> S]
  BY <1>2 DEF Enumerates
<1>6. /\ \A m \in S : \E i \in 1 .. Len(s) : s[i] = m
      /\ \A i, j \in 1 .. Len(s) : i < j => Older(s[i], s[j])
  BY <1>2 DEF Enumerates
<1>7. MemBefore(k, c) = LastOf(SubSeq(s, 1, p))
  BY DEF MemBefore
<1>8. MemAfter(k, c) = FirstOf(SubSeq(s, (IF p < Len(s) /\ s[p + 1] = c THEN p + 1 ELSE p) + 1, Len(s)))
  BY DEF MemAfter
<1> HIDE DEF p, s, S
<1>9. MemBefore(k, c) = Sorted(Before(k, c))
  <2> DEFINE T == {m \in S : Older(m, c)}
  <2>1. T = {s[i] : i \in 1 .. p}
    BY <1>4, <1>5, <1>6
  <2>2. Enumerates(SubSeq(s, 1, p), {s[i] : i \in 1 .. p})
    <3>1. 1 \in 1 .. Len(s) + 1 /\ p \in 0 .. Len(s) /\ 1 <= p + 1
      BY <1>4, <1>5
    <3>2. QED
      BY <1>2, <3>1, StretchEnumerates
  <2>3. T \subseteq Messages
    BY <1>1
  <2>4. LastOf(SubSeq(s, 1, p)) = Sorted(Newest(T))
    BY <2>1, <2>2, <2>3, CutsAgree
  <2>5. QED
    BY <1>7, <2>4 DEF Before, S
<1>10. MemAfter(k, c) = Sorted(After(k, c))
  <2> DEFINE a == (IF p < Len(s) /\ s[p + 1] = c THEN p + 1 ELSE p) + 1
             T == {m \in S : Older(c, m)}
  <2>1. a \in 1 .. Len(s) + 1 /\ p < a
    BY <1>4, <1>5
  <2>2. ASSUME NEW i \in 1 .. Len(s) PROVE Older(c, s[i]) <=> a <= i
    <3>0. p \in Nat /\ i \in Nat
      BY <1>4, <1>5
    <3>1. s[i] \in Messages /\ i \in Nat /\ p \in Nat
      BY <1>1, <1>5, <3>0
    <3>2. CASE i <= p
      <4>1. ~(a <= i) /\ Older(s[i], c)
        BY <1>4, <1>5, <2>1, <3>1, <3>2
      <4>2. QED
        BY <3>1, <4>1, OlderOrder
    <3>3. CASE i = p + 1
      <4>1. ~Older(s[i], c)
        BY <1>4, <3>1, <3>3
      <4>2. Older(c, s[i]) <=> s[i] # c
        BY <3>1, <4>1, OlderOrder
      <4>3. QED
        BY <1>4, <1>5, <3>1, <3>3, <4>2
    <3>4. CASE i > p + 1
      <4>1. p + 1 \in 1 .. Len(s)
        BY <1>5, <3>1, <3>4
      <4>2. /\ Older(s[p + 1], s[i]) /\ s[p + 1] \in Messages
            /\ ~Older(s[p + 1], c)
        <5>1. Older(s[p + 1], s[i])
          BY <1>6, <3>4, <4>1
        <5>2. s[p + 1] \in Messages
          BY <1>1, <1>5, <4>1
        <5>3. ~(p + 1 <= p)
          BY <3>1
        <5>4. QED
          BY <1>4, <4>1, <5>1, <5>2, <5>3
      <4>3. Older(c, s[i])
        BY <3>1, <4>2, OlderOrder
      <4>4. QED
        BY <3>1, <3>4, <4>3
    <3> HIDE DEF a
    <3>5. i <= p \/ i = p + 1 \/ i > p + 1
      BY <3>1
    <3>6. QED
      BY <3>2, <3>3, <3>4, <3>5
  <2>3. T = {s[i] : i \in a .. Len(s)}
    <3>1. \A i \in a .. Len(s) : i \in 1 .. Len(s) /\ a <= i
      BY <1>5, <2>1
    <3>2. \A i \in 1 .. Len(s) : a <= i => i \in a .. Len(s)
      BY <1>5, <2>1
    <3> HIDE DEF a
    <3>3. QED
      BY <1>5, <1>6, <2>2, <3>1, <3>2
  <2>4. Enumerates(SubSeq(s, a, Len(s)), {s[i] : i \in a .. Len(s)})
    <3>1. Len(s) \in 0 .. Len(s) /\ a <= Len(s) + 1
      BY <1>5, <2>1
    <3>2. QED
      BY <1>2, <2>1, <3>1, StretchEnumerates
  <2>5. T \subseteq Messages
    BY <1>1
  <2>6. FirstOf(SubSeq(s, a, Len(s))) = Sorted(Oldest(T))
    BY <2>3, <2>4, <2>5, CutsAgree
  <2>7. QED
    BY <1>8, <2>6 DEF After, S
<1>11. QED
  BY <1>9, <1>10

-----------------------------------------------------------------------------
(* The inductive invariant *)

\* What was begun, posted or not: its time is not in the future, and its quote
\* is where and when it should be.
ThreadsSound ==
  \A m \in Messages : state[m] # "none" =>
    /\ createdAt[m] <= now
    /\ replyTo[m] # None => /\ replyTo[m] \in In(room[m])
                            /\ createdAt[replyTo[m]] <= createdAt[m]

\* Between the ends of what reader r was shown there is nothing else, posted or
\* not, except as SkipsOnlyLatePosts says,
NoHole(r) ==
  \A m \in Messages :
    (state[m] # "none" /\ room[m] = looksAt[r].room /\ Spans(seen[r], m)) =>
      \/ m \in Range(seen[r]) \cup overtaken[r]
      \/ \E n \in Range(seen[r]) : createdAt[n] = createdAt[m]

\* and what a reader that walks back has not seen yet is still ahead of it.
NothingLost(r) ==
  /\ atEnd[r] => seen[r] # <<>>
  /\ looksAt[r].back => \A m \in atStart[r] :
       \/ m \in Range(seen[r])
       \/ /\ m \in In(looksAt[r].room) /\ ~atEnd[r]
          /\ seen[r] # <<>> /\ Older(m, seen[r][1])

WalkSound(r) ==
  /\ Enumerates(seen[r], Range(seen[r]))
  /\ Range(seen[r]) \subseteq In(looksAt[r].room)
  /\ NoHole(r)
  /\ NothingLost(r)

ChatIInv ==
  /\ TypeOK
  /\ StartedFinite
  /\ ThreadsSound
  /\ \A r \in Readers : WalkSound(r)
\* The first message of an enumeration is its oldest, the last its newest,
LEMMA FirstAndLast ==
  ASSUME Times, NEW S, S \subseteq Messages, NEW s, Enumerates(s, S), s # <<>>
  PROVE  /\ s[1] \in S /\ \A m \in S : ~Older(m, s[1])
         /\ s[Len(s)] \in S /\ \A m \in S : ~Older(s[Len(s)], m)
<1>1. Len(s) \in Nat /\ s \in [1 .. Len(s) -> S] /\ s \in Seq(S)
  BY DEF Enumerates
<1>2. Len(s) # 0
  BY <1>1, EmptySeq
<1>3. 1 \in 1 .. Len(s) /\ Len(s) \in 1 .. Len(s)
  BY <1>1, <1>2
<1>4. ASSUME NEW m \in S PROVE ~Older(m, s[1]) /\ ~Older(s[Len(s)], m)
  <2>1. PICK i \in 1 .. Len(s) : s[i] = m
    BY DEF Enumerates
  <2>2. i = 1 \/ Older(s[1], s[i])
    BY <1>1, <1>3 DEF Enumerates
  <2>3. i = Len(s) \/ Older(s[i], s[Len(s)])
    <3>0. Len(s) \in Nat
      BY <1>1
    <3>1. i = Len(s) \/ i < Len(s)
      BY <3>0
    <3>2. QED
      BY <1>3, <3>1 DEF Enumerates
  <2>4. s[i] \in Messages /\ s[1] \in Messages /\ s[Len(s)] \in Messages
    BY <1>1, <1>3
  <2>5. ~Older(s[i], s[1])
    BY <2>2, <2>4, OlderOrder
  <2>6. ~Older(s[Len(s)], s[i])
    BY <2>3, <2>4, OlderOrder
  <2>7. QED
    BY <2>1, <2>5, <2>6
<1>5. QED
  BY <1>1, <1>3, <1>4

\* and two of them follow each other as one when all of one set is older.
LEMMA JoinEnumerates ==
  ASSUME NEW S, NEW T, NEW s, NEW t, Enumerates(s, S), Enumerates(t, T),
         \A m \in S, n \in T : Older(m, n)
  PROVE  Enumerates(s \o t, S \cup T)
<1>1. /\ Len(s) \in Nat /\ s \in [1 .. Len(s) -> S] /\ s \in Seq(S \cup T)
      /\ Len(t) \in Nat /\ t \in [1 .. Len(t) -> T] /\ t \in Seq(S \cup T)
  BY DEF Enumerates
<1>2. /\ s \o t \in Seq(S \cup T)
      /\ Len(s \o t) = Len(s) + Len(t)
      /\ \A i \in 1 .. Len(s) + Len(t) :
           (s \o t)[i] = IF i <= Len(s) THEN s[i] ELSE t[i - Len(s)]
  BY <1>1, ConcatProperties
<1>3. PICK u : u = s \o t
  OBVIOUS
<1>4. ASSUME NEW i \in 1 .. Len(u), NEW j \in 1 .. Len(u), i < j
      PROVE  Older(u[i], u[j])
  <2>1. CASE j <= Len(s)
    <3>1. i \in 1 .. Len(s) /\ j \in 1 .. Len(s) /\ u[i] = s[i] /\ u[j] = s[j]
      BY <1>1, <1>2, <1>3, <1>4, <2>1
    <3>2. QED
      BY <1>4, <3>1 DEF Enumerates
  <2>2. CASE i <= Len(s) /\ Len(s) < j
    <3>1. i \in 1 .. Len(s) /\ j - Len(s) \in 1 .. Len(t) /\ u[i] = s[i] /\ u[j] = t[j - Len(s)]
      BY <1>1, <1>2, <1>3, <1>4, <2>2
    <3>2. QED
      BY <1>1, <3>1
  <2>3. CASE Len(s) < i
    <3>1. /\ i - Len(s) \in 1 .. Len(t) /\ j - Len(s) \in 1 .. Len(t) /\ i - Len(s) < j - Len(s)
          /\ u[i] = t[i - Len(s)] /\ u[j] = t[j - Len(s)]
      BY <1>1, <1>2, <1>3, <1>4, <2>3
    <3>2. QED
      BY <3>1 DEF Enumerates
  <2>4. QED
    BY <1>1, <1>2, <1>3, <1>4, <2>1, <2>2, <2>3
<1>5. ASSUME NEW m \in S PROVE \E i \in 1 .. Len(u) : u[i] = m
  <2>1. PICK i \in 1 .. Len(s) : s[i] = m
    BY DEF Enumerates
  <2>2. i \in 1 .. Len(u) /\ u[i] = s[i]
    BY <1>1, <1>2, <1>3
  <2>3. QED
    BY <2>1, <2>2
<1>6. ASSUME NEW m \in T PROVE \E i \in 1 .. Len(u) : u[i] = m
  <2>1. PICK i \in 1 .. Len(t) : t[i] = m
    BY DEF Enumerates
  <2>2. Len(s) + i \in 1 .. Len(u) /\ ~(Len(s) + i <= Len(s)) /\ (Len(s) + i) - Len(s) = i
    BY <1>1, <1>2, <1>3
  <2>3. u[Len(s) + i] = t[i]
    BY <1>2, <1>3, <2>2
  <2>4. QED
    BY <2>1, <2>2, <2>3
<1>7. QED
  BY <1>2, <1>3, <1>4, <1>5, <1>6 DEF Enumerates

\* The ends of two walks joined are the ends of the walks.
LEMMA JoinEnds ==
  ASSUME NEW s \in Seq(Messages), NEW t \in Seq(Messages)
  PROVE  /\ s = <<>> => s \o t = t
         /\ t = <<>> => s \o t = s
         /\ s # <<>> => (s \o t)[1] = s[1] /\ s \o t # <<>>
         /\ t # <<>> => (s \o t)[Len(s \o t)] = t[Len(t)] /\ s \o t # <<>>
<1>1. /\ Len(s) \in Nat /\ Len(t) \in Nat
      /\ Len(s) = 0 <=> s = <<>>
      /\ Len(t) = 0 <=> t = <<>>
  BY EmptySeq
<1>2. /\ Len(s \o t) = Len(s) + Len(t)
      /\ \A i \in 1 .. Len(s) + Len(t) :
           (s \o t)[i] = IF i <= Len(s) THEN s[i] ELSE t[i - Len(s)]
  BY ConcatProperties
<1>3. PICK u : u = s \o t
  OBVIOUS
<1>4. ASSUME s # <<>> PROVE u[1] = s[1] /\ Len(u) # 0
  <2>1. 1 \in 1 .. Len(s) + Len(t) /\ 1 <= Len(s)
    BY <1>1, <1>4
  <2>2. QED
    BY <1>1, <1>2, <1>3, <2>1
<1>5. ASSUME t # <<>> PROVE u[Len(u)] = t[Len(t)] /\ Len(u) # 0
  <2>1. /\ Len(s) + Len(t) \in 1 .. Len(s) + Len(t)
        /\ ~(Len(s) + Len(t) <= Len(s))
        /\ (Len(s) + Len(t)) - Len(s) = Len(t)
    BY <1>1, <1>5
  <2>2. QED
    BY <1>1, <1>2, <1>3, <2>1
<1>6. Len(u) # 0 => u # <<>>
  OBVIOUS
<1>7. (s = <<>> => s \o t = t) /\ (t = <<>> => s \o t = s)
  BY ConcatEmptySeq
<1>8. QED
  BY <1>3, <1>4, <1>5, <1>6, <1>7

\* Nothing is enumerated by the empty page only if there is nothing.
LEMMA EmptyPage ==
  ASSUME NEW S, Enumerates(<<>>, S)
  PROVE  S = {}
<1>1. \A m \in S : \E i \in 1 .. 0 : TRUE
  BY DEF Enumerates
<1>2. 1 .. 0 = {}
  OBVIOUS
<1>3. QED
  BY <1>1, <1>2

\* An enumeration's range is the set.
LEMMA RangeEnumerated ==
  ASSUME NEW S, NEW s, Enumerates(s, S)
  PROVE  Range(s) = S
BY DEF Range, Enumerates

-----------------------------------------------------------------------------
(* The walks while others post *)

\* A step that leaves the posted messages alone, and gives a new one a time none
\* of them has passed, leaves every walk sound.
LEMMA WalksStay ==
  ASSUME TypeOK, TypeOK', UNCHANGED readerVars, NEW r \in Readers, WalkSound(r),
         \A m \in Messages : Posted(m) =>
           state'[m] = "posted" /\ room'[m] = room[m] /\ createdAt'[m] = createdAt[m],
         \A m \in Messages : state'[m] # "none" =>
           \/ state[m] # "none" /\ room'[m] = room[m] /\ createdAt'[m] = createdAt[m]
           \/ \A n \in Messages : Posted(n) => createdAt[n] <= createdAt'[m]
  PROVE  WalkSound(r)'
<1> DEFINE s == seen[r]
           W == Range(s)
           k == looksAt[r].room
<1>1. /\ seen' = seen /\ atEnd' = atEnd /\ atStart' = atStart /\ overtaken' = overtaken
      /\ looksAt' = looksAt
  BY DEF readerVars
<1>2. /\ Enumerates(s, W) /\ W \subseteq In(k)
      /\ Times /\ Times' /\ W \subseteq Messages
  BY DEF WalkSound, TypeOK, Times, In
<1>3. In(k) \subseteq In(k)' /\ \A m \in In(k) : m \in Messages /\ createdAt'[m] = createdAt[m]
  BY <1>1 DEF In, Posted
<1>4. \A m, n \in In(k) : Older(m, n)' <=> Older(m, n)
  BY <1>3 DEF Older
<1>5. Enumerates(s, W)'
  <2>1. ASSUME NEW i \in 1 .. Len(s), NEW j \in 1 .. Len(s), i < j
        PROVE  Older(s[i], s[j])'
    <3>1. s[i] \in W /\ s[j] \in W /\ Older(s[i], s[j])
      BY <1>2, <2>1 DEF Enumerates
    <3>2. QED
      BY <1>1, <1>2, <1>4, <3>1
  <2>2. QED
    BY <1>1, <1>2, <2>1 DEF Enumerates
<1>6. (W \subseteq In(k))'
  BY <1>1, <1>2, <1>3
<1>7. NoHole(r)'
  <2> SUFFICES ASSUME NEW m \in Messages, state'[m] # "none", room'[m] = k, Spans(s, m)'
               PROVE  \/ m \in W \cup overtaken[r]
                      \/ \E n \in W : createdAt'[n] = createdAt'[m]
    BY <1>1 DEF NoHole
  <2>0. s # <<>> /\ ~Older(m, s[1])' /\ ~Older(s[Len(s)], m)'
    BY <1>1 DEF Spans
  <2>1. s[1] \in W /\ s[Len(s)] \in W
    BY <1>2, <2>0, FirstAndLast
  <2>2. \A n \in W : createdAt'[n] = createdAt[n] /\ n \in Messages /\ Posted(n)
    BY <1>2, <1>3 DEF In
  <2>3. CASE state[m] # "none" /\ room'[m] = room[m] /\ createdAt'[m] = createdAt[m]
    <3>1. Spans(s, m)
      BY <1>1, <2>0, <2>1, <2>2, <2>3 DEF Spans, Older
    <3>2. QED
      BY <2>2, <2>3, <3>1 DEF WalkSound, NoHole
  <2>4. CASE \A n \in Messages : Posted(n) => createdAt[n] <= createdAt'[m]
    <3>1. createdAt'[s[Len(s)]] <= createdAt'[m]
      BY <2>1, <2>2, <2>4
    <3>2. ~(createdAt'[s[Len(s)]] < createdAt'[m])
      BY <1>1, <2>0 DEF Older
    <3>3. createdAt'[s[Len(s)]] \in Nat /\ createdAt'[m] \in Nat
      BY <1>2, <2>1 DEF Times
    <3>4. QED
      BY <2>1, <3>1, <3>2, <3>3
  <2>5. QED
    BY <2>3, <2>4
<1>8. NothingLost(r)'
  <2>1. s # <<>> => s[1] \in In(k)
    BY <1>2, FirstAndLast
  <2>2. QED
    BY <1>1, <1>3, <1>4, <2>1 DEF WalkSound, NothingLost
<1>9. QED
  BY <1>1, <1>5, <1>6, <1>7, <1>8 DEF WalkSound
-----------------------------------------------------------------------------
(* The walks while the reader reads *)

\* What a reader is shown is sound when it enumerates messages of the room and
\* leaves out, between its ends, only what the walk so far accounts for.
LEMMA ShowSound ==
  ASSUME TypeOK, NEW r \in Readers, NEW D, NEW shown,
         Enumerates(shown, D), D \subseteq In(looksAt[r].room), Show(r, shown),
         \A m \in In(looksAt[r].room) : Spans(shown, m) =>
           m \in D \cup overtaken[r] \/ \E n \in D : createdAt[n] = createdAt[m]
  PROVE  /\ seen'[r] = shown /\ Range(seen[r])' = D
         /\ Enumerates(seen[r], Range(seen[r]))'
         /\ (Range(seen[r]) \subseteq In(looksAt[r].room))'
         /\ NoHole(r)'
<1>1. /\ seen'[r] = shown /\ UNCHANGED <<messageVars, looksAt>>
      /\ overtaken'[r] = overtaken[r] \cup
           {m \in Messages : state[m] = "open" /\ room[m] = looksAt[r].room /\ Spans(shown, m)}
  BY DEF Show, TypeOK
<1>2. /\ now' = now /\ state' = state /\ room' = room /\ replyTo' = replyTo
      /\ createdAt' = createdAt /\ looksAt' = looksAt
  BY <1>1 DEF messageVars
<1>3. Range(shown) = D
  BY RangeEnumerated
<1>4. Range(seen[r])' = D
  BY <1>1, <1>3 DEF Range
<1>5. Enumerates(seen[r], Range(seen[r]))'
  BY <1>1, <1>2, <1>4 DEF Enumerates, Older
<1>6. (Range(seen[r]) \subseteq In(looksAt[r].room))'
  BY <1>2, <1>4 DEF In, Posted
<1>7. NoHole(r)'
  <2> SUFFICES ASSUME NEW m \in Messages, state[m] # "none",
                      room[m] = looksAt[r].room, Spans(shown, m)
               PROVE  m \in D \cup overtaken'[r] \/ \E n \in D : createdAt[n] = createdAt[m]
    BY <1>1, <1>2, <1>4 DEF NoHole, Spans, Older
  <2>1. CASE state[m] = "open"
    BY <1>1, <2>1
  <2>2. CASE state[m] = "posted"
    <3>1. m \in In(looksAt[r].room)
      BY <2>2 DEF In, Posted
    <3>2. QED
      BY <1>1, <3>1
  <2>3. QED
    BY <2>1, <2>2 DEF TypeOK
<1>8. QED
  BY <1>1, <1>4, <1>5, <1>6, <1>7

\* The first page of a room that is not empty.
LEMMA OpenSound ==
  ASSUME TypeOK, StartedFinite, NEW r \in Readers, WalkSound(r), Open(r)
  PROVE  WalkSound(r)' /\ seen'[r] \in Seq(Messages)
<1>0. PICK k : k = looksAt[r].room
  OBVIOUS
<1>1. /\ seen[r] = <<>> /\ In(k) # {}
      /\ atStart'[r] = In(k) /\ atEnd' = atEnd
      /\ Show(r, Sorted(Newest(In(k))))
  BY <1>0 DEF Open, TypeOK
<1>2. /\ Times /\ In(k) \subseteq Messages /\ IsFiniteSet(In(k))
      /\ Newest(In(k)) \subseteq In(k) /\ IsFiniteSet(Newest(In(k)))
  <2>1. Newest(In(k)) \in SUBSET In(k)
    BY DEF Newest
  <2>2. Times
    BY DEF TypeOK, Times
  <2>3. QED
    BY <2>1, <2>2, RoomsFinite
<1>3. PICK shown : shown = Sorted(Newest(In(k)))
  OBVIOUS
<1>4. Enumerates(shown, Newest(In(k)))
  BY <1>2, <1>3, SortedEnumerates
<1>5. /\ Newest(In(k)) # {}
      /\ \A m \in In(k) \ Newest(In(k)), n \in Newest(In(k)) : Older(m, n)
  BY <1>1, <1>2, PagesCutOff
<1>6. shown # <<>> /\ shown[1] \in Newest(In(k))
  <2>1. PICK n \in Newest(In(k)) : TRUE
    BY <1>5
  <2>2. PICK i \in 1 .. Len(shown) : shown[i] = n
    BY <1>4, <2>1 DEF Enumerates
  <2>3. shown # <<>>
    BY <2>2
  <2>4. QED
    BY <1>2, <1>4, <2>3, FirstAndLast
<1>7. \A m \in In(k) : Spans(shown, m) => m \in Newest(In(k))
  BY <1>5, <1>6 DEF Spans
<1>8. /\ seen'[r] = shown /\ Range(seen[r])' = Newest(In(k))
      /\ Enumerates(seen[r], Range(seen[r]))'
      /\ (Range(seen[r]) \subseteq In(looksAt[r].room))'
      /\ NoHole(r)'
  <2>1. Show(r, shown) /\ Newest(In(k)) \subseteq In(looksAt[r].room)
    BY <1>0, <1>1, <1>2, <1>3
  <2>2. \A m \in In(looksAt[r].room) : Spans(shown, m) =>
          m \in Newest(In(k)) \cup overtaken[r]
            \/ \E n \in Newest(In(k)) : createdAt[n] = createdAt[m]
    BY <1>0, <1>7
  <2>3. QED
    BY <1>4, <2>1, <2>2, ShowSound
<1>9. NothingLost(r)'
  <2>1. ~atEnd[r]
    BY <1>1 DEF WalkSound, NothingLost
  <2>2. /\ looksAt' = looksAt /\ createdAt' = createdAt /\ state' = state /\ room' = room
    BY <1>1 DEF Show, messageVars
  <2>3. In(k)' = In(k) /\ \A m, n : Older(m, n)' <=> Older(m, n)
    BY <2>2 DEF In, Posted, Older
  <2>4. \A m \in In(k) \ Newest(In(k)) : Older(m, shown[1])
    BY <1>5, <1>6
  <2>5. QED
    BY <1>0, <1>1, <1>6, <1>8, <2>1, <2>2, <2>3, <2>4 DEF NothingLost
<1>10. shown \in Seq(Messages)
  BY <1>2, <1>4 DEF Enumerates
<1>11. QED
  BY <1>8, <1>9, <1>10 DEF WalkSound
\* The page before what the walk holds: nothing lies between the two.
LEMMA PageBackSound ==
  ASSUME TypeOK, StartedFinite, NEW r \in Readers, WalkSound(r), PageBack(r)
  PROVE  WalkSound(r)' /\ seen'[r] \in Seq(Messages)
<1>0. PICK k : k = looksAt[r].room
  OBVIOUS
<1>1. PICK s : s = seen[r]
  OBVIOUS
<1>2. PICK W : W = Range(s)
  OBVIOUS
<1>3. PICK ahead : ahead = {m \in In(k) : Older(m, s[1])}
  OBVIOUS
<1>4. PICK page : page = Sorted(Newest(ahead))
  OBVIOUS
<1>5. /\ looksAt[r].back /\ s # <<>> /\ ~atEnd[r]
      /\ atEnd'[r] = (page = <<>>)
      /\ Show(r, page \o s)
      /\ atStart' = atStart
  BY <1>0, <1>1, <1>3, <1>4 DEF PageBack, TypeOK, Before
<1>6. /\ Enumerates(s, W) /\ W \subseteq In(k) /\ NoHole(r) /\ NothingLost(r)
  BY <1>0, <1>1, <1>2 DEF WalkSound
<1>7. /\ Times /\ In(k) \subseteq Messages /\ IsFiniteSet(In(k))
      /\ ahead \subseteq In(k) /\ IsFiniteSet(ahead)
      /\ Newest(ahead) \subseteq ahead /\ IsFiniteSet(Newest(ahead))
  <2>1. ahead \in SUBSET In(k)
    BY <1>3
  <2>2. Newest(ahead) \in SUBSET ahead
    BY DEF Newest
  <2>3. Times
    BY DEF TypeOK, Times
  <2>4. QED
    BY <2>1, <2>2, <2>3, RoomsFinite
<1>8. Enumerates(page, Newest(ahead))
  BY <1>4, <1>7, SortedEnumerates
<1>9. /\ s[1] \in W /\ s[Len(s)] \in W
      /\ \A n \in W : ~Older(n, s[1])
  BY <1>5, <1>6, <1>7, FirstAndLast
<1>10. /\ \A m \in ahead \ Newest(ahead), n \in Newest(ahead) : Older(m, n)
       /\ ahead # {} => Newest(ahead) # {}
  BY <1>7, PagesCutOff
<1>11. \A m \in Newest(ahead), n \in W : Older(m, n)
  <2> SUFFICES ASSUME NEW m \in Newest(ahead), NEW n \in W PROVE Older(m, n)
    OBVIOUS
  <2>1. Older(m, s[1]) /\ (s[1] = n \/ Older(s[1], n))
    BY <1>3, <1>6, <1>7, <1>9, OlderOrder
  <2>2. m \in Messages /\ n \in Messages /\ s[1] \in Messages
    BY <1>6, <1>7, <1>9
  <2>3. QED
    BY <1>7, <2>1, <2>2, OlderOrder
<1>12. PICK shown : shown = page \o s
  OBVIOUS
<1>13. PICK D : D = Newest(ahead) \cup W
  OBVIOUS
<1>14. Enumerates(shown, D)
  BY <1>6, <1>8, <1>11, <1>12, <1>13, JoinEnumerates
<1>15. /\ page = <<>> => shown = s /\ Newest(ahead) = {}
       /\ page # <<>> => shown[1] = page[1] /\ page[1] \in Newest(ahead)
       /\ shown[Len(shown)] = s[Len(s)] /\ shown # <<>>
  <2>1. page \in Seq(Messages) /\ s \in Seq(Messages)
    BY <1>6, <1>7, <1>8 DEF Enumerates
  <2>2. page = <<>> => Newest(ahead) = {}
    BY <1>8, EmptyPage
  <2>3. page # <<>> => page[1] \in Newest(ahead)
    BY <1>7, <1>8, FirstAndLast
  <2>4. QED
    BY <1>5, <1>12, <2>1, <2>2, <2>3, JoinEnds
<1>16. ASSUME NEW m \in In(k), Spans(shown, m)
       PROVE  m \in D \cup overtaken[r] \/ \E n \in D : createdAt[n] = createdAt[m]
  <2>0. ~Older(m, shown[1]) /\ ~Older(s[Len(s)], m)
    BY <1>15, <1>16 DEF Spans
  <2>1. CASE Older(m, s[1])
    <3>1. m \in ahead /\ page # <<>>
      BY <1>3, <1>10, <1>15, <2>1
    <3>2. m \in Newest(ahead)
      BY <1>10, <1>15, <2>0, <3>1
    <3>3. QED
      BY <1>13, <3>2
  <2>2. CASE ~Older(m, s[1])
    <3>1. Spans(s, m)
      BY <1>5, <2>0, <2>2 DEF Spans
    <3>2. m \in Messages /\ state[m] # "none" /\ room[m] = k
      BY DEF In, Posted
    <3>3. m \in W \cup overtaken[r] \/ \E n \in W : createdAt[n] = createdAt[m]
      BY <1>0, <1>1, <1>2, <1>6, <3>1, <3>2 DEF NoHole
    <3>4. QED
      BY <1>13, <3>3
  <2>3. QED
    BY <2>1, <2>2
<1>17. /\ seen'[r] = shown /\ Range(seen[r])' = D
       /\ Enumerates(seen[r], Range(seen[r]))'
       /\ (Range(seen[r]) \subseteq In(looksAt[r].room))'
       /\ NoHole(r)'
  <2>1. Show(r, shown) /\ D \subseteq In(looksAt[r].room)
    BY <1>0, <1>5, <1>6, <1>7, <1>12, <1>13
  <2>2. QED
    BY <1>0, <1>14, <1>16, <2>1, ShowSound
<1>18. NothingLost(r)'
  <2>1. /\ looksAt' = looksAt /\ createdAt' = createdAt /\ state' = state /\ room' = room
    BY <1>5 DEF Show, messageVars
  <2>2. In(k)' = In(k) /\ \A m, n : Older(m, n)' <=> Older(m, n)
    BY <2>1 DEF In, Posted, Older
  <2>3. ASSUME NEW m \in atStart[r]
        PROVE  m \in D \/ (m \in In(k) /\ page # <<>> /\ Older(m, shown[1]))
    <3>1. m \in W \/ (m \in In(k) /\ Older(m, s[1]))
      BY <1>0, <1>1, <1>2, <1>5, <1>6 DEF NothingLost
    <3>2. CASE m \in In(k) /\ Older(m, s[1])
      BY <1>3, <1>10, <1>13, <1>15, <3>2
    <3>3. QED
      BY <1>13, <3>1, <3>2
  <2>4. QED
    BY <1>0, <1>5, <1>15, <1>17, <2>1, <2>2, <2>3 DEF NothingLost
<1>19. shown \in Seq(Messages)
  BY <1>6, <1>7, <1>13, <1>14 DEF Enumerates
<1>20. QED
  BY <1>17, <1>18, <1>19 DEF WalkSound
\* The page after what the walk holds, the same from the other end.
LEMMA PageForwardSound ==
  ASSUME TypeOK, StartedFinite, NEW r \in Readers, WalkSound(r), PageForward(r)
  PROVE  WalkSound(r)' /\ seen'[r] \in Seq(Messages)
<1>0. PICK k : k = looksAt[r].room
  OBVIOUS
<1>1. PICK s : s = seen[r]
  OBVIOUS
<1>2. PICK W : W = Range(s)
  OBVIOUS
<1>3. PICK ahead : ahead = {m \in In(k) : Older(s[Len(s)], m)}
  OBVIOUS
<1>4. PICK page : page = Sorted(Oldest(ahead))
  OBVIOUS
<1>5. /\ ~looksAt[r].back /\ s # <<>>
      /\ atEnd'[r] = (page = <<>>)
      /\ Show(r, s \o page)
      /\ atStart' = atStart
  BY <1>0, <1>1, <1>3, <1>4 DEF PageForward, TypeOK, After
<1>6. /\ Enumerates(s, W) /\ W \subseteq In(k) /\ NoHole(r) /\ NothingLost(r)
  BY <1>0, <1>1, <1>2 DEF WalkSound
<1>7. /\ Times /\ In(k) \subseteq Messages /\ IsFiniteSet(In(k))
      /\ ahead \subseteq In(k) /\ IsFiniteSet(ahead)
      /\ Oldest(ahead) \subseteq ahead /\ IsFiniteSet(Oldest(ahead))
  <2>1. ahead \in SUBSET In(k)
    BY <1>3
  <2>2. Oldest(ahead) \in SUBSET ahead
    BY DEF Oldest
  <2>3. Times
    BY DEF TypeOK, Times
  <2>4. QED
    BY <2>1, <2>2, <2>3, RoomsFinite
<1>8. Enumerates(page, Oldest(ahead))
  BY <1>4, <1>7, SortedEnumerates
<1>9. /\ s[1] \in W /\ s[Len(s)] \in W
      /\ \A n \in W : ~Older(s[Len(s)], n)
  BY <1>5, <1>6, <1>7, FirstAndLast
<1>10. /\ \A m \in ahead \ Oldest(ahead), n \in Oldest(ahead) : Older(n, m)
       /\ ahead # {} => Oldest(ahead) # {}
  BY <1>7, PagesCutOff
<1>11. \A n \in W, m \in Oldest(ahead) : Older(n, m)
  <2> SUFFICES ASSUME NEW m \in Oldest(ahead), NEW n \in W PROVE Older(n, m)
    OBVIOUS
  <2>1. Older(s[Len(s)], m) /\ (s[Len(s)] = n \/ Older(n, s[Len(s)]))
    BY <1>3, <1>6, <1>7, <1>9, OlderOrder
  <2>2. m \in Messages /\ n \in Messages /\ s[Len(s)] \in Messages
    BY <1>6, <1>7, <1>9
  <2>3. QED
    BY <1>7, <2>1, <2>2, OlderOrder
<1>12. PICK shown : shown = s \o page
  OBVIOUS
<1>13. PICK D : D = W \cup Oldest(ahead)
  OBVIOUS
<1>14. Enumerates(shown, D)
  BY <1>6, <1>8, <1>11, <1>12, <1>13, JoinEnumerates
<1>15. /\ page = <<>> => shown = s /\ Oldest(ahead) = {}
       /\ page # <<>> => /\ shown[Len(shown)] = page[Len(page)]
                        /\ page[Len(page)] \in Oldest(ahead)
       /\ shown[1] = s[1] /\ shown # <<>>
  <2>1. page \in Seq(Messages) /\ s \in Seq(Messages)
    BY <1>6, <1>7, <1>8 DEF Enumerates
  <2>2. page = <<>> => Oldest(ahead) = {}
    BY <1>8, EmptyPage
  <2>3. page # <<>> => page[Len(page)] \in Oldest(ahead)
    BY <1>7, <1>8, FirstAndLast
  <2>4. QED
    BY <1>5, <1>12, <2>1, <2>2, <2>3, JoinEnds
<1>16. ASSUME NEW m \in In(k), Spans(shown, m)
       PROVE  m \in D \cup overtaken[r] \/ \E n \in D : createdAt[n] = createdAt[m]
  <2>0. ~Older(m, s[1]) /\ ~Older(shown[Len(shown)], m)
    BY <1>15, <1>16 DEF Spans
  <2>1. CASE Older(s[Len(s)], m)
    <3>1. m \in ahead /\ page # <<>>
      BY <1>3, <1>10, <1>15, <2>1
    <3>2. m \in Oldest(ahead)
      BY <1>10, <1>15, <2>0, <3>1
    <3>3. QED
      BY <1>13, <3>2
  <2>2. CASE ~Older(s[Len(s)], m)
    <3>1. Spans(s, m)
      BY <1>5, <2>0, <2>2 DEF Spans
    <3>2. m \in Messages /\ state[m] # "none" /\ room[m] = k
      BY DEF In, Posted
    <3>3. m \in W \cup overtaken[r] \/ \E n \in W : createdAt[n] = createdAt[m]
      BY <1>0, <1>1, <1>2, <1>6, <3>1, <3>2 DEF NoHole
    <3>4. QED
      BY <1>13, <3>3
  <2>3. QED
    BY <2>1, <2>2
<1>17. /\ seen'[r] = shown /\ Range(seen[r])' = D
       /\ Enumerates(seen[r], Range(seen[r]))'
       /\ (Range(seen[r]) \subseteq In(looksAt[r].room))'
       /\ NoHole(r)'
  <2>1. Show(r, shown) /\ D \subseteq In(looksAt[r].room)
    BY <1>0, <1>5, <1>6, <1>7, <1>12, <1>13
  <2>2. QED
    BY <1>0, <1>14, <1>16, <2>1, ShowSound
<1>18. NothingLost(r)'
  <2>1. looksAt' = looksAt
    BY <1>5 DEF Show
  <2>2. QED
    BY <1>5, <1>15, <1>17, <2>1 DEF NothingLost
<1>19. shown \in Seq(Messages)
  BY <1>6, <1>7, <1>13, <1>14 DEF Enumerates
<1>20. QED
  BY <1>17, <1>18, <1>19 DEF WalkSound
-----------------------------------------------------------------------------
(* The invariant holds *)

\* Nothing was begun and nobody has read anything.
LEMMA InitSound == Init => ChatIInv
<1> SUFFICES ASSUME Init PROVE ChatIInv
  OBVIOUS
<1>1. TypeOK
  <2>1. <<>> \in Seq(Messages)
    OBVIOUS
  <2>2. 1 \in 1 .. MaxTime /\ 0 \in 0 .. MaxTime
    OBVIOUS
  <2>3. QED
    BY <2>1, <2>2 DEF Init, TypeOK
<1>2. {m \in Messages : state[m] # "none"} = {}
  BY DEF Init
<1>3. StartedFinite
  BY <1>2, FS_EmptySet DEF StartedFinite
<1>4. ThreadsSound
  BY DEF Init, ThreadsSound
<1>5. ASSUME NEW r \in Readers PROVE WalkSound(r)
  <2>1. seen[r] = <<>> /\ atEnd[r] = FALSE /\ atStart[r] = {}
    BY DEF Init
  <2>2. Range(seen[r]) = {}
    <3>1. DOMAIN <<>> = {}
      OBVIOUS
    <3>2. QED
      BY <2>1, <3>1 DEF Range
  <2>3. Enumerates(seen[r], Range(seen[r]))
    <3>1. <<>> \in Seq({}) /\ Len(<<>>) = 0 /\ 1 .. 0 = {}
      OBVIOUS
    <3>2. QED
      BY <2>1, <2>2, <3>1 DEF Enumerates
  <2>4. QED
    BY <2>1, <2>2, <2>3 DEF WalkSound, NoHole, NothingLost, Spans
<1>6. QED
  BY <1>1, <1>3, <1>4, <1>5 DEF ChatIInv

\* One message's begin, commit or rollback, with what the three have in common.
LEMMA MessageStepSound ==
  ASSUME ChatIInv, NEW m \in Messages,
         Commit(m) \/ Fail(m) \/ \E k \in Rooms, q \in Messages \cup {None} : Post(m, k, q)
  PROVE  ChatIInv'
<1> USE DEF ChatIInv
<1>0. /\ UNCHANGED readerVars /\ now' = now
      /\ ~Posted(m)
      /\ \A n \in Messages \ {m} : /\ state'[n] = state[n] /\ room'[n] = room[n]
                                  /\ createdAt'[n] = createdAt[n] /\ replyTo'[n] = replyTo[n]
  BY DEF TypeOK, Commit, Fail, Post, Posted
<1>1. TypeOK'
  <2>1. CASE Commit(m)
    BY <2>1 DEF TypeOK, Commit, readerVars
  <2>2. CASE Fail(m)
    BY <2>2 DEF TypeOK, Fail, readerVars
  <2>3. ASSUME NEW k \in Rooms, NEW q \in Messages \cup {None}, Post(m, k, q)
        PROVE  TypeOK'
    BY <2>3 DEF TypeOK, Post, readerVars
  <2>4. QED
    BY <2>1, <2>2, <2>3
<1>2. StartedFinite'
  <2> DEFINE started == {n \in Messages : state[n] # "none"}
  <2>1. started' \in SUBSET (started \cup {m})
    BY <1>0
  <2>2. IsFiniteSet(started \cup {m})
    BY FS_AddElement DEF StartedFinite
  <2> HIDE DEF started
  <2>3. IsFiniteSet(started')
    BY <2>1, <2>2, FS_Subset
  <2>4. QED
    BY <2>3 DEF StartedFinite, started
<1>3. \A n \in Messages : \A k : n \in In(k) => n # m /\ n \in In(k)' /\ createdAt'[n] = createdAt[n]
  BY <1>0 DEF In, Posted
<1>4. ThreadsSound'
  <2> SUFFICES ASSUME NEW n \in Messages, state'[n] # "none"
               PROVE  /\ createdAt'[n] <= now
                      /\ replyTo'[n] # None => /\ replyTo'[n] \in In(room[n])'
                                               /\ createdAt'[replyTo'[n]] <= createdAt'[n]
    BY <1>0 DEF ThreadsSound
  <2>1. PICK k, q : k = room'[n] /\ q = replyTo'[n]
    OBVIOUS
  <2>2. In(room[n])' = In(k)'
    BY <2>1 DEF In
  <2>3. createdAt'[n] <= now /\ (q # None => q \in In(k) /\ createdAt[q] <= createdAt'[n])
    <3>1. CASE /\ state[n] # "none" /\ room'[n] = room[n] /\ replyTo'[n] = replyTo[n]
               /\ createdAt'[n] = createdAt[n]
      BY <2>1, <3>1 DEF ThreadsSound
    <3>2. ASSUME NEW l \in Rooms, NEW c \in Messages \cup {None}, Post(m, l, c), n = m
          PROVE  createdAt'[n] <= now /\ (q # None => q \in In(k) /\ createdAt[q] <= createdAt'[n])
      <4>1. k = l /\ q = c /\ createdAt'[n] = now
        BY <2>1, <3>2 DEF Post, TypeOK
      <4>2. q # None => q \in In(k)
        BY <3>2, <4>1 DEF Post, Quotable
      <4>3. now <= now
        BY DEF TypeOK
      <4>4. QED
        BY <4>1, <4>2, <4>3 DEF In, Posted, ThreadsSound
    <3>3. CASE Commit(m) /\ n = m
      BY <3>1, <3>3 DEF Commit, TypeOK
    <3>4. CASE Fail(m) /\ n = m
      BY <3>4 DEF Fail, TypeOK
    <3>5. CASE n # m
      BY <1>0, <3>1, <3>5
    <3>6. QED
      BY <3>2, <3>3, <3>4, <3>5
  <2>4. q # None => q \in In(k)' /\ createdAt'[q] <= createdAt'[n]
    <3>1. q \in In(k) => q \in Messages
      BY DEF In
    <3>2. QED
      BY <1>3, <2>3, <3>1
  <2>5. QED
    BY <2>1, <2>2, <2>3, <2>4
<1>5. ASSUME NEW r \in Readers PROVE WalkSound(r)'
  <2>1. \A n \in Messages : Posted(n) =>
          state'[n] = "posted" /\ room'[n] = room[n] /\ createdAt'[n] = createdAt[n]
    BY <1>0 DEF Posted
  <2>2. \A n \in Messages : state'[n] # "none" =>
          \/ state[n] # "none" /\ room'[n] = room[n] /\ createdAt'[n] = createdAt[n]
          \/ \A x \in Messages : Posted(x) => createdAt[x] <= createdAt'[n]
    <3> SUFFICES ASSUME NEW n \in Messages, state'[n] # "none"
                 PROVE  \/ state[n] # "none" /\ room'[n] = room[n] /\ createdAt'[n] = createdAt[n]
                        \/ \A x \in Messages : Posted(x) => createdAt[x] <= createdAt'[n]
      OBVIOUS
    <3>1. CASE n # m
      BY <1>0, <3>1
    <3>2. CASE Commit(m) /\ n = m
      BY <3>2 DEF Commit
    <3>3. CASE Fail(m) /\ n = m
      BY <3>3 DEF Fail, TypeOK
    <3>4. ASSUME NEW k \in Rooms, NEW q \in Messages \cup {None}, Post(m, k, q), n = m
          PROVE  \A x \in Messages : Posted(x) => createdAt[x] <= createdAt'[n]
      <4>1. createdAt'[n] = now
        BY <3>4 DEF Post, TypeOK
      <4>2. QED
        BY <4>1 DEF ThreadsSound, Posted
    <3>5. QED
      BY <3>1, <3>2, <3>3, <3>4
  <2>3. QED
    BY <1>0, <1>1, <2>1, <2>2, WalksStay
<1>6. QED
  BY <1>1, <1>2, <1>4, <1>5

\* A reader's step touches its own walk only.
LEMMA ReaderStepSound ==
  ASSUME ChatIInv, NEW r \in Readers, Open(r) \/ PageBack(r) \/ PageForward(r)
  PROVE  ChatIInv'
<1> USE DEF ChatIInv
<1>1. /\ UNCHANGED <<messageVars, looksAt>>
      /\ seen' = [seen EXCEPT ![r] = seen'[r]]
      /\ atEnd' = [atEnd EXCEPT ![r] = atEnd'[r]] /\ atEnd'[r] \in BOOLEAN
      /\ atStart' = [atStart EXCEPT ![r] = atStart'[r]] /\ atStart'[r] \in SUBSET Messages
      /\ overtaken' = [overtaken EXCEPT ![r] = overtaken'[r]] /\ overtaken'[r] \in SUBSET Messages
  <2>1. CASE Open(r)
    BY <2>1 DEF Open, Show, TypeOK, In
  <2>2. CASE PageBack(r)
    BY <2>2 DEF PageBack, Show, TypeOK
  <2>3. CASE PageForward(r)
    BY <2>3 DEF PageForward, Show, TypeOK
  <2>4. QED
    BY <2>1, <2>2, <2>3
<1>2. /\ now' = now /\ state' = state /\ room' = room /\ replyTo' = replyTo
      /\ createdAt' = createdAt /\ looksAt' = looksAt
  BY <1>1 DEF messageVars
<1>3. WalkSound(r)' /\ seen'[r] \in Seq(Messages)
  BY OpenSound, PageBackSound, PageForwardSound
<1>4. TypeOK'
  BY <1>1, <1>2, <1>3 DEF TypeOK
<1>5. StartedFinite'
  BY <1>2 DEF StartedFinite
<1>6. ThreadsSound'
  BY <1>2 DEF ThreadsSound, In, Posted
<1>7. ASSUME NEW x \in Readers, x # r PROVE WalkSound(x)'
  <2>1. /\ seen'[x] = seen[x] /\ atEnd'[x] = atEnd[x] /\ atStart'[x] = atStart[x]
        /\ overtaken'[x] = overtaken[x]
    BY <1>1, <1>7 DEF TypeOK
  <2>2. WalkSound(x)
    OBVIOUS
  <2>3. /\ \A m, n : Older(m, n)' <=> Older(m, n)
        /\ In(looksAt[x].room)' = In(looksAt[x].room)
        /\ Range(seen[x])' = Range(seen[x])
    BY <1>2, <2>1 DEF Older, In, Posted, Range
  <2>4. Enumerates(seen[x], Range(seen[x]))'
    BY <2>1, <2>2, <2>3 DEF WalkSound, Enumerates
  <2>5. NoHole(x)'
    BY <1>2, <2>1, <2>2, <2>3 DEF WalkSound, NoHole, Spans
  <2>6. NothingLost(x)'
    BY <1>2, <2>1, <2>2, <2>3 DEF WalkSound, NothingLost
  <2>7. QED
    BY <2>2, <2>3, <2>4, <2>5, <2>6 DEF WalkSound
<1>8. QED
  BY <1>3, <1>4, <1>5, <1>6, <1>7

\* Every step keeps the invariant.
LEMMA StepSound == ChatIInv /\ [Next]_vars => ChatIInv'
<1> SUFFICES ASSUME ChatIInv, [Next]_vars PROVE ChatIInv'
  OBVIOUS
<1>1. CASE Tick
  <2>1. now' \in 1 .. MaxTime /\ now <= now'
    BY <1>1 DEF Tick, ChatIInv, TypeOK
  <2>2. UNCHANGED <<state, room, replyTo, createdAt>> /\ UNCHANGED readerVars
    BY <1>1 DEF Tick
  <2>3. TypeOK'
    BY <2>1, <2>2 DEF ChatIInv, TypeOK, readerVars
  <2>4. StartedFinite'
    BY <2>2 DEF ChatIInv, StartedFinite
  <2>5. ThreadsSound'
    BY <2>1, <2>2 DEF ChatIInv, TypeOK, ThreadsSound, In, Posted
  <2>6. ASSUME NEW r \in Readers PROVE WalkSound(r)'
    BY <2>2, <2>3, WalksStay DEF ChatIInv, Posted
  <2>7. QED
    BY <2>3, <2>4, <2>5, <2>6 DEF ChatIInv
<1>2. ASSUME NEW m \in Messages, Commit(m) \/ Fail(m) PROVE ChatIInv'
  BY <1>2, MessageStepSound
<1>3. ASSUME NEW m \in Messages, NEW k \in Rooms, NEW q \in Messages \cup {None}, Post(m, k, q)
      PROVE  ChatIInv'
  BY <1>3, MessageStepSound
<1>4. ASSUME NEW r \in Readers, Open(r) \/ PageBack(r) \/ PageForward(r) PROVE ChatIInv'
  BY <1>4, ReaderStepSound
<1>5. CASE UNCHANGED vars
  BY <1>5 DEF vars, messageVars, readerVars, ChatIInv, TypeOK, StartedFinite, ThreadsSound,
              WalkSound, NoHole, NothingLost, Spans, Enumerates, In, Posted, Older
<1>6. QED
  BY <1>1, <1>2, <1>3, <1>4, <1>5 DEF Next

\* What was begun is sound, and so is every walk, in every reachable state.
THEOREM ChatSound == Spec => []ChatIInv
BY InitSound, StepSound, PTL DEF Spec

-----------------------------------------------------------------------------
(* What the runs check *)

\* Replies stay in their room, their quotes are there and not newer, and both
\* repositories answer every page alike.
THEOREM RepliesAndRepositories == Spec => []MessagesInv
<1>1. ASSUME ChatIInv PROVE MessagesInv
  <2>1. TypeOK /\ Times /\ StartedFinite
    BY <1>1 DEF ChatIInv, TypeOK, Times
  <2>2. RepliesStayInRoom
    BY <1>1 DEF ChatIInv, ThreadsSound, RepliesStayInRoom, Posted
  <2>3. RepositoriesAgree
    <3> SUFFICES ASSUME NEW k \in Rooms
                 PROVE  /\ MemNewest(k) = Sorted(Newest(In(k)))
                        /\ \A c \in Messages : /\ MemBefore(k, c) = Sorted(Before(k, c))
                                               /\ MemAfter(k, c) = Sorted(After(k, c))
      BY DEF RepositoriesAgree
    <3>1. ASSUME NEW c \in Messages
          PROVE  MemBefore(k, c) = Sorted(Before(k, c)) /\ MemAfter(k, c) = Sorted(After(k, c))
      BY <2>1, PagesAgree
    <3>2. MemNewest(k) = Sorted(Newest(In(k)))
      BY <2>1, NewestAgree
    <3>3. QED
      BY <3>1, <3>2
  <2>4. QED
    BY <2>1, <2>2, <2>3 DEF MessagesInv
<1>2. QED
  BY <1>1, ChatSound, PTL

\* No page repeats a message or shows it out of order.
THEOREM PagesInOrder == Spec => []PagesNeverRepeat
<1>1. ASSUME ChatIInv PROVE PagesNeverRepeat
  BY <1>1 DEF ChatIInv, WalkSound, Enumerates, PagesNeverRepeat
<1>2. QED
  BY <1>1, ChatSound, PTL

\* A walk back that reached the beginning has seen all that was there when it
\* began, and no walk leaves out anything but late posts and ties.
THEOREM PagesComplete == Spec => []PagesLeaveNoHole
<1>1. ASSUME ChatIInv PROVE PagesLeaveNoHole
  <2>1. BackwardWalkSeesAll
    BY <1>1 DEF ChatIInv, WalkSound, NothingLost, BackwardWalkSeesAll
  <2>2. SkipsOnlyLatePosts
    <3> SUFFICES ASSUME NEW r \in Readers, NEW m \in In(looksAt[r].room), Spans(seen[r], m)
                 PROVE  \/ m \in Range(seen[r]) \cup overtaken[r]
                        \/ \E n \in Range(seen[r]) : createdAt[n] = createdAt[m]
      BY DEF SkipsOnlyLatePosts
    <3>1. m \in Messages /\ state[m] # "none" /\ room[m] = looksAt[r].room
      BY DEF In, Posted
    <3>2. NoHole(r)
      BY <1>1 DEF ChatIInv, WalkSound
    <3>3. QED
      BY <3>1, <3>2 DEF NoHole
  <2>3. QED
    BY <2>1, <2>2 DEF PagesLeaveNoHole
<1>2. QED
  BY <1>1, ChatSound, PTL

-----------------------------------------------------------------------------
(* Reactions: the outbox underneath *)

USE ReactionsAssumption

\* The theorems about the outbox, for the instance of it that Reactions has.
P == INSTANCE OutboxProofs WITH
  Events <- Requests, Txs <- {{r} : r \in Requests}, Poison <- {}, Undecodable <- {}

\* Counting means the same everywhere.
LEMMA SameCardinality ==
  /\ \A S : O!Cardinality(S) = Cardinality(S)
  /\ \A S : P!Cardinality(S) = Cardinality(S)
BY DEF O!Cardinality, P!Cardinality, Cardinality

\* The instance satisfies what Outbox assumes of its constants.
LEMMA TxsAreRequests == P!OutboxAssumption
BY SameCardinality DEF P!OutboxAssumption

\* Each of the outbox's own steps, in the module and in its proofs.
LEMMA SameSteps ==
  /\ \A e : O!Insert(e) => P!Insert(e)
  /\ \A T : (O!Commit(T) => P!Commit(T)) /\ (O!Abort(T) => P!Abort(T))
  /\ \A p : /\ O!Claim(p) => P!Claim(p)
            /\ O!FinishBatch(p) => P!FinishBatch(p)
            /\ O!Wake(p) => P!Wake(p)
            /\ O!Start(p) => P!Start(p)
            /\ O!Fault(p) => P!Fault(p)
            /\ \A e : O!HandleOk(p, e) => P!HandleOk(p, e)
            /\ \A e : O!HandleFail(p, e) => P!HandleFail(p, e)
<1>1. /\ \A e : O!Insert(e) => P!Insert(e)
      /\ \A T : (O!Commit(T) => P!Commit(T)) /\ (O!Abort(T) => P!Abort(T))
  BY DEF O!Insert, P!Insert, O!Commit, P!Commit, O!Abort, P!Abort,
         O!procVars, P!procVars
<1>2. /\ \A S, n : O!FirstOf(S, n) = P!FirstOf(S, n)
      /\ O!Claimable = P!Claimable
  BY SameCardinality DEF O!FirstOf, P!FirstOf, O!Claimable, P!Claimable,
                         O!Pending, P!Pending, O!Locked, P!Locked
<1>3. ASSUME NEW p
      PROVE  /\ O!Claim(p) => P!Claim(p)
             /\ O!FinishBatch(p) => P!FinishBatch(p)
             /\ O!Start(p) => P!Start(p)
  <2>1. O!Claim(p) => P!Claim(p)
    BY <1>2, Zenon DEF O!Claim, P!Claim, O!rowVars, P!rowVars
  <2>2. O!FinishBatch(p) => P!FinishBatch(p)
    BY SameCardinality DEF O!FinishBatch, P!FinishBatch, O!Marked, P!Marked,
                           O!LeaveBatch, P!LeaveBatch
  <2>3. O!Start(p) => P!Start(p)
    BY DEF O!Start, P!Start, O!rowVars, P!rowVars
  <2>4. QED
    BY <2>1, <2>2, <2>3
<1>4. ASSUME NEW p
      PROVE  /\ O!Wake(p) => P!Wake(p)
             /\ O!Fault(p) => P!Fault(p)
  BY DEF O!Wake, P!Wake, O!WakeOnNotify, P!WakeOnNotify, O!Sweep, P!Sweep,
         O!ListenerDrops, P!ListenerDrops, O!Fault, P!Fault, O!BatchFails, P!BatchFails,
         O!Crash, P!Crash, O!LeaveBatch, P!LeaveBatch, O!rowVars, P!rowVars
<1>5. ASSUME NEW p, NEW e
      PROVE  /\ O!HandleOk(p, e) => P!HandleOk(p, e)
             /\ O!HandleFail(p, e) => P!HandleFail(p, e)
  BY <1>2 DEF O!HandleOk, P!HandleOk, O!HandleFail, P!HandleFail, O!Current, P!Current,
              O!rowVars, P!rowVars
<1>6. QED
  BY <1>1, <1>3, <1>4, <1>5

\* Every step of the composition is a step of the outbox or none.
LEMMA StepsOnOutbox == [ReactionsNext]_reactionVars => [P!Next]_(P!vars)
<1> SUFFICES ASSUME [ReactionsNext]_reactionVars PROVE P!Next \/ UNCHANGED outboxVars
  BY DEF outboxVars, P!vars, P!rowVars, P!procVars
<1>1. ASSUME NEW r \in Requests, Write(r) \/ CommitChange(r) \/ Refuse(r) \/ FailChange(r)
      PROVE  P!Next \/ UNCHANGED outboxVars
  <2>1. \/ P!Insert(r) \/ P!Commit({r}) \/ P!Abort({r})
        \/ UNCHANGED outboxVars
    BY <1>1, SameSteps DEF Write, CommitChange, Refuse, FailChange
  <2>2. {r} \in {{q} : q \in Requests} /\ r \in {r}
    OBVIOUS
  <2>3. QED
    BY <2>1, <2>2 DEF P!Next, P!Publish
<1>2. ASSUME NEW p \in Processors, NEW r \in Requests,
             ReadTally(p, r) \/ SendTally(p, r) \/ HandlerFails(p, r)
      PROVE  P!Next \/ UNCHANGED outboxVars
  <2>1. P!HandleOk(p, r) \/ P!HandleFail(p, r) \/ UNCHANGED outboxVars
    BY <1>2, SameSteps DEF ReadTally, SendTally, HandlerFails
  <2>2. QED
    BY <2>1 DEF P!Next, P!Handle
<1>3. ASSUME NEW p \in Processors, ProcessorStep(p) \/ Fault(p)
      PROVE  P!Next
  BY <1>3, SameSteps DEF ProcessorStep, Fault, P!Next
<1>4. CASE UNCHANGED reactionVars
  BY <1>4 DEF reactionVars
<1>5. QED
  BY <1>1, <1>2, <1>3, <1>4 DEF ReactionsNext

\* Reactions run on the outbox as it is, and with it on what OutboxProofs shows
\* (main.rs registers the chat broadcaster with the processor).
THEOREM ReactionsRunOnOutbox == ReactionsSpec => P!Spec
<1>1. ReactionsInit => P!Init
  BY DEF ReactionsInit, O!Init, P!Init
<1>2. QED
  BY <1>1, StepsOnOutbox, PTL DEF ReactionsSpec, P!Spec

\* Hence the claims are sound here.
LEMMA ClaimsHold == ReactionsSpec => []P!DeliveryInv
BY ReactionsRunOnOutbox, TxsAreRequests, P!ClaimsSafe, PTL

-----------------------------------------------------------------------------
(* Reactions: the events are the changes *)

\* The outbox's invariant, in the words of this module.
RowsSound ==
  /\ row \in [Requests -> P!RowStates] /\ id \in [Requests -> Nat] /\ lastId \in Nat
  /\ pc \in [Processors -> P!ProcStates]
  /\ batch \in [Processors -> SUBSET Requests]
  /\ todo \in [Processors -> SUBSET Requests]
  /\ delivered \in [Processors -> SUBSET Requests]
  /\ \A p \in Processors :
       /\ todo[p] \subseteq batch[p] /\ delivered[p] \subseteq batch[p] \ todo[p]
       /\ \A r \in batch[p] : row[r] = "pending"
       /\ pc[p] # "handling" => batch[p] = {}

\* What OutboxProofs shows of every state.
LEMMA DeliverySound == P!DeliveryInv => RowsSound
BY DEF P!DeliveryInv, P!TypeOK, P!ClaimsSound, P!Pending, RowsSound

RequestTypes ==
  /\ wanted \in [Requests -> [user : Users, added : BOOLEAN]]
  /\ rpc \in [Requests -> {"sent", "open", "done", "failed"}]
  /\ reactors \subseteq Users

\* The row has been inserted and not rolled back; it has been committed.
Written(r) == row[r] \in {"inserted", "pending", "processed", "pruned"}
Changed(r) == row[r] \in {"pending", "processed", "pruned"}

\* No two rows have one id.
IdsDistinct ==
  /\ \A r \in Requests : Written(r) => id[r] <= lastId
  /\ \A q, r \in Requests : (Written(q) /\ Written(r) /\ id[q] = id[r]) => q = r

\* A transaction that has written is the only one of its user, still changes
\* something, and is behind all the changes of that user.
RequestsSound ==
  \A r \in Requests :
    /\ rpc[r] = "sent" => row[r] = "none"
    /\ rpc[r] = "open" <=> row[r] = "inserted"
    /\ rpc[r] = "open" =>
         /\ Changes(r)
         /\ \A q \in Requests \ {r} : wanted[q].user = wanted[r].user =>
              rpc[q] # "open" /\ (Changed(q) => id[q] < id[r])

\* The changes of u in the order of their ids take turns.
ChangesBy(u) == {r \in Requests : wanted[r].user = u /\ Changed(r)}
TakeTurns(u) ==
  /\ \A r \in ChangesBy(u) :
       wanted[r].added <=> Cardinality({q \in ChangesBy(u) : id[q] < id[r]}) % 2 = 0
  /\ u \in reactors <=> Cardinality(ChangesBy(u)) % 2 = 1

ChangesInv ==
  /\ RequestTypes
  /\ IdsDistinct
  /\ RequestsSound
  /\ \A u \in Users : TakeTurns(u)

-----------------------------------------------------------------------------

\* A change more makes an even number odd and an odd one even.
LEMMA Parity ==
  \A n \in Nat : /\ (n + 1) % 2 = 0 <=> n % 2 = 1
                 /\ (n + 1) % 2 = 1 <=> n % 2 = 0
                 /\ n % 2 = 0 <=> n % 2 # 1
OBVIOUS

\* That the changes take turns is what Reactions says of its events.
LEMMA TurnsAreEvents == (\A u \in Users : TakeTurns(u)) <=> EventsMatchChanges
<1>1. \A u : ChangesOf(u) = ChangesBy(u)
  BY DEF ChangesOf, ChangesBy, Changed
<1>2. QED
  BY <1>1, SameCardinality DEF EventsMatchChanges, TakeTurns

\* What changes nothing in the events leaves them in turns.
LEMMA TurnsStay ==
  ASSUME UNCHANGED <<wanted, reactors>>,
         \A r \in Requests : (Changed(r)' <=> Changed(r)) /\ (Changed(r) => id'[r] = id[r]),
         NEW u \in Users, TakeTurns(u)
  PROVE  TakeTurns(u)'
<1>1. ChangesBy(u)' = ChangesBy(u)
  BY DEF ChangesBy
<1>2. ASSUME NEW r \in ChangesBy(u)
      PROVE  {q \in ChangesBy(u) : id[q] < id[r]} = {q \in ChangesBy(u) : id'[q] < id'[r]}
  BY DEF ChangesBy
<1>3. QED
  BY <1>1, <1>2 DEF TakeTurns

\* The steps of the processor and its handlers touch no request and finish only
\* committed rows.
LEMMA DeliveryEffect ==
  ASSUME RowsSound,
         \/ UNCHANGED reactionVars
         \/ \E p \in Processors : ProcessorStep(p) \/ Fault(p)
         \/ \E p \in Processors, r \in Requests :
              ReadTally(p, r) \/ SendTally(p, r) \/ HandlerFails(p, r)
  PROVE  /\ UNCHANGED <<id, lastId, wanted, rpc, reactors>>
         /\ \A r \in Requests :
              \/ row'[r] = row[r]
              \/ row[r] = "pending" /\ row'[r] = "processed"
              \/ row[r] = "processed" /\ row'[r] = "pruned"
<1>1. CASE UNCHANGED reactionVars
  BY <1>1 DEF reactionVars, outboxVars, requestVars
<1>2. ASSUME NEW p \in Processors, ProcessorStep(p)
      PROVE  /\ UNCHANGED <<id, lastId, wanted, rpc, reactors>>
             /\ \A r \in Requests :
                  \/ row'[r] = row[r]
                  \/ row[r] = "pending" /\ row'[r] = "processed"
                  \/ row[r] = "processed" /\ row'[r] = "pruned"
  <2>1. CASE O!Claim(p) \/ O!Start(p)
    BY <1>2, <2>1 DEF ProcessorStep, requestVars, O!Claim, O!Start, O!rowVars
  <2>2. CASE O!FinishBatch(p)
    BY <1>2, <2>2 DEF ProcessorStep, requestVars, O!FinishBatch, O!Marked, RowsSound
  <2>3. CASE O!Wake(p)
    BY <1>2, <2>3 DEF ProcessorStep, requestVars, O!Wake, O!WakeOnNotify, O!Sweep,
                      O!ListenerDrops, O!rowVars
  <2>4. QED
    BY <1>2, <2>1, <2>2, <2>3 DEF ProcessorStep
<1>3. ASSUME NEW p \in Processors, Fault(p)
      PROVE  UNCHANGED <<row, id, lastId, wanted, rpc, reactors>>
  BY <1>3 DEF Fault, requestVars, O!Fault, O!BatchFails, O!Crash, O!rowVars
<1>4. ASSUME NEW p \in Processors, NEW r \in Requests,
             ReadTally(p, r) \/ SendTally(p, r) \/ HandlerFails(p, r)
      PROVE  UNCHANGED <<row, id, lastId, wanted, rpc, reactors>>
  BY <1>4 DEF ReadTally, SendTally, HandlerFails, outboxVars, requestVars,
              O!HandleOk, O!HandleFail, O!rowVars
<1>5. QED
  BY <1>1, <1>2, <1>3, <1>4

\* So they leave the changes as they are.
LEMMA DeliveryChanges ==
  ASSUME ChangesInv, UNCHANGED <<id, lastId, wanted, rpc, reactors>>,
         \A r \in Requests :
           \/ row'[r] = row[r]
           \/ row[r] = "pending" /\ row'[r] = "processed"
           \/ row[r] = "processed" /\ row'[r] = "pruned"
  PROVE  ChangesInv'
<1>1. \A r \in Requests : /\ Changed(r)' <=> Changed(r)
                          /\ Written(r)' <=> Written(r)
                          /\ row'[r] = "none" <=> row[r] = "none"
                          /\ row'[r] = "inserted" <=> row[r] = "inserted"
  BY DEF Changed, Written
<1>2. RequestTypes' /\ IdsDistinct'
  BY <1>1 DEF ChangesInv, RequestTypes, IdsDistinct
<1>3. RequestsSound'
  BY <1>1 DEF ChangesInv, RequestsSound, Changes
<1>4. \A u \in Users : TakeTurns(u)'
  BY <1>1, TurnsStay DEF ChangesInv
<1>5. QED
  BY <1>2, <1>3, <1>4 DEF ChangesInv

\* A request that writes is alone with its user's row: an INSERT waits for every
\* transaction on it, and a DELETE that overtakes an INSERT finds no row.
LEMMA WriteChanges ==
  ASSUME RowsSound, ChangesInv, NEW r \in Requests, Write(r)
  PROVE  ChangesInv'
<1>1. /\ rpc[r] = "sent" /\ row[r] = "none" /\ UNCHANGED <<wanted, reactors>>
      /\ wanted[r] \in [user : Users, added : BOOLEAN]
  BY DEF Write, ChangesInv, RequestsSound, RequestTypes
<1>2. CASE Changes(r)
  <2>1. /\ row' = [row EXCEPT ![r] = "inserted"] /\ id' = [id EXCEPT ![r] = lastId + 1]
        /\ lastId' = lastId + 1 /\ rpc' = [rpc EXCEPT ![r] = "open"]
    BY <1>2 DEF Write, O!Insert
  <2>2. \A q \in Requests : /\ Changed(q)' <=> Changed(q)
                            /\ Changed(q) => Written(q) /\ q # r /\ id'[q] = id[q]
                            /\ Written(q)' <=> Written(q) \/ q = r
    BY <1>1, <2>1 DEF Changed, Written, RowsSound
  <2>3. RequestTypes'
    BY <1>1, <2>1 DEF ChangesInv, RequestTypes
  <2>4. IdsDistinct'
    BY <1>1, <2>1, <2>2 DEF ChangesInv, IdsDistinct, RowsSound, Written
  <2>5. ASSUME NEW q \in Requests, rpc[q] = "open", wanted[q].user = wanted[r].user
        PROVE  FALSE
    <3>1. q \in RowWriters(wanted[r].user)
      BY <2>5 DEF RowWriters
    <3>2. wanted[r].added = FALSE /\ wanted[q].added = TRUE
      BY <1>1, <3>1 DEF Write, Waits, ChangesInv, RequestTypes
    <3>3. Changes(q)
      BY <2>5 DEF ChangesInv, RequestsSound
    <3>4. wanted[r].user \in reactors
      BY <1>2, <3>2 DEF Changes
    <3>5. wanted[q].user \notin reactors
      BY <3>2, <3>3 DEF Changes
    <3>6. QED
      BY <2>5, <3>4, <3>5
  <2>6. RequestsSound'
    <3> SUFFICES ASSUME NEW q \in Requests
                 PROVE  /\ rpc'[q] = "sent" => row'[q] = "none"
                        /\ rpc'[q] = "open" <=> row'[q] = "inserted"
                        /\ rpc'[q] = "open" =>
                             /\ Changes(q)'
                             /\ \A x \in Requests \ {q} : wanted'[x].user = wanted'[q].user =>
                                  rpc'[x] # "open" /\ (Changed(x)' => id'[x] < id'[q])
      BY DEF RequestsSound
    <3>1. CASE q = r
      <4>1. Changes(q)'
        BY <1>1, <1>2, <3>1 DEF Changes
      <4>2. ASSUME NEW x \in Requests \ {q}, wanted[x].user = wanted[q].user
            PROVE  rpc'[x] # "open" /\ (Changed(x)' => id'[x] < id'[q])
        <5>1. rpc'[x] # "open"
          BY <2>1, <2>5, <3>1, <4>2 DEF ChangesInv, RequestTypes
        <5>2. Changed(x) => id[x] <= lastId
          BY <2>2 DEF ChangesInv, IdsDistinct
        <5>3. QED
          BY <2>1, <2>2, <3>1, <5>1, <5>2 DEF RowsSound
      <4>3. QED
        BY <1>1, <2>1, <3>1, <4>1, <4>2 DEF ChangesInv, RequestTypes, RowsSound
    <3>2. CASE q # r
      <4>1. rpc'[q] = rpc[q] /\ row'[q] = row[q] /\ id'[q] = id[q]
        BY <2>1, <3>2 DEF ChangesInv, RequestTypes, RowsSound
      <4>2. Changes(q)' <=> Changes(q)
        BY <1>1 DEF Changes
      <4>3. ASSUME rpc[q] = "open", NEW x \in Requests \ {q}, wanted[x].user = wanted[q].user
            PROVE  rpc'[x] # "open" /\ (Changed(x)' => id'[x] < id'[q])
        <5>1. x # r
          BY <2>5, <4>3
        <5>2. rpc'[x] = rpc[x]
          BY <2>1, <5>1 DEF ChangesInv, RequestTypes
        <5>3. QED
          BY <2>2, <4>1, <4>3, <5>2 DEF ChangesInv, RequestsSound
      <4>4. QED
        BY <1>1, <4>1, <4>2, <4>3 DEF ChangesInv, RequestsSound
    <3>3. QED
      BY <3>1, <3>2
  <2>7. \A u \in Users : TakeTurns(u)'
    BY <1>1, <2>2, TurnsStay DEF ChangesInv
  <2>8. QED
    BY <2>3, <2>4, <2>6, <2>7 DEF ChangesInv
<1>3. CASE ~Changes(r)
  <2>1. rpc' = [rpc EXCEPT ![r] = "done"] /\ UNCHANGED <<row, id, lastId>>
    BY <1>3 DEF Write, outboxVars
  <2>2. RequestTypes' /\ IdsDistinct'
    BY <1>1, <2>1 DEF ChangesInv, RequestTypes, IdsDistinct, Written
  <2>3. RequestsSound'
    BY <1>1, <2>1 DEF ChangesInv, RequestTypes, RequestsSound, Changes, Changed
  <2>4. \A u \in Users : TakeTurns(u)'
    BY <1>1, <2>1, TurnsStay DEF ChangesInv, Changed
  <2>5. QED
    BY <2>2, <2>3, <2>4 DEF ChangesInv
<1>4. QED
  BY <1>2, <1>3

\* A refused or failed request changes nothing.
LEMMA RefuseChanges ==
  ASSUME RowsSound, ChangesInv, NEW r \in Requests, Refuse(r) \/ FailChange(r)
  PROVE  ChangesInv'
<1>1. /\ UNCHANGED <<wanted, reactors, id, lastId>> /\ rpc' = [rpc EXCEPT ![r] = "failed"]
      /\ row[r] \in {"none", "inserted"} /\ row'[r] \in {"none", "aborted"}
      /\ \A q \in Requests \ {r} : row'[q] = row[q]
  <2>1. CASE Refuse(r)
    BY <2>1 DEF Refuse, outboxVars, ChangesInv, RequestsSound
  <2>2. CASE FailChange(r)
    BY <2>2 DEF FailChange, O!Abort, ChangesInv, RequestsSound
  <2>3. QED
    BY <2>1, <2>2
<1>2. \A q \in Requests : (Changed(q)' <=> Changed(q)) /\ (Written(q)' => Written(q))
  BY <1>1 DEF Changed, Written
<1>3. RequestTypes' /\ IdsDistinct'
  BY <1>1, <1>2 DEF ChangesInv, RequestTypes, IdsDistinct
<1>4. RequestsSound'
  <2>1. \A q \in Requests : /\ rpc'[q] = IF q = r THEN "failed" ELSE rpc[q]
                            /\ Changes(q)' <=> Changes(q)
    BY <1>1 DEF ChangesInv, RequestTypes, Changes
  <2>2. QED
    BY <1>1, <1>2, <2>1 DEF ChangesInv, RequestsSound
<1>5. \A u \in Users : TakeTurns(u)'
  BY <1>1, <1>2, TurnsStay DEF ChangesInv
<1>6. QED
  BY <1>3, <1>4, <1>5 DEF ChangesInv

\* The commit adds the change that is last by id, and the row follows it.
LEMMA CommitChanges ==
  ASSUME RowsSound, ChangesInv, NEW r \in Requests, CommitChange(r)
  PROVE  ChangesInv'
<1> DEFINE w == wanted[r].user
<1>1. /\ rpc[r] = "open" /\ row[r] = "inserted"
      /\ UNCHANGED <<wanted, id, lastId>> /\ rpc' = [rpc EXCEPT ![r] = "done"]
      /\ row'[r] = "pending" /\ \A q \in Requests \ {r} : row'[q] = row[q]
      /\ wanted[r] \in [user : Users, added : BOOLEAN] /\ w \in Users
      /\ Changes(r)
  BY DEF CommitChange, O!Commit, ChangesInv, RequestsSound, RequestTypes
<1>2. \A q \in Requests : /\ Changed(q)' <=> Changed(q) \/ q = r
                          /\ Written(q)' <=> Written(q)
  BY <1>1 DEF Changed, Written
<1>3. /\ w \in reactors' <=> ~(w \in reactors)
      /\ \A u \in Users \ {w} : u \in reactors' <=> u \in reactors
      /\ reactors' \subseteq Users
      /\ wanted[r].added <=> ~(w \in reactors)
  BY <1>1 DEF CommitChange, Changes, ChangesInv, RequestTypes
<1>4. RequestTypes' /\ IdsDistinct'
  BY <1>1, <1>2, <1>3 DEF ChangesInv, RequestTypes, IdsDistinct
<1>5. RequestsSound'
  <2>1. \A q \in Requests : rpc'[q] = IF q = r THEN "done" ELSE rpc[q]
    BY <1>1 DEF ChangesInv, RequestTypes
  <2>2. \A q \in Requests : rpc[q] = "open" /\ q # r => wanted[q].user \in Users \ {w}
    BY <1>1 DEF ChangesInv, RequestsSound, RequestTypes
  <2>3. \A q \in Requests : rpc[q] = "open" /\ q # r => (Changes(q)' <=> Changes(q))
    BY <1>1, <1>3, <2>2 DEF Changes
  <2>4. QED
    BY <1>1, <1>2, <2>1, <2>2, <2>3 DEF ChangesInv, RequestsSound
<1>6. ASSUME NEW u \in Users PROVE TakeTurns(u)'
  <2>1. CASE u # w
    <3>1. ChangesBy(u)' = ChangesBy(u)
      BY <1>1, <1>2, <2>1 DEF ChangesBy
    <3>2. TakeTurns(u)
      BY DEF ChangesInv
    <3>3. u \in reactors' <=> u \in reactors
      BY <1>3, <2>1
    <3>4. QED
      BY <1>1, <3>1, <3>2, <3>3 DEF TakeTurns
  <2>2. CASE u = w
    <3>1. /\ ChangesBy(u)' = ChangesBy(u) \cup {r} /\ r \notin ChangesBy(u)
          /\ \A q \in ChangesBy(u) : id[q] < id[r]
      BY <1>1, <1>2, <2>2 DEF ChangesBy, ChangesInv, RequestsSound, Changed
    <3>2. IsFiniteSet(ChangesBy(u)) /\ Cardinality(ChangesBy(u)) \in Nat
      BY FS_Subset, FS_CardinalityType DEF ChangesBy
    <3>3. Cardinality(ChangesBy(u) \cup {r}) = Cardinality(ChangesBy(u)) + 1
      BY <3>1, <3>2, FS_AddElement
    <3>4. TakeTurns(u)
      BY DEF ChangesInv
    <3>5. u \in reactors' <=> Cardinality(ChangesBy(u) \cup {r}) % 2 = 1
      BY <1>3, <2>2, <3>2, <3>3, <3>4, Parity DEF TakeTurns
    <3>6. ASSUME NEW x \in ChangesBy(u) \cup {r}
          PROVE  wanted[x].added <=> Cardinality({q \in ChangesBy(u) \cup {r} : id[q] < id[x]}) % 2 = 0
      <4>0. \A q \in Requests : id[q] \in Nat
        BY DEF RowsSound
      <4>1. CASE x = r
        <5>1. {q \in ChangesBy(u) \cup {r} : id[q] < id[x]} = ChangesBy(u)
          BY <3>1, <4>0, <4>1 DEF ChangesBy
        <5>2. QED
          BY <1>3, <2>2, <3>2, <3>4, <4>1, <5>1, Parity DEF TakeTurns
      <4>2. CASE x \in ChangesBy(u)
        <5>1. {q \in ChangesBy(u) \cup {r} : id[q] < id[x]} = {q \in ChangesBy(u) : id[q] < id[x]}
          BY <3>1, <4>0, <4>2 DEF ChangesBy
        <5>2. QED
          BY <3>4, <4>2, <5>1 DEF TakeTurns
      <4>3. QED
        BY <4>1, <4>2
    <3>7. QED
      BY <1>1, <3>1, <3>5, <3>6 DEF TakeTurns
  <2>3. QED
    BY <2>1, <2>2
<1>7. QED
  BY <1>4, <1>5, <1>6 DEF ChangesInv

\* Nothing was asked, written or changed at first.
LEMMA InitChanges == ReactionsInit => ChangesInv
<1> SUFFICES ASSUME ReactionsInit PROVE ChangesInv
  OBVIOUS
<1>1. \A r \in Requests : row[r] = "none" /\ rpc[r] = "sent"
  BY DEF ReactionsInit, O!Init
<1>2. RequestTypes /\ IdsDistinct /\ RequestsSound
  BY <1>1 DEF ReactionsInit, RequestTypes, IdsDistinct, RequestsSound, Written
<1>3. ASSUME NEW u \in Users PROVE TakeTurns(u)
  <2>1. ChangesBy(u) = {}
    BY <1>1 DEF ChangesBy, Changed
  <2>2. Cardinality({}) = 0
    BY FS_EmptySet
  <2>3. reactors = {} /\ 0 % 2 # 1
    BY DEF ReactionsInit
  <2>4. QED
    BY <2>1, <2>2, <2>3 DEF TakeTurns
<1>4. QED
  BY <1>2, <1>3 DEF ChangesInv

\* Every step keeps the events in turns.
LEMMA NextChanges ==
  ASSUME RowsSound, ChangesInv, [ReactionsNext]_reactionVars
  PROVE  ChangesInv'
<1>1. CASE \E r \in Requests : Write(r) \/ CommitChange(r) \/ Refuse(r) \/ FailChange(r)
  BY <1>1, WriteChanges, CommitChanges, RefuseChanges
<1>2. CASE \/ UNCHANGED reactionVars
           \/ \E p \in Processors : ProcessorStep(p) \/ Fault(p)
           \/ \E p \in Processors, r \in Requests :
                ReadTally(p, r) \/ SendTally(p, r) \/ HandlerFails(p, r)
  BY <1>2, DeliveryEffect, DeliveryChanges
<1>3. QED
  BY <1>1, <1>2 DEF ReactionsNext

\* What is recorded is what was changed, in every reachable state.
LEMMA ChangesSafe == ReactionsSpec => [](P!DeliveryInv /\ RowsSound /\ ChangesInv)
<1>2. RowsSound /\ ChangesInv /\ [ReactionsNext]_reactionVars => ChangesInv'
  BY NextChanges
<1>3. ReactionsSpec => []P!DeliveryInv
  BY ClaimsHold
<1>4. QED
  BY <1>2, <1>3, InitChanges, DeliverySound, PTL DEF ReactionsSpec

\* However requests of a user overlap, the events carry exactly the changes made,
\* an addition first and then in turns, and the last one says whether the
\* reaction is there (chat_message_repository.rs: "Only a real change is worth
\* an event"), with any number of processors.
THEOREM ReactionEventsMatch == ReactionsSpec => []EventsMatchChanges
<1>1. ChangesInv => EventsMatchChanges
  BY TurnsAreEvents DEF ChangesInv
<1>2. QED
  BY <1>1, ChangesSafe, PTL

-----------------------------------------------------------------------------
(* Reactions: what clients show *)

\* One process handles the events: with several, an older count or direction can
\* be the last one sent.
OneProcessor == \A p, q \in Processors : p = q

\* It is r's turn in p's batch: Outbox's Current without the counting.
Turn(p, r) == pc[p] = "handling" /\ r \in todo[p] /\ \A q \in todo[p] : id[r] <= id[q]

\* The change is processed; it is that or will be when its batch is finished; it
\* has yet to be handled.
Done(r) == row[r] \in {"processed", "pruned"}
Got(r)  == Done(r) \/ \E p \in Processors : r \in delivered[p]
Due(r)  == row[r] = "pending" /\ \A p \in Processors : r \notin delivered[p]

\* q is a change of r's user, before r.
Earlier(q, r) ==
  wanted[q].user = wanted[r].user /\ Changed(q) /\ Changed(r) /\ id[q] < id[r]

ClientTypes ==
  /\ stage \in [Processors -> {"idle", "read"}]
  /\ tally \in [Processors -> Counts]
  /\ count \in Counts
  /\ flag \in [Users -> BOOLEAN]
  /\ tripped \subseteq Users

\* The count clients show, or the one about to be sent, is current or a change
\* that will send another is still to come.
CountSound ==
  /\ count = Cardinality(reactors) \/ \E r \in Requests : Due(r)
  /\ \A p \in Processors : stage[p] = "read" =>
       \E r \in todo[p] :
         /\ Turn(p, r)
         /\ tally[p] = Cardinality(reactors) \/ \E q \in Requests \ {r} : Due(q)

\* A batch holds with a change all pending ones before it; what fell out of it
\* tripped the user; the changes of a user that never did are handled, and
\* finished, in their order.
OrderSound ==
  /\ \A p \in Processors : \A r \in batch[p], q \in Requests :
       Earlier(q, r) /\ row[q] = "pending" => q \in batch[p]
  /\ \A p \in Processors : \A r \in batch[p] \ (todo[p] \cup delivered[p]) :
       wanted[r].user \in tripped
  /\ \A q, r \in Requests : wanted[r].user \notin tripped /\ Earlier(q, r) =>
       (Done(r) => Done(q)) /\ (Got(r) => Got(q))

\* When all changes of such a user are handled the flag is right.
FlagSound ==
  \A u \in Users \ tripped :
    (\A r \in ChangesBy(u) : Got(r)) => (flag[u] <=> u \in reactors)

ClientsInv == ClientTypes /\ CountSound /\ OrderSound /\ FlagSound

-----------------------------------------------------------------------------

\* The first of a batch's rows by id is the one whose turn it is.
LEMMA CurrentTurn ==
  ASSUME RowsSound, NEW p \in Processors, NEW r, O!Current(p, r)
  PROVE  Turn(p, r) /\ r \in Requests /\ r \in batch[p] /\ row[r] = "pending" /\ r \notin delivered[p]
<1>1. /\ pc[p] = "handling" /\ r \in todo[p] /\ todo[p] \subseteq Requests
      /\ Cardinality({q \in todo[p] : id[q] < id[r]}) < 1
  BY SameCardinality DEF O!Current, O!FirstOf, RowsSound
<1>2. IsFiniteSet({q \in todo[p] : id[q] < id[r]})
  BY <1>1, FS_Subset
<1>3. {q \in todo[p] : id[q] < id[r]} = {}
  <2>1. Cardinality({q \in todo[p] : id[q] < id[r]}) = 0
    BY <1>1, <1>2, FS_CardinalityType
  <2>2. QED
    BY <1>2, <2>1, FS_EmptySet
<1>4. \A q \in todo[p] : id[r] <= id[q]
  BY <1>1, <1>3 DEF RowsSound
<1>5. QED
  BY <1>1, <1>4 DEF Turn, RowsSound

\* There is one at a time.
LEMMA TurnUnique ==
  ASSUME RowsSound, IdsDistinct, NEW p \in Processors, NEW q, NEW r, Turn(p, q), Turn(p, r)
  PROVE  q = r
<1>1. q \in Requests /\ r \in Requests /\ row[q] = "pending" /\ row[r] = "pending"
  BY DEF Turn, RowsSound
<1>2. id[q] <= id[r] /\ id[r] <= id[q] /\ id[q] \in Nat /\ id[r] \in Nat
  BY <1>1 DEF Turn, RowsSound
<1>3. QED
  BY <1>1, <1>2 DEF IdsDistinct, Written

\* The users that react are among the users.
LEMMA ReactorsCounted ==
  ASSUME RequestTypes
  PROVE  Cardinality(reactors) \in Counts /\ 0 \in Counts
<1>1. /\ IsFiniteSet(reactors) /\ Cardinality(reactors) \in Nat
      /\ Cardinality(Users) \in Nat /\ Cardinality(reactors) <= Cardinality(Users)
  BY FS_Subset, FS_CardinalityType DEF RequestTypes
<1>2. QED
  BY <1>1, SameCardinality DEF Counts

\* The last change of a user says whether the reaction is there.
LEMMA LastChangeDecides ==
  ASSUME RowsSound, NEW u \in Users, TakeTurns(u),
         NEW r \in ChangesBy(u), \A q \in ChangesBy(u) \ {r} : id[q] < id[r]
  PROVE  wanted[r].added <=> u \in reactors
<1>1. {q \in ChangesBy(u) : id[q] < id[r]} = ChangesBy(u) \ {r}
  BY DEF ChangesBy, RowsSound
<1>2. IsFiniteSet(ChangesBy(u)) /\ IsFiniteSet(ChangesBy(u) \ {r})
  BY FS_Subset DEF ChangesBy
<1>3. /\ Cardinality(ChangesBy(u) \ {r}) \in Nat
      /\ Cardinality(ChangesBy(u)) = Cardinality(ChangesBy(u) \ {r}) + 1
  <2>1. Cardinality(ChangesBy(u) \ {r}) = Cardinality(ChangesBy(u)) - 1
    BY <1>2, FS_RemoveElement
  <2>2. Cardinality(ChangesBy(u)) \in Nat /\ Cardinality(ChangesBy(u) \ {r}) \in Nat
    BY <1>2, FS_CardinalityType
  <2>3. QED
    BY <2>1, <2>2
<1>4. QED
  BY <1>1, <1>3, Parity DEF TakeTurns

\* What touches neither committed rows nor handlers nor clients leaves all as it
\* is.
LEMMA ClientsStay ==
  ASSUME RowsSound, ClientsInv,
         UNCHANGED <<pc, batch, todo, delivered, wanted, reactors, stage, tally, count, flag, tripped>>,
         \A r \in Requests : /\ Changed(r)' <=> Changed(r)
                             /\ Changed(r) => row'[r] = row[r] /\ id'[r] = id[r]
  PROVE  ClientsInv'
<1>1. \A r \in Requests : /\ Done(r)' <=> Done(r)
                          /\ Due(r)' <=> Due(r)
                          /\ row'[r] = "pending" <=> row[r] = "pending"
  BY DEF Done, Due, Changed
<1>2. \A r \in Requests : Got(r)' <=> Got(r)
  BY <1>1 DEF Got
<1>3. \A q, r \in Requests : Earlier(q, r)' <=> Earlier(q, r)
  BY DEF Earlier
<1>4. \A u : ChangesBy(u)' = ChangesBy(u)
  BY DEF ChangesBy
<1>5. \A p \in Processors : \A r \in todo[p] : Turn(p, r) => Turn(p, r)'
  BY DEF Turn, RowsSound, Changed
<1>6. ClientTypes'
  BY DEF ClientsInv, ClientTypes
<1>7. CountSound'
  BY <1>1, <1>5 DEF ClientsInv, CountSound
<1>8. OrderSound'
  BY <1>1, <1>2, <1>3 DEF ClientsInv, OrderSound, RowsSound
<1>9. FlagSound'
  BY <1>2, <1>4 DEF ClientsInv, FlagSound, ChangesBy
<1>10. QED
  BY <1>6, <1>7, <1>8, <1>9 DEF ClientsInv

\* A request that is written, refused or rolled back.
LEMMA WriteClients ==
  ASSUME RowsSound, ChangesInv, ClientsInv, NEW r \in Requests,
         Write(r) \/ Refuse(r) \/ FailChange(r)
  PROVE  ClientsInv'
<1>1. UNCHANGED <<pc, batch, todo, delivered, wanted, reactors, stage, tally, count, flag, tripped>>
  BY DEF Write, Refuse, FailChange, O!Insert, O!Abort, O!procVars, outboxVars, clientVars
<1>2. \A q \in Requests : /\ Changed(q)' <=> Changed(q)
                          /\ Changed(q) => row'[q] = row[q] /\ id'[q] = id[q]
  <2>1. CASE Write(r)
    <3>1. row[r] = "none"
      BY <2>1 DEF Write, ChangesInv, RequestsSound
    <3>2. QED
      BY <2>1, <3>1 DEF Write, O!Insert, outboxVars, Changed, RowsSound
  <2>2. CASE Refuse(r)
    BY <2>2 DEF Refuse, outboxVars, Changed
  <2>3. CASE FailChange(r)
    BY <2>3 DEF FailChange, O!Abort, Changed, ChangesInv, RequestsSound
  <2>4. QED
    BY <2>1, <2>2, <2>3
<1>3. QED
  BY <1>1, <1>2, ClientsStay

\* A commit adds a change that is still to be handled, behind all of its user.
LEMMA CommitClients ==
  ASSUME RowsSound, ChangesInv, ClientsInv, NEW r \in Requests, CommitChange(r)
  PROVE  ClientsInv'
<1>1. /\ UNCHANGED <<id, pc, batch, todo, delivered, wanted, stage, tally, count, flag, tripped>>
      /\ rpc[r] = "open" /\ row[r] = "inserted"
      /\ row'[r] = "pending" /\ \A q \in Requests \ {r} : row'[q] = row[q]
      /\ \A u : u # wanted[r].user => (u \in reactors' <=> u \in reactors)
  BY DEF CommitChange, O!Commit, clientVars, ChangesInv, RequestsSound
<1>2. \A p \in Processors : r \notin batch[p] /\ r \notin todo[p] /\ r \notin delivered[p]
  BY <1>1 DEF RowsSound
<1>3. /\ Due(r)' /\ ~Got(r)'
      /\ \A q \in Requests \ {r} : /\ Done(q)' <=> Done(q)
                                   /\ Got(q)' <=> Got(q)
  BY <1>1, <1>2 DEF Due, Done, Got
<1>4. ClientTypes'
  BY <1>1 DEF ClientsInv, ClientTypes
<1>5. CountSound'
  <2>1. \A p \in Processors : \A q \in todo[p] : q # r /\ (Turn(p, q) => Turn(p, q)')
    BY <1>1, <1>2 DEF Turn
  <2>2. QED
    BY <1>1, <1>3, <2>1 DEF ClientsInv, CountSound
<1>6. \A q, x \in Requests : Earlier(q, x)' => (x = r \/ (Earlier(q, x) /\ q # r))
  BY <1>1 DEF Earlier, Changed, ChangesInv, RequestsSound, RowsSound
<1>7. OrderSound'
  <2>1. \A p \in Processors : \A x \in batch'[p], q \in Requests :
          Earlier(q, x)' /\ row'[q] = "pending" => q \in batch'[p]
    BY <1>1, <1>2, <1>6 DEF ClientsInv, OrderSound, RowsSound
  <2>2. \A q, x \in Requests : wanted'[x].user \notin tripped' /\ Earlier(q, x)' =>
          (Done(x)' => Done(q)') /\ (Got(x)' => Got(q)')
    BY <1>1, <1>3, <1>6 DEF ClientsInv, OrderSound, Got
  <2>3. QED
    BY <1>1, <2>1, <2>2 DEF ClientsInv, OrderSound
<1>8. FlagSound'
  <2> SUFFICES ASSUME NEW u \in Users, u \notin tripped, \A x \in ChangesBy(u)' : Got(x)'
               PROVE  flag[u] <=> u \in reactors'
    BY <1>1 DEF FlagSound
  <2>1. u # wanted[r].user
    BY <1>1, <1>3 DEF ChangesBy, Changed
  <2>2. \A x \in ChangesBy(u) : x \in ChangesBy(u)' /\ x # r
    BY <1>1, <2>1 DEF ChangesBy, Changed
  <2>3. QED
    BY <1>1, <1>3, <2>1, <2>2 DEF ClientsInv, FlagSound, ChangesBy
<1>9. QED
  BY <1>4, <1>5, <1>7, <1>8 DEF ClientsInv

\* The tally is read when it is the event's turn.
LEMMA ReadTallyClients ==
  ASSUME OneProcessor,
         RowsSound, ChangesInv, ClientsInv,
         NEW p \in Processors, NEW r \in Requests, ReadTally(p, r)
  PROVE  ClientsInv'
<1>1. /\ UNCHANGED <<row, id, pc, batch, todo, delivered, wanted, reactors, count, flag, tripped>>
      /\ stage' = [stage EXCEPT ![p] = "read"]
      /\ tally' = [tally EXCEPT ![p] = Cardinality(reactors)]
      /\ Turn(p, r) /\ r \in todo[p]
  <2>1. Tally(r) = Cardinality(reactors)
    BY SameCardinality DEF Tally
  <2>2. O!Current(p, r)
    BY DEF ReadTally
  <2>3. QED
    BY <2>1, <2>2, CurrentTurn DEF ReadTally, outboxVars, requestVars, clientVars, Turn
<1>2. ClientTypes'
  BY <1>1, ReactorsCounted DEF ClientsInv, ClientTypes, ChangesInv
<1>3. CountSound'
  <2>1. /\ \A q : Due(q)' <=> Due(q)
        /\ Turn(p, r)'
    BY <1>1 DEF Due, Turn
  <2>2. tally'[p] = Cardinality(reactors)
    BY <1>1 DEF ClientsInv, ClientTypes
  <2>3. \A q \in Processors : q = p
    BY DEF OneProcessor
  <2>4. QED
    BY <1>1, <2>1, <2>2, <2>3 DEF ClientsInv, CountSound
<1>4. OrderSound' /\ FlagSound'
  BY <1>1 DEF ClientsInv, OrderSound, FlagSound, Earlier, Done, Got, ChangesBy, Changed
<1>5. QED
  BY <1>2, <1>3, <1>4 DEF ClientsInv

\* Whatever is before the event whose turn it is has been handled, unless the
\* user was tripped.
LEMMA BeforeTurn ==
  ASSUME OneProcessor, RowsSound, ClientsInv, NEW p \in Processors, NEW r \in Requests, Turn(p, r),
         wanted[r].user \notin tripped, NEW q \in Requests, Earlier(q, r)
  PROVE  Got(q)
<1>1. CASE row[q] = "pending"
  <2>1. q \in batch[p]
    BY <1>1 DEF ClientsInv, OrderSound, Turn, RowsSound
  <2>2. q \notin todo[p]
    BY DEF Turn, Earlier, RowsSound
  <2>3. q \in delivered[p]
    BY <2>1, <2>2 DEF ClientsInv, OrderSound, Earlier
  <2>4. QED
    BY <2>3 DEF Got
<1>2. QED
  BY <1>1 DEF Got, Done, Earlier, Changed

\* What a handler's return changes in the outbox.
LEMMA ReturnEffect ==
  ASSUME RowsSound, NEW p \in Processors, NEW r \in Requests,
         O!HandleOk(p, r) \/ O!HandleFail(p, r)
  PROVE  /\ UNCHANGED <<row, id, pc, batch>>
         /\ Turn(p, r) /\ row[r] = "pending" /\ r \in batch[p] /\ r \notin delivered[p]
         /\ todo' = [todo EXCEPT ![p] = @ \ {r}]
         /\ delivered' = delivered \/ delivered' = [delivered EXCEPT ![p] = @ \cup {r}]
         /\ ~O!HandleFail(p, r) => delivered' = [delivered EXCEPT ![p] = @ \cup {r}]
         /\ O!HandleOk(p, r) => delivered' = [delivered EXCEPT ![p] = @ \cup {r}]
<1>1. O!Current(p, r)
  BY DEF O!HandleOk, O!HandleFail
<1>2. QED
  BY <1>1, CurrentTurn DEF O!HandleOk, O!HandleFail, O!rowVars

\* The broadcast, or a failure before it, ends the handler.
LEMMA ReturnClients ==
  ASSUME OneProcessor, RowsSound, ChangesInv, ClientsInv,
         NEW p \in Processors, NEW r \in Requests, SendTally(p, r) \/ HandlerFails(p, r)
  PROVE  ClientsInv'
<1> DEFINE w == wanted[r].user
<1>1. /\ UNCHANGED <<row, id, pc, batch>>
      /\ Turn(p, r) /\ row[r] = "pending" /\ r \in batch[p] /\ r \notin delivered[p]
      /\ todo' = [todo EXCEPT ![p] = @ \ {r}]
      /\ delivered' = delivered \/ delivered' = [delivered EXCEPT ![p] = @ \cup {r}]
  BY ReturnEffect DEF SendTally, HandlerFails
<1>2. /\ UNCHANGED <<wanted, reactors>>
      /\ stage' = [stage EXCEPT ![p] = "idle"] /\ tally' = [tally EXCEPT ![p] = 0]
      /\ \/ SendTally(p, r) /\ stage[p] = "read" /\ count' = tally[p]
              /\ flag' = [flag EXCEPT ![w] = wanted[r].added]
         \/ UNCHANGED <<count, flag>> /\ tripped' = tripped \cup {w}
      /\ \/ tripped' = tripped \cup {w}
         \/ tripped' = tripped /\ delivered' = [delivered EXCEPT ![p] = @ \cup {r}]
  BY ReturnEffect DEF SendTally, HandlerFails, Rest, requestVars, clientVars
<1>3. wanted[r] \in [user : Users, added : BOOLEAN] /\ w \in Users
  BY DEF ChangesInv, RequestTypes
<1>4. /\ \A x \in Processors : x = p
      /\ todo'[p] = todo[p] \ {r}
      /\ delivered'[p] = delivered[p] \/ delivered'[p] = delivered[p] \cup {r}
  BY <1>1 DEF OneProcessor, RowsSound
<1>5. ClientTypes'
  <2>1. 0 \in Counts
    BY ReactorsCounted DEF ChangesInv
  <2>2. QED
    BY <1>2, <1>3, <2>1 DEF ClientsInv, ClientTypes
<1>6. \A q \in Requests : /\ Done(q)' <=> Done(q)
                          /\ q # r => (Got(q)' <=> Got(q)) /\ (Due(q)' <=> Due(q))
                          /\ Got(q) => Got(q)'
  BY <1>1, <1>4 DEF Done, Got, Due
<1>7. ~Got(r) /\ Due(r)
  BY <1>1, <1>4 DEF Got, Done, Due
<1>8. CountSound'
  <2>1. stage'[p] # "read"
    BY <1>2 DEF ClientsInv, ClientTypes
  <2>2. CASE stage[p] = "read" /\ count' = tally[p]
    <3>1. PICK x \in todo[p] :
            /\ Turn(p, x)
            /\ tally[p] = Cardinality(reactors) \/ \E q \in Requests \ {x} : Due(q)
      BY <2>2 DEF ClientsInv, CountSound
    <3>2. x = r
      BY <1>1, <3>1, TurnUnique DEF ChangesInv
    <3>3. QED
      BY <1>2, <1>4, <1>6, <2>1, <2>2, <3>1, <3>2 DEF CountSound
  <2>3. CASE UNCHANGED count /\ delivered' = delivered
    <3>1. \A q \in Requests : Due(q)' <=> Due(q)
      BY <1>1, <2>3 DEF Due
    <3>2. QED
      BY <1>2, <1>4, <2>1, <2>3, <3>1 DEF ClientsInv, CountSound
  <2>4. HandlerFails(p, r) => delivered' = delivered
    BY DEF HandlerFails, O!HandleFail
  <2>5. QED
    BY <1>2, <2>2, <2>3, <2>4 DEF SendTally, HandlerFails, clientVars
<1>9. \A q, x \in Requests : Earlier(q, x)' <=> Earlier(q, x)
  BY <1>1, <1>2 DEF Earlier, Changed
<1>10. OrderSound'
  <2>1. \A x \in batch[p], q \in Requests :
          Earlier(q, x) /\ row[q] = "pending" => q \in batch[p]
    BY DEF ClientsInv, OrderSound
  <2>2. ASSUME NEW x \in batch[p] \ (todo'[p] \cup delivered'[p])
        PROVE  wanted[x].user \in tripped'
    <3>1. CASE x = r
      <4>1. r \notin delivered'[p]
        BY <3>1
      <4>2. tripped' = tripped \cup {w}
        BY <1>2, <4>1 DEF RowsSound
      <4>3. QED
        BY <3>1, <4>2
    <3>2. CASE x # r
      BY <1>2, <1>4, <3>2 DEF ClientsInv, OrderSound
    <3>3. QED
      BY <3>1, <3>2
  <2>3. ASSUME NEW q \in Requests, NEW x \in Requests, wanted[x].user \notin tripped', Earlier(q, x)
        PROVE  (Done(x)' => Done(q)') /\ (Got(x)' => Got(q)')
    <3>1. wanted[x].user \notin tripped
      BY <1>2, <2>3
    <3>2. (Done(x) => Done(q)) /\ (Got(x) => Got(q))
      BY <2>3, <3>1 DEF ClientsInv, OrderSound
    <3>3. x = r => Got(q)
      BY <1>1, <2>3, <3>1, BeforeTurn
    <3>4. QED
      BY <1>6, <3>2, <3>3
  <2>4. \A x \in Processors : \A y \in batch'[x], q \in Requests :
          Earlier(q, y)' /\ row'[q] = "pending" => q \in batch'[x]
    BY <1>1, <1>4, <1>9, <2>1 DEF RowsSound
  <2>5. \A x \in Processors : \A y \in batch'[x] \ (todo'[x] \cup delivered'[x]) :
          wanted'[y].user \in tripped'
    BY <1>1, <1>2, <1>4, <2>2
  <2>6. QED
    BY <1>2, <1>9, <2>3, <2>4, <2>5 DEF OrderSound
<1>11. FlagSound'
  <2> SUFFICES ASSUME NEW u \in Users, u \notin tripped', \A x \in ChangesBy(u)' : Got(x)'
               PROVE  flag'[u] <=> u \in reactors
    BY <1>2 DEF FlagSound
  <2>1. ChangesBy(u)' = ChangesBy(u) /\ u \notin tripped
    BY <1>1, <1>2 DEF ChangesBy, Changed
  <2>2. CASE u # w
    <3>1. flag'[u] = flag[u]
      BY <1>2, <2>2 DEF ClientsInv, ClientTypes
    <3>2. \A x \in ChangesBy(u) : x # r /\ Got(x)
      BY <1>6, <2>1, <2>2 DEF ChangesBy
    <3>3. QED
      BY <2>1, <3>1, <3>2 DEF ClientsInv, FlagSound
  <2>3. CASE u = w
    <3>1. flag'[u] = wanted[r].added
      BY <1>2, <1>3, <2>3 DEF ClientsInv, ClientTypes
    <3>2. r \in ChangesBy(u)
      BY <1>1, <2>3 DEF ChangesBy, Changed
    <3>3. ASSUME NEW x \in ChangesBy(u) \ {r} PROVE id[x] < id[r]
      <4>1. Got(x) /\ x \in Requests
        BY <1>6, <2>1, <3>3 DEF ChangesBy
      <4>2. ~(id[r] < id[x])
        <5>1. id[r] < id[x] => Earlier(r, x)
          BY <2>3, <3>2, <3>3 DEF Earlier, ChangesBy
        <5>2. Earlier(r, x) => Got(r)
          BY <2>1, <2>3, <3>3, <4>1 DEF ClientsInv, OrderSound, ChangesBy
        <5>3. QED
          BY <1>7, <5>1, <5>2
      <4>3. id[x] # id[r]
        BY <3>2, <3>3 DEF ChangesInv, IdsDistinct, ChangesBy, Changed, Written
      <4>4. QED
        BY <4>1, <4>2, <4>3 DEF RowsSound
    <3>4. TakeTurns(u)
      BY DEF ChangesInv
    <3>5. QED
      BY <3>1, <3>2, <3>3, <3>4, LastChangeDecides
  <2>4. QED
    BY <2>2, <2>3
<1>12. QED
  BY <1>5, <1>8, <1>10, <1>11 DEF ClientsInv

\* Between two handlers nothing reaches the clients; it is enough that no event
\* is forgotten, none counts as handled that was not, and the batch is sound.
LEMMA BetweenHandlers ==
  ASSUME OneProcessor, ClientsInv, NEW p \in Processors,
         UNCHANGED <<id, wanted, reactors, count, flag, tripped>>,
         ClientTypes', stage'[p] # "read",
         \A r \in Requests : /\ Changed(r)' <=> Changed(r)
                             /\ Due(r) => Due(r)'
                             /\ Got(r)' => Got(r),
         \A q, r \in Requests : (Done(r) => Done(q)) /\ (Got(r) => Got(q)) =>
                                (Done(r)' => Done(q)') /\ (Got(r)' => Got(q)'),
         \A r \in batch'[p], q \in Requests :
           Earlier(q, r) /\ row'[q] = "pending" => q \in batch'[p],
         \A r \in batch'[p] \ (todo'[p] \cup delivered'[p]) : wanted[r].user \in tripped,
         batch' \in [Processors -> SUBSET Requests]
  PROVE  ClientsInv'
<1>1. \A x \in Processors : x = p
  BY DEF OneProcessor
<1>2. CountSound'
  BY <1>1 DEF ClientsInv, CountSound
<1>3. /\ \A q, r \in Requests : Earlier(q, r)' <=> Earlier(q, r)
      /\ \A u : ChangesBy(u)' = ChangesBy(u)
  BY DEF Earlier, ChangesBy
<1>4. OrderSound'
  <2>1. \A x \in Processors : \A r \in batch'[x], q \in Requests :
          Earlier(q, r)' /\ row'[q] = "pending" => q \in batch'[x]
    BY <1>1, <1>3
  <2>2. \A x \in Processors : \A r \in batch'[x] \ (todo'[x] \cup delivered'[x]) :
          wanted'[r].user \in tripped'
    BY <1>1
  <2>3. \A q, r \in Requests : wanted'[r].user \notin tripped' /\ Earlier(q, r)' =>
          (Done(r)' => Done(q)') /\ (Got(r)' => Got(q)')
    BY <1>3 DEF ClientsInv, OrderSound
  <2>4. QED
    BY <2>1, <2>2, <2>3 DEF OrderSound
<1>5. FlagSound'
  BY <1>3 DEF ClientsInv, FlagSound, ChangesBy
<1>6. QED
  BY <1>2, <1>4, <1>5 DEF ClientsInv

\* The claim takes the pending events in the order of their ids: what it leaves
\* is later than what it takes.
LEMMA ClaimClients ==
  ASSUME OneProcessor, RowsSound, ClientsInv,
         NEW p \in Processors, O!Claim(p), UNCHANGED <<requestVars, stage, tally, clientVars, tripped>>
  PROVE  ClientsInv'
<1> DEFINE S == {r \in Requests : row[r] = "pending"}
           First == {r \in S : Cardinality({q \in S : id[q] < id[r]}) < Batch}
<1>1. /\ pc[p] = "draining" /\ UNCHANGED <<row, id, delivered>>
      /\ batch' = [batch EXCEPT ![p] = O!FirstOf(O!Claimable, Batch)]
      /\ todo' = [todo EXCEPT ![p] = O!FirstOf(O!Claimable, Batch)]
  BY DEF O!Claim, O!rowVars
<1>2. \A x \in Processors : x = p /\ batch[x] = {}
  BY <1>1 DEF OneProcessor, RowsSound
<1>3. O!Claimable = S
  BY <1>2 DEF O!Claimable, O!Locked, O!Pending
<1>4. O!FirstOf(O!Claimable, Batch) = First
  BY <1>3, SameCardinality DEF O!FirstOf
<1>5. /\ batch'[p] = First /\ todo'[p] = First /\ First \subseteq Requests
      /\ batch' \in [Processors -> SUBSET Requests]
  BY <1>1, <1>4 DEF RowsSound
<1>6. Batch \in Nat
  OBVIOUS
<1>7. ASSUME NEW r \in First, NEW q \in Requests, Earlier(q, r), row'[q] = "pending"
      PROVE  q \in First
  <2>1. q \in S /\ r \in S /\ id[q] < id[r]
    BY <1>1, <1>7 DEF Earlier
  <2>2. {x \in S : id[x] < id[q]} \in SUBSET {x \in S : id[x] < id[r]}
    BY <2>1 DEF RowsSound
  <2>3. {x \in S : id[x] < id[r]} \in SUBSET Requests
    OBVIOUS
  <2> DEFINE A == {x \in S : id[x] < id[q]}
             B == {x \in S : id[x] < id[r]}
  <2>4. IsFiniteSet(A) /\ IsFiniteSet(B)
    BY <2>2, <2>3, FS_Subset
  <2>5. Cardinality(B) < Batch
    BY <1>7
  <2> HIDE DEF A, B
  <2>6. Cardinality(A) \in Nat /\ Cardinality(B) \in Nat /\ Cardinality(A) <= Cardinality(B)
    BY <2>2, <2>4, FS_Subset, FS_CardinalityType DEF A, B
  <2>7. Cardinality(A) < Batch
    BY <1>6, <2>5, <2>6
  <2>8. QED
    BY <2>1, <2>7 DEF A
<1>8. stage[p] # "read"
  BY <1>1 DEF ClientsInv, CountSound, Turn
<1>9. UNCHANGED <<wanted, reactors, stage, tally, count, flag, tripped>>
  BY DEF requestVars, clientVars
<1>10. ClientTypes'
  BY <1>9 DEF ClientsInv, ClientTypes
<1>11. \A r \in Requests : /\ Changed(r)' <=> Changed(r)
                           /\ Due(r)' <=> Due(r)
                           /\ Got(r)' <=> Got(r)
                           /\ Done(r)' <=> Done(r)
  BY <1>1 DEF Changed, Due, Got, Done
<1> HIDE DEF First
<1>12. /\ \A r \in batch'[p], q \in Requests :
            Earlier(q, r) /\ row'[q] = "pending" => q \in batch'[p]
       /\ batch'[p] \ (todo'[p] \cup delivered'[p]) = {}
  BY <1>5, <1>7
<1>13. QED
  BY <1>1, <1>5, <1>8, <1>9, <1>10, <1>11, <1>12, BetweenHandlers

\* Finishing a batch marks what was handled and gives the rest back,
LEMMA FinishClients ==
  ASSUME OneProcessor, RowsSound, ClientsInv, NEW p \in Processors, O!FinishBatch(p),
         UNCHANGED <<requestVars, stage, tally, clientVars, tripped>>
  PROVE  ClientsInv'
<1>1. /\ todo[p] = {} /\ id' = id
      /\ \A r \in Requests : row'[r] = IF r \in delivered[p] THEN "processed" ELSE row[r]
      /\ batch' = [batch EXCEPT ![p] = {}] /\ delivered' = [delivered EXCEPT ![p] = {}]
  BY DEF O!FinishBatch, O!Marked, O!LeaveBatch
<1>2. UNCHANGED <<wanted, reactors, stage, tally, count, flag, tripped>>
  BY DEF requestVars, clientVars
<1>3. /\ \A x \in Processors : x = p
      /\ batch'[p] = {} /\ delivered'[p] = {}
      /\ batch' \in [Processors -> SUBSET Requests]
      /\ \A r \in delivered[p] : row[r] = "pending"
  BY <1>1 DEF OneProcessor, RowsSound
<1>4. ClientTypes'
  BY <1>2 DEF ClientsInv, ClientTypes
<1>5. stage'[p] # "read"
  BY <1>1, <1>2 DEF ClientsInv, CountSound
<1>6. \A r \in Requests : /\ Changed(r)' <=> Changed(r)
                          /\ Due(r)' <=> Due(r)
                          /\ Got(r)' <=> Got(r)
                          /\ Done(r)' <=> Got(r)
  BY <1>1, <1>3 DEF Changed, Due, Got, Done
<1>7. QED
  BY <1>1, <1>2, <1>3, <1>4, <1>5, <1>6, BetweenHandlers

\* a fault gives everything back,
LEMMA FaultClients ==
  ASSUME OneProcessor, RowsSound, ChangesInv, ClientsInv,
         NEW p \in Processors, Fault(p)
  PROVE  ClientsInv'
<1>1. /\ UNCHANGED <<row, id, wanted, reactors, count, flag, tripped>>
      /\ batch' = [batch EXCEPT ![p] = {}] /\ delivered' = [delivered EXCEPT ![p] = {}]
      /\ stage' = [stage EXCEPT ![p] = "idle"] /\ tally' = [tally EXCEPT ![p] = 0]
  BY DEF Fault, Rest, O!Fault, O!BatchFails, O!Crash, O!LeaveBatch, O!rowVars,
         requestVars, clientVars
<1>2. /\ \A x \in Processors : x = p
      /\ batch'[p] = {} /\ delivered'[p] = {}
      /\ batch' \in [Processors -> SUBSET Requests]
      /\ \A r \in delivered[p] : row[r] = "pending"
  BY <1>1 DEF OneProcessor, RowsSound
<1>3. ClientTypes' /\ stage'[p] # "read"
  BY <1>1, ReactorsCounted DEF ClientsInv, ClientTypes, ChangesInv
<1>4. \A r \in Requests : /\ Changed(r)' <=> Changed(r)
                          /\ Due(r) => Due(r)'
                          /\ Got(r)' <=> Done(r)
                          /\ Done(r)' <=> Done(r)
                          /\ Done(r) => Got(r)
  BY <1>1, <1>2 DEF Changed, Due, Got, Done
<1>5. QED
  BY <1>1, <1>2, <1>3, <1>4, BetweenHandlers

\* and waking up, at the start or later, at most prunes.
LEMMA WakeClients ==
  ASSUME OneProcessor, RowsSound, ClientsInv, NEW p \in Processors,
         O!Wake(p) \/ O!Start(p), UNCHANGED <<requestVars, stage, tally, clientVars, tripped>>
  PROVE  ClientsInv'
<1>1. /\ UNCHANGED <<id, batch, todo, delivered>> /\ pc[p] # "handling"
      /\ \A r \in Requests : row'[r] = row[r] \/ (row[r] = "processed" /\ row'[r] = "pruned")
  <2>1. CASE O!WakeOnNotify(p) \/ O!ListenerDrops(p) \/ O!Start(p)
    BY <2>1 DEF O!WakeOnNotify, O!ListenerDrops, O!Start, O!rowVars
  <2>2. CASE O!Sweep(p)
    BY <2>2 DEF O!Sweep
  <2>3. QED
    BY <2>1, <2>2 DEF O!Wake
<1>2. UNCHANGED <<wanted, reactors, stage, tally, count, flag, tripped>>
  BY DEF requestVars, clientVars
<1>3. ClientTypes' /\ stage'[p] # "read"
  BY <1>1, <1>2 DEF ClientsInv, ClientTypes, CountSound, Turn
<1>4. \A r \in Requests : /\ Changed(r)' <=> Changed(r)
                          /\ Due(r)' <=> Due(r)
                          /\ Got(r)' <=> Got(r)
                          /\ Done(r)' <=> Done(r)
  BY <1>1 DEF Changed, Due, Got, Done
<1>5. batch[p] = {} /\ batch \in [Processors -> SUBSET Requests]
  BY <1>1 DEF RowsSound
<1>6. QED
  BY <1>1, <1>2, <1>3, <1>4, <1>5, BetweenHandlers

\* Nothing was changed, counted or shown at first.
LEMMA InitClients == ReactionsInit => ClientsInv
<1> SUFFICES ASSUME ReactionsInit PROVE ClientsInv
  OBVIOUS
<1>1. /\ \A r \in Requests : row[r] = "none"
      /\ \A p \in Processors : batch[p] = {} /\ stage[p] = "idle"
      /\ count = 0 /\ reactors = {}
  BY DEF ReactionsInit, O!Init
<1>2. ClientTypes
  <2>1. 0 \in Counts
    <3>1. Cardinality(Users) \in Nat
      BY FS_CardinalityType
    <3>2. QED
      BY <3>1, SameCardinality DEF Counts
  <2>2. QED
    BY <2>1 DEF ReactionsInit, ClientTypes
<1>3. CountSound
  <2>1. Cardinality({}) = 0
    BY FS_EmptySet
  <2>2. QED
    BY <1>1, <2>1 DEF CountSound
<1>4. OrderSound
  BY <1>1 DEF OrderSound, Earlier, Changed
<1>5. FlagSound
  BY <1>1 DEF ReactionsInit, FlagSound
<1>6. QED
  BY <1>2, <1>3, <1>4, <1>5 DEF ClientsInv

\* Every step keeps what the clients are owed.
LEMMA NextClients ==
  ASSUME OneProcessor, RowsSound, ChangesInv, ClientsInv, [ReactionsNext]_reactionVars
  PROVE  ClientsInv'
<1>1. ASSUME NEW r \in Requests, Write(r) \/ CommitChange(r) \/ Refuse(r) \/ FailChange(r)
      PROVE  ClientsInv'
  BY <1>1, WriteClients, CommitClients
<1>2. ASSUME NEW p \in Processors, NEW r \in Requests,
             ReadTally(p, r) \/ SendTally(p, r) \/ HandlerFails(p, r)
      PROVE  ClientsInv'
  BY <1>2, ReadTallyClients, ReturnClients
<1>3. ASSUME NEW p \in Processors, ProcessorStep(p) PROVE ClientsInv'
  BY <1>3, ClaimClients, FinishClients, WakeClients DEF ProcessorStep
<1>4. ASSUME NEW p \in Processors, Fault(p) PROVE ClientsInv'
  BY <1>4, FaultClients
<1>5. CASE UNCHANGED reactionVars
  <2>1. UNCHANGED <<row, id, pc, batch, todo, delivered, wanted, reactors, stage, tally, count, flag, tripped>>
    BY <1>5 DEF reactionVars, outboxVars, requestVars, clientVars
  <2>2. QED
    BY <2>1, ClientsStay DEF Changed
<1>6. QED
  BY <1>1, <1>2, <1>3, <1>4, <1>5 DEF ReactionsNext

\* All of it holds in every reachable state.
LEMMA ClientsSafe ==
  ASSUME OneProcessor
  PROVE  ReactionsSpec => [](P!DeliveryInv /\ RowsSound /\ ChangesInv /\ ClientsInv)
<1>1. RowsSound /\ ChangesInv /\ ClientsInv /\ [ReactionsNext]_reactionVars => ClientsInv'
  BY NextClients
<1>2. ReactionsInit => ClientsInv
  BY InitClients
<1>3. QED
  BY <1>1, <1>2, ChangesSafe, PTL DEF ReactionsSpec

\* When every change is delivered, clients show the committed count: what was
\* sent late or twice by a retried handler does not stay.
THEOREM ReactionsCounted ==
  ASSUME OneProcessor
  PROVE  ReactionsSpec => []ReactionsInv
<1>1. P!DeliveryInv /\ ChangesInv /\ ClientsInv => ReactionsTypeOK
  <2>1. P!DeliveryInv => O!TypeOK
    BY DEF P!DeliveryInv, P!TypeOK, O!TypeOK, P!RowStates, O!RowStates, P!ProcStates, O!ProcStates
  <2>2. QED
    BY <2>1 DEF ChangesInv, RequestTypes, ClientsInv, ClientTypes, ReactionsTypeOK
<1>2. ChangesInv => EventsMatchChanges
  BY TurnsAreEvents DEF ChangesInv
<1>3. ClientsInv => DrainedCountIsCurrent
  BY SameCardinality DEF ClientsInv, CountSound, Due, DrainedCountIsCurrent, Drained
<1>4. P!DeliveryInv /\ ChangesInv /\ ClientsInv => ReactionsInv
  BY <1>1, <1>2, <1>3 DEF ReactionsInv
<1>5. QED
  BY <1>4, ClientsSafe, PTL

\* And every user whose changes no handler failed to send sees its own reaction as
\* it is (broadcasters/chat.rs sends the direction with the user's id).
THEOREM FlagsFollow ==
  ASSUME OneProcessor
  PROVE  ReactionsSpec => []FlagWrongOnlyAfterFailure
<1>1. ClientsInv => FlagWrongOnlyAfterFailure
  <2> SUFFICES ASSUME ClientsInv, Drained, NEW u \in Users \ tripped
               PROVE  flag[u] <=> u \in reactors
    BY DEF FlagWrongOnlyAfterFailure
  <2>1. \A r \in ChangesBy(u) : Got(r)
    BY DEF ChangesBy, Changed, Got, Done, Drained
  <2>2. QED
    BY <2>1 DEF ClientsInv, FlagSound
<1>2. QED
  BY <1>1, ClientsSafe, PTL
=============================================================================

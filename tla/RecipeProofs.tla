---------------------------- MODULE RecipeProofs ----------------------------
(***************************************************************************)
(* What holds of SetCompilation for any texts, any recipes they may have   *)
(* been written from and any official lists.                               *)
(***************************************************************************)
EXTENDS SetCompilation, ListProofs, FunctionTheorems, FiniteSetTheorems

-----------------------------------------------------------------------------
(* Numbers in their order.                                                 *)

\* How many numbers of S there are up to i.
Rank(S, i) == Cardinality({j \in S : j <= i})

LEMMA RanksRise ==
    ASSUME NEW S, IsFiniteSet(S), S \subseteq Int
    PROVE  /\ Cardinality(S) \in Nat
           /\ \A i \in S : Rank(S, i) \in 1 .. Cardinality(S)
           /\ \A i, j \in S : i < j => Rank(S, i) < Rank(S, j)
<1> DEFINE Up(i) == {j \in S : j <= i}
<1>1. Cardinality(S) \in Nat
  BY FS_CardinalityType
<1>2. ASSUME NEW i \in S
      PROVE  IsFiniteSet(Up(i)) /\ Cardinality(Up(i)) \in 1 .. Cardinality(S)
  <2>1. Up(i) \in SUBSET S /\ i \in Up(i)
    OBVIOUS
  <2> HIDE DEF Up
  <2>2. IsFiniteSet(Up(i)) /\ Cardinality(Up(i)) <= Cardinality(S)
    BY <2>1, FS_Subset
  <2>3. Cardinality(Up(i)) \in Nat /\ Cardinality(Up(i)) # 0
    BY <2>1, <2>2, FS_CardinalityType, FS_EmptySet
  <2> QED
    BY <1>1, <2>2, <2>3
<1>3. ASSUME NEW i \in S, NEW j \in S, i < j PROVE Cardinality(Up(i)) < Cardinality(Up(j))
  <2>0. i \in Int /\ j \in Int /\ (\A k \in S : k \in Int) /\ i < j
    BY <1>3
  <2>1. Up(i) \in SUBSET Up(j) /\ j \in Up(j) /\ j \notin Up(i)
    <3>1. (\A k \in S : k <= i => k <= j) /\ j <= j /\ ~(j <= i)
      BY <2>0
    <3> QED
      BY <3>1
  <2>2. /\ IsFiniteSet(Up(j)) /\ Cardinality(Up(i)) \in 1 .. Cardinality(S)
        /\ Cardinality(Up(j)) \in 1 .. Cardinality(S)
    BY <1>2
  <2> HIDE DEF Up
  <2>3. Cardinality(Up(i)) <= Cardinality(Up(j)) /\ (Cardinality(Up(j)) = Cardinality(Up(i)) => Up(j) = Up(i))
    BY <2>1, <2>2, FS_Subset
  <2> QED
    BY <1>1, <2>1, <2>2, <2>3
<1> QED
  BY <1>1, <1>2, <1>3 DEF Rank

\* m lists the numbers of S, each once and in their order.
Ordered(m, S) ==
    /\ Listed(m) /\ \A n \in 1 .. Len(m) : m[n] \in S
    /\ \A k, n \in 1 .. Len(m) : k < n => m[k] < m[n]
    /\ \A i \in S : \E n \in 1 .. Len(m) : m[n] = i

\* InOrder lists a set's numbers, each once and in their order.
LEMMA InOrderFacts ==
    ASSUME NEW S, IsFiniteSet(S), S \subseteq Int
    PROVE  Ordered(InOrder(S), S) /\ Len(InOrder(S)) = Cardinality(S) /\ Cardinality(S) \in Nat
<1> DEFINE c == Cardinality(S)
           f == [i \in S |-> Rank(S, i)]
           m == InOrder(S)
<1>1. /\ c \in Nat /\ \A i \in S : Rank(S, i) \in 1 .. c
      /\ \A i, j \in S : i < j => Rank(S, i) < Rank(S, j)
  BY RanksRise
<1>2. \A i, j \in S : Rank(S, i) = Rank(S, j) => i = j
  <2> SUFFICES ASSUME NEW i \in S, NEW j \in S, Rank(S, i) = Rank(S, j) PROVE i = j
    OBVIOUS
  <2>1. i \in Int /\ j \in Int /\ Rank(S, i) \in Int /\ Rank(S, j) \in Int
    BY <1>1
  <2>2. ~(i < j) /\ ~(j < i)
    BY <1>1, <2>1
  <2> QED
    BY <2>1, <2>2
<1>3. f \in Injection(S, 1 .. c)
  BY <1>1, <1>2 DEF Injection, IsInjective
<1>4. IsFiniteSet(1 .. c) /\ Cardinality(1 .. c) = c
  BY <1>1, FS_Interval
<1>5. f \in Surjection(S, 1 .. c)
  BY <1>3, <1>4, FS_Injection
<1>6. ASSUME NEW n \in 1 .. c PROVE m[n] \in S /\ Rank(S, m[n]) = n
  <2>1. \E i \in S : Rank(S, i) = n
    BY <1>5 DEF Surjection
  <2>2. m[n] = CHOOSE i \in S : Rank(S, i) = n
    BY DEF InOrder, Rank
  <2> QED
    BY <2>1, <2>2
<1>7. m = [n \in 1 .. c |-> m[n]] /\ DOMAIN m = 1 .. c
  <2> DEFINE r(n) == CHOOSE i \in S : Cardinality({j \in S : j <= i}) = n
  <2>1. m = [n \in 1 .. c |-> r(n)]
    BY DEF InOrder
  <2> HIDE DEF m, r
  <2> QED
    BY <2>1
<1> HIDE DEF m
<1>8. Listed(m) /\ Len(m) = c
  BY <1>1, <1>7, IndexedListed
<1>9. \A k, n \in 1 .. c : k < n => m[k] < m[n]
  <2> SUFFICES ASSUME NEW k \in 1 .. c, NEW n \in 1 .. c, k < n PROVE m[k] < m[n]
    OBVIOUS
  <2>1. m[k] \in Int /\ m[n] \in Int /\ Rank(S, m[k]) = k /\ Rank(S, m[n]) = n
    BY <1>6
  <2>2. ~(m[n] < m[k]) /\ m[n] # m[k]
    BY <1>1, <1>6, <2>1
  <2> QED
    BY <2>1, <2>2
<1>10. \A i \in S : \E n \in 1 .. c : m[n] = i
  <2> SUFFICES ASSUME NEW i \in S PROVE m[Rank(S, i)] = i /\ Rank(S, i) \in 1 .. c
    OBVIOUS
  <2>1. Rank(S, i) \in 1 .. c
    BY <1>1
  <2>2. m[Rank(S, i)] \in S /\ Rank(S, m[Rank(S, i)]) = Rank(S, i)
    BY <1>6, <2>1
  <2> QED
    BY <1>2, <2>1, <2>2
<1> QED
  BY <1>1, <1>6, <1>8, <1>9, <1>10 DEF Ordered, m

\* There is only one such list.
LEMMA OrderedOnce ==
    ASSUME NEW S, S \subseteq Int, NEW m, NEW n, Ordered(m, S), Ordered(n, S)
    PROVE  m = n
<1>1. /\ Len(m) \in Nat /\ Len(n) \in Nat
      /\ \A i \in 1 .. Len(m) : m[i] \in Int
      /\ \A i \in 1 .. Len(n) : n[i] \in Int
  BY ListFacts DEF Ordered
<1> DEFINE Same(k) == k <= Len(m) \/ k <= Len(n) => k <= Len(m) /\ k <= Len(n) /\ m[k] = n[k]
           T == {k \in Nat : \A j \in 1 .. k : Same(j)}
<1>2. 0 \in T
  OBVIOUS
<1>3. ASSUME NEW k \in Nat, k \in T PROVE k + 1 \in T
  <2> SUFFICES ASSUME k + 1 <= Len(m) \/ k + 1 <= Len(n)
               PROVE  k + 1 <= Len(m) /\ k + 1 <= Len(n) /\ m[k + 1] = n[k + 1]
    BY <1>3
  <2>1. \A j \in 1 .. k : j <= Len(m) /\ j <= Len(n) /\ m[j] = n[j]
    BY <1>1, <1>3
  <2>2. ASSUME k + 1 <= Len(m)
        PROVE  k + 1 <= Len(n) /\ n[k + 1] <= m[k + 1]
    <3>1. k + 1 \in 1 .. Len(m) /\ m[k + 1] \in S
      BY <1>1, <2>2 DEF Ordered
    <3>2. PICK l \in 1 .. Len(n) : n[l] = m[k + 1]
      BY <3>1 DEF Ordered
    <3>3. l \notin 1 .. k
      <4> SUFFICES ASSUME l \in 1 .. k PROVE FALSE
        OBVIOUS
      <4>1. m[l] < m[k + 1] /\ m[l] = n[l]
        BY <1>1, <2>1, <3>1 DEF Ordered
      <4> QED
        BY <1>1, <3>1, <3>2, <4>1
    <3>4. k + 1 <= l /\ k + 1 \in 1 .. Len(n)
      BY <1>1, <3>2, <3>3
    <3>5. n[k + 1] < n[l] \/ k + 1 = l
      BY <1>1, <3>4 DEF Ordered
    <3> QED
      BY <1>1, <3>1, <3>2, <3>4, <3>5
  <2>3. ASSUME k + 1 <= Len(n)
        PROVE  k + 1 <= Len(m) /\ m[k + 1] <= n[k + 1]
    <3>1. k + 1 \in 1 .. Len(n) /\ n[k + 1] \in S
      BY <1>1, <2>3 DEF Ordered
    <3>2. PICK l \in 1 .. Len(m) : m[l] = n[k + 1]
      BY <3>1 DEF Ordered
    <3>3. l \notin 1 .. k
      <4> SUFFICES ASSUME l \in 1 .. k PROVE FALSE
        OBVIOUS
      <4>1. n[l] < n[k + 1] /\ m[l] = n[l]
        BY <1>1, <2>1, <3>1 DEF Ordered
      <4> QED
        BY <1>1, <3>1, <3>2, <4>1
    <3>4. k + 1 <= l /\ k + 1 \in 1 .. Len(m)
      BY <1>1, <3>2, <3>3
    <3>5. m[k + 1] < m[l] \/ k + 1 = l
      BY <1>1, <3>4 DEF Ordered
    <3> QED
      BY <1>1, <3>1, <3>2, <3>4, <3>5
  <2>4. k + 1 <= Len(m) /\ k + 1 <= Len(n)
    BY <2>2, <2>3
  <2>5. m[k + 1] \in Int /\ n[k + 1] \in Int /\ n[k + 1] <= m[k + 1] /\ m[k + 1] <= n[k + 1]
    BY <1>1, <2>2, <2>3, <2>4
  <2> QED
    BY <2>4, <2>5
<1> HIDE DEF T
<1>4. \A k \in Nat : k \in T
  BY <1>2, <1>3, Ascent
<1>5. \A k \in Nat \ {0} : Same(k)
  BY <1>4 DEF T
<1>6. Len(m) = Len(n)
  <2>1. Len(m) # 0 => Len(m) <= Len(n)
    BY <1>1, <1>5
  <2>2. Len(n) # 0 => Len(n) <= Len(m)
    BY <1>1, <1>5
  <2> QED
    BY <1>1, <2>1, <2>2
<1>7. \A k \in 1 .. Len(m) : m[k] = n[k]
  BY <1>1, <1>5
<1> QED
  BY <1>6, <1>7, SameLists DEF Ordered

\* What a list holds at some of its places.
LEMMA KeptFacts ==
    ASSUME NEW s, Listed(s), NEW S, S \subseteq 1 .. Len(s)
    PROVE  /\ IsFiniteSet(S) /\ Listed(Kept(s, S)) /\ Len(Kept(s, S)) = Cardinality(S)
           /\ Ordered(InOrder(S), S) /\ Len(InOrder(S)) = Cardinality(S) /\ Cardinality(S) \in Nat
           /\ \A n \in 1 .. Cardinality(S) : InOrder(S)[n] \in S /\ Kept(s, S)[n] = s[InOrder(S)[n]]
<1>1. IsFiniteSet(S) /\ S \subseteq Int
  <2>1. Len(s) \in Int /\ 1 \in Int
    BY ListFacts
  <2>2. IsFiniteSet(1 .. Len(s))
    BY <2>1, FS_Interval
  <2>3. S \in SUBSET (1 .. Len(s))
    OBVIOUS
  <2>4. IsFiniteSet(S)
    BY <2>2, <2>3, FS_Subset
  <2> QED
    BY <2>1, <2>4
<1>2. Ordered(InOrder(S), S) /\ Len(InOrder(S)) = Cardinality(S) /\ Cardinality(S) \in Nat
  BY <1>1, InOrderFacts
<1>3. DOMAIN InOrder(S) = 1 .. Cardinality(S) /\ \A n \in 1 .. Cardinality(S) : InOrder(S)[n] \in S
  BY <1>2, ListFacts DEF Ordered
<1>4. Kept(s, S) = [n \in 1 .. Cardinality(S) |-> s[InOrder(S)[n]]]
  BY <1>3 DEF Kept
<1> DEFINE k == Kept(s, S)
<1>5. k = [n \in 1 .. Cardinality(S) |-> k[n]] /\ DOMAIN k = 1 .. Cardinality(S)
  BY <1>4
<1>6. \A n \in 1 .. Cardinality(S) : k[n] = s[InOrder(S)[n]]
  BY <1>4
<1> HIDE DEF k
<1>7. Listed(k) /\ Len(k) = Cardinality(S)
  BY <1>2, <1>5, IndexedListed
<1> QED
  BY <1>1, <1>2, <1>3, <1>6, <1>7 DEF k

-----------------------------------------------------------------------------
(* Sums.                                                                   *)

IsRunning(f, w, n) == f = [i \in 0 .. n |-> IF i = 0 THEN 0 ELSE f[i-1] + w[i]]

LEMMA RunningExists ==
    ASSUME NEW w
    PROVE  \A n \in Nat : \E f : IsRunning(f, w, n)
<1> DEFINE S == {n \in Nat : \E f : IsRunning(f, w, n)}
<1>1. 0 \in S
  <2>1. IsRunning([i \in 0 .. 0 |-> 0], w, 0)
    BY DEF IsRunning
  <2> QED
    BY <2>1
<1>2. ASSUME NEW n \in Nat, n \in S PROVE n + 1 \in S
  <2>1. PICK f : IsRunning(f, w, n)
    BY <1>2
  <2> DEFINE g == [i \in 0 .. n + 1 |-> IF i = n + 1 THEN f[n] + w[n + 1] ELSE f[i]]
  <2>2. \A i \in 0 .. n + 1 : g[i] = IF i = 0 THEN 0 ELSE g[i-1] + w[i]
    BY <2>1 DEF IsRunning
  <2>3. IsRunning(g, w, n + 1)
    BY <2>2 DEF IsRunning
  <2> QED
    BY <2>3
<1> HIDE DEF S
<1>3. \A n \in Nat : n \in S
  BY <1>1, <1>2, Ascent
<1> QED
  BY <1>3 DEF S

\* f sums up the numbers of w.
Running(f, w) ==
    /\ f[0] = 0 /\ \A i \in 1 .. Len(w) : f[i] = f[i-1] + w[i]
    /\ \A i \in 0 .. Len(w) : f[i] \in Nat

LEMMA TotalFacts ==
    ASSUME NEW w, Listed(w), \A i \in 1 .. Len(w) : w[i] \in Nat
    PROVE  \E f : Running(f, w) /\ Total(w) = f[Len(w)]
<1> DEFINE f == CHOOSE f : IsRunning(f, w, Len(w))
<1>1. Len(w) \in Nat
  BY ListFacts
<1>2. IsRunning(f, w, Len(w))
  BY <1>1, RunningExists
<1>3. Total(w) = f[Len(w)]
  BY DEF Total, IsRunning
<1> HIDE DEF f
<1>4. f[0] = 0 /\ \A i \in 1 .. Len(w) : f[i] = f[i-1] + w[i]
  BY <1>1, <1>2 DEF IsRunning
<1> DEFINE S == {i \in Nat : i <= Len(w) => f[i] \in Nat}
<1>5. 0 \in S
  BY <1>4
<1>6. ASSUME NEW i \in Nat, i \in S PROVE i + 1 \in S
  <2> SUFFICES ASSUME i + 1 <= Len(w) PROVE f[i + 1] \in Nat
    OBVIOUS
  <2>1. i + 1 \in 1 .. Len(w) /\ f[i] \in Nat
    BY <1>1, <1>6
  <2>2. f[i + 1] = f[i + 1 - 1] + w[i + 1] /\ w[i + 1] \in Nat /\ i + 1 - 1 = i
    BY <1>4, <2>1
  <2> QED
    BY <2>1, <2>2
<1> HIDE DEF S
<1>7. \A i \in Nat : i \in S
  BY <1>5, <1>6, Ascent
<1>8. \A i \in 0 .. Len(w) : f[i] \in Nat
  BY <1>1, <1>7 DEF S
<1> QED
  BY <1>3, <1>4, <1>8 DEF Running

\* There is one way to sum up.
LEMMA RunningOnce ==
    ASSUME NEW w, NEW f, NEW g, Len(w) \in Nat, Running(f, w), Running(g, w)
    PROVE  \A i \in 0 .. Len(w) : f[i] = g[i]
<1> DEFINE S == {i \in Nat : i <= Len(w) => f[i] = g[i]}
<1>1. 0 \in S
  BY DEF Running
<1>2. ASSUME NEW i \in Nat, i \in S PROVE i + 1 \in S
  <2> SUFFICES ASSUME i + 1 <= Len(w) PROVE f[i + 1] = g[i + 1]
    OBVIOUS
  <2>1. i + 1 \in 1 .. Len(w) /\ f[i] = g[i] /\ i + 1 - 1 = i
    BY <1>2
  <2> QED
    BY <2>1 DEF Running
<1> HIDE DEF S
<1>3. \A i \in Nat : i \in S
  BY <1>1, <1>2, Ascent
<1> QED
  BY <1>3 DEF S

-----------------------------------------------------------------------------
(* Lists of lists.                                                         *)

IsFlat(f, ss, n) == f = [i \in 1 .. n |-> IF i = 1 THEN ss[i] ELSE f[i-1] \o ss[i]]

LEMMA FlatExists ==
    ASSUME NEW ss
    PROVE  \A n \in Nat : \E f : IsFlat(f, ss, n)
<1> DEFINE S == {n \in Nat : \E f : IsFlat(f, ss, n)}
<1>1. 0 \in S
  <2>1. IsFlat([i \in 1 .. 0 |-> 0], ss, 0)
    BY DEF IsFlat
  <2> QED
    BY <2>1
<1>2. ASSUME NEW n \in Nat, n \in S PROVE n + 1 \in S
  <2>1. PICK f : IsFlat(f, ss, n)
    BY <1>2
  <2> DEFINE last == IF n = 0 THEN ss[1] ELSE f[n] \o ss[n + 1]
             g == [i \in 1 .. n + 1 |-> IF i = n + 1 THEN last ELSE f[i]]
  <2>2. \A i \in 1 .. n : f[i] = IF i = 1 THEN ss[i] ELSE f[i-1] \o ss[i]
    BY <2>1 DEF IsFlat
  <2> HIDE DEF last
  <2>3. ASSUME NEW i \in 1 .. n + 1
        PROVE  g[i] = IF i = 1 THEN ss[i] ELSE g[i-1] \o ss[i]
    <3>1. CASE i = n + 1
      <4>1. g[i] = last /\ (i # 1 => g[i-1] = f[n])
        BY <3>1
      <4> QED
        BY <3>1, <4>1 DEF last
    <3>2. CASE i # n + 1
      <4>1. i \in 1 .. n /\ g[i] = f[i] /\ (i # 1 => g[i-1] = f[i-1])
        BY <3>2
      <4> QED
        BY <2>2, <4>1
    <3> QED
      BY <3>1, <3>2
  <2>4. g = [i \in 1 .. n + 1 |-> g[i]]
    OBVIOUS
  <2> HIDE DEF g
  <2>5. IsFlat(g, ss, n + 1)
    BY <2>3, <2>4 DEF IsFlat
  <2> QED
    BY <2>5
<1> HIDE DEF S
<1>3. \A n \in Nat : n \in S
  BY <1>1, <1>2, Ascent
<1> QED
  BY <1>3 DEF S

\* s is the first n lists of ss, one after the other, each ending where e says.
JoinedTo(s, ss, e, n) ==
    /\ Listed(s) /\ e[0] = 0 /\ \A i \in 0 .. n : e[i] \in Nat
    /\ \A i \in 1 .. n : e[i] = e[i-1] + Len(ss[i])
    /\ Len(s) = e[n]
    /\ \A i \in 1 .. n : \A k \in 1 .. Len(ss[i]) : s[e[i-1] + k] = ss[i][k]

Joined(s, ss, e) == JoinedTo(s, ss, e, Len(ss))

\* Two lists, place by place.
LEMMA ConcatFacts ==
    ASSUME NEW s, NEW t, Listed(s), Listed(t)
    PROVE  /\ Listed(s \o t) /\ Len(s \o t) = Len(s) + Len(t) /\ Len(s) \in Nat /\ Len(t) \in Nat
           /\ \A i \in 1 .. Len(s) : (s \o t)[i] = s[i]
           /\ \A k \in 1 .. Len(t) : (s \o t)[Len(s) + k] = t[k]
<1> DEFINE S == ToSet(s) \cup ToSet(t)
<1>1. s \in Seq(S) /\ t \in Seq(S)
  BY SeqMonotonic DEF Listed
<1> HIDE DEF S
<1>2. /\ s \o t \in Seq(S) /\ Len(s \o t) = Len(s) + Len(t)
      /\ \A i \in 1 .. Len(s) + Len(t) : (s \o t)[i] = IF i <= Len(s) THEN s[i] ELSE t[i - Len(s)]
  BY <1>1, ConcatProperties
<1>3. Len(s) \in Nat /\ Len(t) \in Nat
  BY ListFacts
<1>4. ASSUME NEW k \in 1 .. Len(t) PROVE (s \o t)[Len(s) + k] = t[k]
  <2>1. Len(s) + k \in 1 .. Len(s) + Len(t) /\ ~(Len(s) + k <= Len(s)) /\ Len(s) + k - Len(s) = k
    BY <1>3
  <2> QED
    BY <1>2, <2>1
<1>5. ASSUME NEW i \in 1 .. Len(s) PROVE (s \o t)[i] = s[i]
  <2>1. i \in 1 .. Len(s) + Len(t) /\ i <= Len(s)
    BY <1>3
  <2> QED
    BY <1>2, <2>1
<1>6. Listed(s \o t)
  BY ConcatListed
<1> QED
  BY <1>2, <1>3, <1>4, <1>5, <1>6

LEMMA JoinedFurther ==
    ASSUME NEW ss, NEW n \in Nat, Listed(ss[n + 1]), NEW s, NEW e, JoinedTo(s, ss, e, n)
    PROVE  \E g : JoinedTo(s \o ss[n + 1], ss, g, n + 1)
<1> DEFINE t == ss[n + 1]
           u == s \o t
           g == [i \in 0 .. n + 1 |-> IF i = n + 1 THEN e[n] + Len(t) ELSE e[i]]
<1>1. /\ Listed(u) /\ Len(u) = Len(s) + Len(t) /\ Len(s) \in Nat /\ Len(t) \in Nat
      /\ \A i \in 1 .. Len(s) : u[i] = s[i]
      /\ \A k \in 1 .. Len(t) : u[Len(s) + k] = t[k]
  <2>1. Listed(s) /\ Listed(t)
    BY DEF JoinedTo
  <2> HIDE DEF t
  <2> QED
    BY <2>1, ConcatFacts
<1>2. /\ Len(s) = e[n] /\ e[n] \in Nat /\ e[0] = 0 /\ \A i \in 0 .. n : e[i] \in Nat
      /\ \A i \in 1 .. n : e[i] = e[i-1] + Len(ss[i])
      /\ \A i \in 1 .. n : \A k \in 1 .. Len(ss[i]) : s[e[i-1] + k] = ss[i][k]
  BY DEF JoinedTo
<1>3. g[n + 1] = e[n] + Len(t) /\ \A i \in 0 .. n : g[i] = e[i]
  OBVIOUS
<1> HIDE DEF g, u
<1>4. g[0] = 0 /\ \A i \in 0 .. n + 1 : g[i] \in Nat
  <2>1. g[0] = e[0]
    BY <1>3
  <2>2. ASSUME NEW i \in 0 .. n + 1 PROVE g[i] \in Nat
    <3>1. CASE i = n + 1
      BY <1>1, <1>2, <1>3, <3>1
    <3>2. CASE i # n + 1
      <4>1. i \in 0 .. n
        BY <3>2
      <4>2. g[i] = e[i] /\ e[i] \in Nat
        BY <1>2, <1>3, <4>1
      <4> QED
        BY <4>2
    <3> QED
      BY <3>1, <3>2
  <2> QED
    BY <1>2, <2>1, <2>2
<1>5. ASSUME NEW i \in 1 .. n + 1
      PROVE  /\ g[i] = g[i-1] + Len(ss[i])
             /\ \A k \in 1 .. Len(ss[i]) : u[g[i-1] + k] = ss[i][k]
  <2>1. CASE i = n + 1
    <3>1. g[i-1] = e[n] /\ g[i] = e[n] + Len(t) /\ ss[i] = t
      BY <1>3, <2>1
    <3> QED
      BY <1>1, <1>2, <3>1
  <2>2. CASE i # n + 1
    <3>1. i \in 1 .. n /\ i - 1 \in 0 .. n
      BY <2>2
    <3>2. g[i] = e[i] /\ g[i-1] = e[i-1] /\ e[i] = e[i-1] + Len(ss[i]) /\ e[i] \in Nat /\ e[i-1] \in Nat
      BY <1>2, <1>3, <3>1
    <3>3. e[i] <= e[n]
      <4> DEFINE S == {m \in Nat : i + m <= n => e[i] <= e[i + m]}
      <4>1. 0 \in S
        BY <3>1, <3>2
      <4>2. ASSUME NEW m \in Nat, m \in S PROVE m + 1 \in S
        <5> SUFFICES ASSUME i + m + 1 <= n PROVE e[i] <= e[i + m + 1]
          BY <3>1
        <5>1. i + m \in 0 .. n /\ e[i] <= e[i + m]
          BY <3>1, <4>2
        <5>2. PICK j \in 1 .. n : j = i + m + 1
          BY <3>1, <4>2
        <5>3. PICK k \in 0 .. n : k = i + m /\ j - 1 = k
          BY <5>1, <5>2
        <5>8. e[j] = e[j-1] + Len(ss[j])
          BY <1>2
        <5>9. e[k] \in Nat
          BY <1>2
        <5>10. j \in 0 .. n
          OBVIOUS
        <5>11. e[j] \in Nat
          BY <1>2, <5>10
        <5>4. e[j] = e[j-1] + Len(ss[j]) /\ e[k] \in Nat /\ e[j] \in Nat
          BY <5>8, <5>9, <5>11
        <5>5. Len(ss[j]) \in Nat
          BY <1>2, <5>2
        <5>6. e[k] <= e[j]
          BY <5>3, <5>4, <5>5
        <5>7. e[i] \in Nat /\ e[i] <= e[k]
          BY <3>2, <5>1, <5>3
        <5> QED
          BY <5>2, <5>4, <5>6, <5>7
      <4> HIDE DEF S
      <4>3. \A m \in Nat : m \in S
        BY <4>1, <4>2, Ascent
      <4>4. n - i \in Nat /\ i + (n - i) = n
        BY <3>1
      <4> QED
        BY <4>3, <4>4 DEF S
    <3>4. ASSUME NEW k \in 1 .. Len(ss[i]) PROVE u[g[i-1] + k] = ss[i][k]
      <4>1. s[e[i-1] + k] = ss[i][k]
        BY <1>2, <3>1
      <4>3. Len(ss[i]) \in Nat
        BY <1>2, <3>1
      <4>4. PICK x \in Nat, y \in Nat, z \in Nat, m \in Nat :
                x = e[i-1] /\ y = e[i] /\ z = e[n] /\ m = Len(ss[i])
        BY <1>2, <3>2, <4>3
      <4>5. y = x + m /\ y <= z /\ k \in 1 .. m
        BY <3>2, <3>3, <4>4
      <4>6. x + k \in 1 .. z
        BY <4>5
      <4>2. e[i-1] + k \in 1 .. Len(s)
        BY <1>2, <4>4, <4>6
      <4>7. u[e[i-1] + k] = s[e[i-1] + k] /\ g[i-1] = e[i-1]
        BY <1>1, <3>2, <4>2
      <4> QED
        BY <4>1, <4>7
    <3> QED
      BY <3>2, <3>4
  <2> QED
    BY <2>1, <2>2
<1>6. Len(u) = g[n + 1]
  BY <1>1, <1>2, <1>3
<1>7. JoinedTo(u, ss, g, n + 1)
  BY <1>1, <1>4, <1>5, <1>6 DEF JoinedTo
<1> QED
  BY <1>7 DEF u


-----------------------------------------------------------------------------
(* Divisors.                                                               *)

\* The divisors for second numbers up to n.
IsDivisor(g, n) ==
    g = [pair \in Nat \X (0 .. n) |->
            IF pair[2] = 0 THEN pair[1] ELSE g[<<pair[2], pair[1] % pair[2]>>]]

LEMMA DivisorStep ==
    ASSUME NEW n, NEW g, IsDivisor(g, n), NEW a \in Nat, NEW b \in 0 .. n
    PROVE  g[<<a, b>>] = IF b = 0 THEN a ELSE g[<<b, a % b>>]
BY DEF IsDivisor

LEMMA DivisorExists ==
    \A n \in Nat : \E g : IsDivisor(g, n)
<1> DEFINE S == {n \in Nat : \E g : IsDivisor(g, n)}
<1>1. 0 \in S
  <2> DEFINE g == [pair \in Nat \X (0 .. 0) |-> pair[1]]
  <2>1. IsDivisor(g, 0)
    BY DEF IsDivisor
  <2> QED
    BY <2>1
<1>2. ASSUME NEW n \in Nat, n \in S PROVE n + 1 \in S
  <2>1. PICK g : IsDivisor(g, n)
    BY <1>2
  <2> DEFINE h == [pair \in Nat \X (0 .. n + 1) |->
                    IF pair[2] = n + 1 THEN g[<<n + 1, pair[1] % (n + 1)>>] ELSE g[pair]]
  <2>2. ASSUME NEW a \in Nat, NEW b \in 0 .. n
        PROVE  g[<<a, b>>] = IF b = 0 THEN a ELSE g[<<b, a % b>>]
    BY <2>1, DivisorStep
  <2>3. \A a \in Nat : h[<<a, n + 1>>] = g[<<n + 1, a % (n + 1)>>]
    OBVIOUS
  <2>4. \A a \in Nat, b \in 0 .. n : h[<<a, b>>] = g[<<a, b>>]
    OBVIOUS
  <2>5. h = [pair \in Nat \X (0 .. n + 1) |-> h[pair]]
    OBVIOUS
  <2> HIDE DEF h
  <2>6. ASSUME NEW a \in Nat, NEW b \in 0 .. n + 1
        PROVE  h[<<a, b>>] = IF b = 0 THEN a ELSE h[<<b, a % b>>]
    <3>1. CASE b = n + 1
      <4>1. a % (n + 1) \in 0 .. n /\ n + 1 \in Nat /\ b # 0
        BY <3>1
      <4>2. h[<<n + 1, a % (n + 1)>>] = g[<<n + 1, a % (n + 1)>>]
        BY <2>4, <4>1
      <4> QED
        BY <2>3, <3>1, <4>1, <4>2
    <3>2. CASE b \in 0 .. n
      <4>1. h[<<a, b>>] = g[<<a, b>>] /\ g[<<a, b>>] = IF b = 0 THEN a ELSE g[<<b, a % b>>]
        BY <2>2, <2>4, <3>2
      <4>2. b # 0 => b \in Nat /\ a % b \in 0 .. n
        BY <3>2
      <4>3. b # 0 => h[<<b, a % b>>] = g[<<b, a % b>>]
        BY <2>4, <4>2
      <4> QED
        BY <4>1, <4>3
    <3> QED
      BY <3>1, <3>2
  <2>7. \A pair \in Nat \X (0 .. n + 1) :
            h[pair] = IF pair[2] = 0 THEN pair[1] ELSE h[<<pair[2], pair[1] % pair[2]>>]
    <3> SUFFICES ASSUME NEW pair \in Nat \X (0 .. n + 1)
                 PROVE  h[pair] = IF pair[2] = 0 THEN pair[1] ELSE h[<<pair[2], pair[1] % pair[2]>>]
      OBVIOUS
    <3>1. pair[1] \in Nat /\ pair[2] \in 0 .. n + 1 /\ pair = <<pair[1], pair[2]>>
      OBVIOUS
    <3>2. h[<<pair[1], pair[2]>>] = IF pair[2] = 0 THEN pair[1] ELSE h[<<pair[2], pair[1] % pair[2]>>]
      BY <2>6, <3>1
    <3> QED
      BY <3>1, <3>2
  <2>8. IsDivisor(h, n + 1)
    BY <2>5, <2>7 DEF IsDivisor
  <2> QED
    BY <2>8
<1> HIDE DEF S
<1>3. \A n \in Nat : n \in S
  BY <1>1, <1>2, Ascent
<1> QED
  BY <1>3 DEF S

LEMMA DivisorOnce ==
    ASSUME NEW m \in Nat, NEW n \in Nat, NEW g, NEW h, IsDivisor(g, m), IsDivisor(h, n)
    PROVE  \A b \in Nat : b <= m /\ b <= n => \A a \in Nat : g[<<a, b>>] = h[<<a, b>>]
<1> DEFINE Same(b) == b <= m /\ b <= n => \A a \in Nat : g[<<a, b>>] = h[<<a, b>>]
           S == {b \in Nat : \A c \in 0 .. b : Same(c)}
<1>1. ASSUME NEW a \in Nat, NEW b \in Nat, b <= m, b <= n
      PROVE  /\ g[<<a, b>>] = IF b = 0 THEN a ELSE g[<<b, a % b>>]
             /\ h[<<a, b>>] = IF b = 0 THEN a ELSE h[<<b, a % b>>]
  <2>1. b \in 0 .. m /\ b \in 0 .. n
    BY <1>1
  <2> QED
    BY <2>1, DivisorStep
<1>2. ASSUME NEW b \in Nat, \A c \in 0 .. b - 1 : Same(c) PROVE Same(b)
  <2> SUFFICES ASSUME b <= m, b <= n, NEW a \in Nat PROVE g[<<a, b>>] = h[<<a, b>>]
    OBVIOUS
  <2>1. CASE b = 0
    BY <1>1, <2>1
  <2>2. CASE b # 0
    <3>1. a % b \in 0 .. b - 1 /\ a % b <= m /\ a % b <= n
      BY <2>2
    <3>2. g[<<b, a % b>>] = h[<<b, a % b>>]
      BY <1>2, <3>1
    <3> QED
      BY <1>1, <2>2, <3>2
  <2> QED
    BY <2>1, <2>2
<1> HIDE DEF Same
<1>3. 0 \in S
  <2>1. \A c \in 0 .. 0 - 1 : Same(c)
    OBVIOUS
  <2>2. Same(0)
    BY <1>2, <2>1
  <2> QED
    BY <2>2
<1>4. ASSUME NEW b \in Nat, b \in S PROVE b + 1 \in S
  <2>1. \A c \in 0 .. b + 1 - 1 : Same(c)
    BY <1>4
  <2>2. Same(b + 1)
    BY <1>2, <2>1
  <2> QED
    BY <1>4, <2>2
<1> HIDE DEF S
<1>5. \A b \in Nat : b \in S
  BY <1>3, <1>4, Ascent
<1>6. \A b \in Nat : Same(b)
  BY <1>5 DEF S
<1> QED
  BY <1>6 DEF Same

\* Euclid's algorithm gives a number.
LEMMA DivisorFacts ==
    \A a, b \in Nat : GreatestCommonDivisor[<<a, b>>] \in Nat
<1> DEFINE D(n) == CHOOSE g : IsDivisor(g, n)
           G == [pair \in Nat \X Nat |-> D(pair[2])[pair]]
           Recursive(f) == f = [pair \in Nat \X Nat |->
                                 IF pair[2] = 0 THEN pair[1] ELSE f[<<pair[2], pair[1] % pair[2]>>]]
           C == CHOOSE f : Recursive(f)
<1>1. \A n \in Nat : IsDivisor(D(n), n)
  BY DivisorExists
<1>2. \A a, b \in Nat : G[<<a, b>>] = D(b)[<<a, b>>]
  OBVIOUS
<1>3. G = [pair \in Nat \X Nat |-> G[pair]]
  OBVIOUS
<1> HIDE DEF D, G
<1>4. ASSUME NEW a \in Nat, NEW b \in Nat
      PROVE  G[<<a, b>>] = IF b = 0 THEN a ELSE G[<<b, a % b>>]
  <2>1. b \in 0 .. b
    OBVIOUS
  <2>2. D(b)[<<a, b>>] = IF b = 0 THEN a ELSE D(b)[<<b, a % b>>]
    BY <1>1, <2>1, DivisorStep
  <2>3. ASSUME b # 0 PROVE D(b)[<<b, a % b>>] = G[<<b, a % b>>]
    <3>1. a % b \in Nat /\ a % b <= b
      BY <2>3
    <3>2. IsDivisor(D(b), b) /\ IsDivisor(D(a % b), a % b)
      BY <1>1, <3>1
    <3>3. D(b)[<<b, a % b>>] = D(a % b)[<<b, a % b>>]
      BY <3>1, <3>2, DivisorOnce
    <3> QED
      BY <1>2, <3>1, <3>3
  <2> QED
    BY <1>2, <2>2, <2>3
<1>5. Recursive(G)
  <2>1. \A pair \in Nat \X Nat :
            G[pair] = IF pair[2] = 0 THEN pair[1] ELSE G[<<pair[2], pair[1] % pair[2]>>]
    <3> SUFFICES ASSUME NEW pair \in Nat \X Nat
                 PROVE  G[pair] = IF pair[2] = 0 THEN pair[1] ELSE G[<<pair[2], pair[1] % pair[2]>>]
      OBVIOUS
    <3>1. pair[1] \in Nat /\ pair[2] \in Nat /\ pair = <<pair[1], pair[2]>>
      OBVIOUS
    <3>2. G[<<pair[1], pair[2]>>] = IF pair[2] = 0 THEN pair[1] ELSE G[<<pair[2], pair[1] % pair[2]>>]
      BY <1>4, <3>1
    <3> QED
      BY <3>1, <3>2
  <2> QED
    BY <1>3, <2>1
<1>6. Recursive(C)
  BY <1>5
<1>7. GreatestCommonDivisor = C
  BY DEF GreatestCommonDivisor
<1> HIDE DEF C
<1>8. \A a, b \in Nat : C[<<a, b>>] = IF b = 0 THEN a ELSE C[<<b, a % b>>]
  BY <1>6
<1> DEFINE S == {b \in Nat : \A c \in 0 .. b : \A a \in Nat : C[<<a, c>>] \in Nat}
<1>9. 0 \in S
  <2>1. \A c \in 0 .. 0 : c = 0
    OBVIOUS
  <2>2. \A a \in Nat : C[<<a, 0>>] = a
    BY <1>8
  <2> QED
    BY <2>1, <2>2
<1>10. ASSUME NEW b \in Nat, b \in S PROVE b + 1 \in S
  <2>1. ASSUME NEW a \in Nat PROVE C[<<a, b + 1>>] \in Nat
    <3>1. a % (b + 1) \in 0 .. b /\ b + 1 \in Nat
      OBVIOUS
    <3>2. C[<<b + 1, a % (b + 1)>>] \in Nat
      BY <1>10, <3>1
    <3> QED
      BY <1>8, <3>1, <3>2
  <2> QED
    BY <1>10, <2>1
<1> HIDE DEF S
<1>11. \A b \in Nat : b \in S
  BY <1>9, <1>10, Ascent
<1>12. \A a, b \in Nat : C[<<a, b>>] \in Nat
  BY <1>11 DEF S
<1> QED
  BY <1>7, <1>12

IsDividing(f, layouts, n) ==
    f = [i \in 0 .. n |-> IF i = 0 THEN 0 ELSE GreatestCommonDivisor[<<f[i-1], layouts[i].weight>>]]

LEMMA DividingExists ==
    ASSUME NEW layouts
    PROVE  \A n \in Nat : \E f : IsDividing(f, layouts, n)
<1> DEFINE S == {n \in Nat : \E f : IsDividing(f, layouts, n)}
<1>1. 0 \in S
  <2>1. IsDividing([i \in 0 .. 0 |-> 0], layouts, 0)
    BY DEF IsDividing
  <2> QED
    BY <2>1
<1>2. ASSUME NEW n \in Nat, n \in S PROVE n + 1 \in S
  <2>1. PICK f : IsDividing(f, layouts, n)
    BY <1>2
  <2> DEFINE last == GreatestCommonDivisor[<<f[n], layouts[n + 1].weight>>]
             g == [i \in 0 .. n + 1 |-> IF i = n + 1 THEN last ELSE f[i]]
             Next(h, i) == GreatestCommonDivisor[<<h, layouts[i].weight>>]
  <2>2. \A i \in 0 .. n : f[i] = IF i = 0 THEN 0 ELSE Next(f[i-1], i)
    BY <2>1 DEF IsDividing
  <2>3. last = Next(f[n], n + 1)
    OBVIOUS
  <2> HIDE DEF last, Next
  <2>4. \A i \in 0 .. n + 1 : g[i] = IF i = 0 THEN 0 ELSE Next(g[i-1], i)
    BY <2>2, <2>3
  <2>5. g = [i \in 0 .. n + 1 |-> g[i]]
    OBVIOUS
  <2> HIDE DEF g
  <2>6. g = [i \in 0 .. n + 1 |-> IF i = 0 THEN 0 ELSE Next(g[i-1], i)]
    BY <2>4, <2>5
  <2>7. IsDividing(g, layouts, n + 1)
    BY <2>6 DEF IsDividing, Next
  <2> QED
    BY <2>7
<1> HIDE DEF S
<1>3. \A n \in Nat : n \in S
  BY <1>1, <1>2, Ascent
<1> QED
  BY <1>3 DEF S

\* The common divisor of weights that are numbers is one.
LEMMA CommonDivisorFacts ==
    ASSUME NEW layouts, Listed(layouts), \A i \in 1 .. Len(layouts) : layouts[i].weight \in Nat
    PROVE  CommonDivisor(layouts) \in Nat
<1> DEFINE f == CHOOSE f : IsDividing(f, layouts, Len(layouts))
<1>1. Len(layouts) \in Nat
  BY ListFacts
<1>2. IsDividing(f, layouts, Len(layouts))
  BY <1>1, DividingExists
<1>3. CommonDivisor(layouts) = f[Len(layouts)]
  BY DEF CommonDivisor, IsDividing
<1> HIDE DEF f
<1> DEFINE S == {i \in Nat : i <= Len(layouts) => f[i] \in Nat}
<1>4. 0 \in S
  BY <1>1, <1>2 DEF IsDividing
<1>5. ASSUME NEW i \in Nat, i \in S PROVE i + 1 \in S
  <2> SUFFICES ASSUME i + 1 <= Len(layouts) PROVE f[i + 1] \in Nat
    OBVIOUS
  <2>1. i + 1 \in 0 .. Len(layouts) /\ i + 1 # 0 /\ i + 1 - 1 = i /\ f[i] \in Nat
    BY <1>1, <1>5
  <2>2. f[i + 1] = GreatestCommonDivisor[<<f[i], layouts[i + 1].weight>>]
    BY <1>2, <2>1 DEF IsDividing
  <2>3. i + 1 \in 1 .. Len(layouts)
    BY <1>1
  <2>4. layouts[i + 1].weight \in Nat
    BY <2>3
  <2> QED
    BY <2>1, <2>2, <2>4, DivisorFacts
<1> HIDE DEF S
<1>6. \A i \in Nat : i \in S
  BY <1>4, <1>5, Ascent
<1> QED
  BY <1>1, <1>3, <1>6 DEF S

-----------------------------------------------------------------------------
(* The odds of the layouts.                                                *)

\* part is what t holds from place i on, n places long.
Stretch(t, i, n, part) ==
    /\ Listed(part) /\ Len(part) = n /\ i + n <= Len(t)
    /\ \A k \in 1 .. n : part[k] = t[i + k]

LEMMA PartFacts ==
    ASSUME NEW t, Listed(t), NEW b \in Nat, NEW n \in Nat, b + n <= Len(t),
           NEW u, u = SubSeq(t, b + 1, b + n)
    PROVE  Stretch(t, b, n, u)
<1> DEFINE S == ToSet(t)
<1>1. Len(t) \in Nat /\ \A i \in 1 .. Len(t) : t[i] \in S
  BY ListFacts
<1> HIDE DEF S
<1>2. PICK c \in Int, d \in Int : c = b + 1 /\ d = b + n
  OBVIOUS
<1>8. \A i \in c .. d : t[i] \in S
  BY <1>1, <1>2
<1>9. u = SubSeq(t, c, d)
  BY <1>2
<1>11. /\ SubSeq(t, c, d) \in Seq(S) /\ Len(SubSeq(t, c, d)) = IF c <= d THEN d - c + 1 ELSE 0
       /\ \A i \in 1 .. d - c + 1 : SubSeq(t, c, d)[i] = t[c + i - 1]
  BY <1>8, SubSeqProperties
<1>10. /\ u \in Seq(S) /\ Len(u) = IF c <= d THEN d - c + 1 ELSE 0
       /\ \A i \in 1 .. d - c + 1 : u[i] = t[c + i - 1]
  BY <1>9, <1>11
<1>3. /\ u \in Seq(S) /\ Len(u) = IF b + 1 <= b + n THEN b + n - (b + 1) + 1 ELSE 0
      /\ \A i \in 1 .. b + n - (b + 1) + 1 : u[i] = t[b + 1 + i - 1]
  BY <1>2, <1>10
<1>4. b + n - (b + 1) + 1 = n
  OBVIOUS
<1>5. ASSUME NEW i \in 1 .. n PROVE u[i] = t[b + i]
  <2>1. b + 1 + i - 1 = b + i
    OBVIOUS
  <2> QED
    BY <1>3, <1>4, <2>1
<1>6. Len(u) = n
  BY <1>3
<1>7. Listed(u)
  BY <1>3, SeqListed
<1> QED
  BY <1>5, <1>6, <1>7 DEF Stretch

\* What layout i adds to the weight of the outcomes with these commons.
Adds(layouts, commons, outcomes, i) ==
    IF CommonStructure(layouts[i]) = commons /\ OutcomeOf(layouts[i]) \in outcomes
    THEN layouts[i].weight ELSE 0

\* f sums up these weights.
Weighs(f, layouts, commons, outcomes) ==
    /\ f[0] = 0 /\ \A i \in 1 .. Len(layouts) : f[i] = f[i-1] + Adds(layouts, commons, outcomes, i)
    /\ \A i \in 0 .. Len(layouts) : f[i] \in Nat

Weighted(layouts) ==
    Listed(layouts) /\ \A i \in 1 .. Len(layouts) : layouts[i].weight \in Nat

LEMMA WeightFacts ==
    ASSUME NEW layouts, Weighted(layouts), NEW commons, NEW outcomes
    PROVE  \E f : /\ Weighs(f, layouts, commons, outcomes)
                  /\ WeightWith(layouts, commons, outcomes) = f[Len(layouts)]
<1> DEFINE w == [i \in 1 .. Len(layouts) |-> Adds(layouts, commons, outcomes, i)]
<1>1. Len(layouts) \in Nat /\ DOMAIN layouts = 1 .. Len(layouts)
  BY ListFacts DEF Weighted
<1>2. WeightWith(layouts, commons, outcomes) = Total(w)
  BY <1>1 DEF WeightWith, Adds
<1>3. DOMAIN w = 1 .. Len(layouts) /\ w = [i \in 1 .. Len(layouts) |-> w[i]]
  OBVIOUS
<1>4. \A i \in 1 .. Len(layouts) : w[i] = Adds(layouts, commons, outcomes, i) /\ w[i] \in Nat
  BY DEF Weighted, Adds
<1> HIDE DEF w
<1>5. Listed(w) /\ Len(w) = Len(layouts)
  BY <1>1, <1>3, IndexedListed
<1>6. PICK f : Running(f, w) /\ Total(w) = f[Len(w)]
  BY <1>4, <1>5, TotalFacts
<1>7. Weighs(f, layouts, commons, outcomes)
  BY <1>4, <1>5, <1>6 DEF Running, Weighs
<1> QED
  BY <1>2, <1>5, <1>6, <1>7

\* Outcomes that exclude each other add up.
LEMMA WeightsAdd ==
    ASSUME NEW layouts, Weighted(layouts), NEW commons, NEW P, NEW Q, P \cap Q = {}
    PROVE  WeightWith(layouts, commons, P \cup Q)
            = WeightWith(layouts, commons, P) + WeightWith(layouts, commons, Q)
<1> DEFINE R == P \cup Q
<1>1. PICK f : Weighs(f, layouts, commons, P) /\ WeightWith(layouts, commons, P) = f[Len(layouts)]
  BY WeightFacts
<1>2. PICK g : Weighs(g, layouts, commons, Q) /\ WeightWith(layouts, commons, Q) = g[Len(layouts)]
  BY WeightFacts
<1>3. PICK h : Weighs(h, layouts, commons, R) /\ WeightWith(layouts, commons, R) = h[Len(layouts)]
  BY WeightFacts
<1>4. ASSUME NEW i \in 1 .. Len(layouts)
      PROVE  /\ Adds(layouts, commons, R, i) = Adds(layouts, commons, P, i) + Adds(layouts, commons, Q, i)
             /\ Adds(layouts, commons, P, i) \in Nat /\ Adds(layouts, commons, Q, i) \in Nat
  BY DEF Adds, Weighted
<1> HIDE DEF R
<1>5. Len(layouts) \in Nat
  BY ListFacts DEF Weighted
<1> DEFINE S == {i \in Nat : i <= Len(layouts) => h[i] = f[i] + g[i]}
<1>6. 0 \in S
  BY <1>1, <1>2, <1>3 DEF Weighs
<1>7. ASSUME NEW i \in Nat, i \in S PROVE i + 1 \in S
  <2> SUFFICES ASSUME i + 1 <= Len(layouts) PROVE h[i + 1] = f[i + 1] + g[i + 1]
    OBVIOUS
  <2>1. i + 1 \in 1 .. Len(layouts) /\ i \in 0 .. Len(layouts) /\ i + 1 - 1 = i /\ h[i] = f[i] + g[i]
    BY <1>5, <1>7
  <2> DEFINE a == Adds(layouts, commons, P, i + 1)
             b == Adds(layouts, commons, Q, i + 1)
  <2>2. /\ f[i + 1] = f[i] + a /\ g[i + 1] = g[i] + b /\ f[i] \in Nat /\ g[i] \in Nat
        /\ h[i + 1] = h[i] + Adds(layouts, commons, R, i + 1)
    BY <1>1, <1>2, <1>3, <2>1 DEF Weighs
  <2>3. Adds(layouts, commons, R, i + 1) = a + b /\ a \in Nat /\ b \in Nat
    BY <1>4, <2>1
  <2> HIDE DEF a, b
  <2> QED
    BY <2>1, <2>2, <2>3
<1> HIDE DEF S
<1>8. \A i \in Nat : i \in S
  BY <1>6, <1>7, Ascent
<1> QED
  BY <1>1, <1>2, <1>3, <1>5, <1>8 DEF S, R

LEMMA SixOutcomes ==
    /\ IsFiniteSet(DOMAIN Coefficient) /\ Cardinality(DOMAIN Coefficient) = 6
    /\ DOMAIN Coefficient = {"Rare", "Majestic"} \X RainbowPools
<1>1. DOMAIN Coefficient = {"Rare", "Majestic"} \X RainbowPools
  BY DEF Coefficient
<1>2. IsFiniteSet({"Rare", "Majestic"}) /\ Cardinality({"Rare", "Majestic"}) = 2
  <2>1. IsFiniteSet({"Rare"}) /\ Cardinality({"Rare"}) = 1
    BY FS_Singleton
  <2>2. "Majestic" \notin {"Rare"} /\ {"Rare", "Majestic"} = {"Rare"} \cup {"Majestic"}
    OBVIOUS
  <2> QED
    BY <2>1, <2>2, FS_AddElement
<1>3. IsFiniteSet(RainbowPools) /\ Cardinality(RainbowPools) = 3
  <2>1. IsFiniteSet({"Rfcommon"}) /\ Cardinality({"Rfcommon"}) = 1
    BY FS_Singleton
  <2>2. IsFiniteSet({"Rfcommon", "RFRare"}) /\ Cardinality({"Rfcommon", "RFRare"}) = 2
    <3>1. "RFRare" \notin {"Rfcommon"} /\ {"Rfcommon", "RFRare"} = {"Rfcommon"} \cup {"RFRare"}
      OBVIOUS
    <3> QED
      BY <2>1, <3>1, FS_AddElement
  <2>3. "RFMajestic" \notin {"Rfcommon", "RFRare"} /\ RainbowPools = {"Rfcommon", "RFRare"} \cup {"RFMajestic"}
    BY DEF RainbowPools
  <2> QED
    BY <2>2, <2>3, FS_AddElement
<1> QED
  BY <1>1, <1>2, <1>3, FS_Product

LEMMA UpTo ==
    ASSUME NEW n \in Nat
    PROVE  IsFiniteSet(1 .. n) /\ Cardinality(1 .. n) = n
<1>1. n \in Int /\ 1 \in Int
  OBVIOUS
<1> QED
  BY <1>1, FS_Interval

LEMMA Coefficients ==
    /\ Coefficient[<<"Rare", "Rfcommon">>] = 1411 /\ Coefficient[<<"Rare", "RFRare">>] = 255
    /\ Coefficient[<<"Rare", "RFMajestic">>] = 34
    /\ Coefficient[<<"Majestic", "Rfcommon">>] = 581 /\ Coefficient[<<"Majestic", "RFRare">>] = 105
    /\ Coefficient[<<"Majestic", "RFMajestic">>] = 14
    /\ \A o \in DOMAIN Coefficient : Coefficient[o] \in Nat
<1>1. /\ Coefficient[<<"Rare", "Rfcommon">>] = 1411 /\ Coefficient[<<"Rare", "RFRare">>] = 255
      /\ Coefficient[<<"Rare", "RFMajestic">>] = 34
      /\ Coefficient[<<"Majestic", "Rfcommon">>] = 581 /\ Coefficient[<<"Majestic", "RFRare">>] = 105
      /\ Coefficient[<<"Majestic", "RFMajestic">>] = 14
  BY DEF Coefficient, RainbowPools
<1>2. ASSUME NEW o \in DOMAIN Coefficient
      PROVE  o \in { <<"Rare", "Rfcommon">>, <<"Rare", "RFRare">>, <<"Rare", "RFMajestic">>,
                     <<"Majestic", "Rfcommon">>, <<"Majestic", "RFRare">>, <<"Majestic", "RFMajestic">> }
  BY SixOutcomes DEF RainbowPools
<1> QED
  BY <1>1, <1>2

\* Six layouts have the six outcomes: each is the outcome of one of them.
LEMMA OneForEach ==
    ASSUME NEW t, Listed(t), Len(t) = 6, {OutcomeOf(l) : l \in ToSet(t)} = DOMAIN Coefficient
    PROVE  /\ \A i \in 1 .. 6 : OutcomeOf(t[i]) \in DOMAIN Coefficient
           /\ \A i, j \in 1 .. 6 : OutcomeOf(t[i]) = OutcomeOf(t[j]) => i = j
           /\ \A o \in DOMAIN Coefficient : \E i \in 1 .. 6 : OutcomeOf(t[i]) = o
<1> DEFINE F == [i \in 1 .. 6 |-> OutcomeOf(t[i])]
           C == DOMAIN Coefficient
<1>1. DOMAIN t = 1 .. 6 /\ ToSet(t) = {t[i] : i \in 1 .. 6}
  BY ListFacts DEF ToSet
<1>2. C = {OutcomeOf(t[i]) : i \in 1 .. 6}
  <2>1. {OutcomeOf(l) : l \in {t[i] : i \in 1 .. 6}} = {OutcomeOf(t[i]) : i \in 1 .. 6}
    OBVIOUS
  <2> QED
    BY <1>1, <2>1
<1> HIDE DEF C
<1>3. \A i \in 1 .. 6 : OutcomeOf(t[i]) \in C
  BY <1>2
<1>4. \A o \in C : \E i \in 1 .. 6 : OutcomeOf(t[i]) = o
  BY <1>2
<1>5. F \in Surjection(1 .. 6, C)
  BY <1>3, <1>4 DEF Surjection
<1>6. IsFiniteSet(1 .. 6) /\ Cardinality(1 .. 6) = 6
  BY UpTo
<1>7. Cardinality(C) = 6
  BY SixOutcomes DEF C
<1>8. F \in Injection(1 .. 6, C)
  BY <1>5, <1>6, <1>7, FS_SurjSameCardinalityImpliesInj
<1>9. ASSUME NEW i \in 1 .. 6, NEW j \in 1 .. 6, OutcomeOf(t[i]) = OutcomeOf(t[j]) PROVE i = j
  <2>1. F[i] = F[j]
    BY <1>9
  <2> HIDE DEF F
  <2> QED
    BY <1>8, <2>1 DEF Injection, IsInjective
<1> QED
  BY <1>3, <1>4, <1>9 DEF C

Grows(layouts, commons, b, d) ==
    \A o \in DOMAIN Coefficient : \A f :
        Weighs(f, layouts, commons, {o}) => f[b + 6] = f[b] + d * Coefficient[o]

\* A group adds to each outcome's weight by the outcome's coefficient.
LEMMA GroupAdds ==
    ASSUME NEW layouts, Weighted(layouts), NEW b \in Nat, b + 6 <= Len(layouts),
           AcceptsGroup(SubSeq(layouts, b + 1, b + 6)), NEW commons
    PROVE  \E d \in Nat : Grows(layouts, commons, b, d)
<1> DEFINE t == SubSeq(layouts, b + 1, b + 6)
           c == CommonDivisor(t)
           here == CommonStructure(t[1]) = commons
           d == IF here THEN c ELSE 0
<1>0. t = SubSeq(layouts, b + 1, b + 6) /\ AcceptsGroup(t)
  OBVIOUS
<1> HIDE DEF t
<1>1. Listed(t) /\ Len(t) = 6 /\ \A i \in 1 .. 6 : t[i] = layouts[b + i]
  <2>1. Listed(layouts)
    BY DEF Weighted
  <2>2. Stretch(layouts, b, 6, t)
    BY <1>0, <2>1, PartFacts
  <2> QED
    BY <2>2 DEF Stretch
<1>2. AcceptsGroup(t)
  BY <1>0
<1>3. DOMAIN t = 1 .. 6 /\ Len(layouts) \in Nat
  BY <1>1, ListFacts DEF Weighted
<1>4. /\ {OutcomeOf(l) : l \in ToSet(t)} = DOMAIN Coefficient
      /\ \A i \in 1 .. 6 : t[i].weight = c * Coefficient[OutcomeOf(t[i])]
      /\ \A i \in 1 .. 6 : CommonStructure(t[i]) = CommonStructure(t[1])
  BY <1>2, <1>3 DEF AcceptsGroup
<1>5. \A i \in 1 .. 6 : t[i].weight \in Nat
  <2> SUFFICES ASSUME NEW i \in 1 .. 6 PROVE t[i].weight \in Nat
    OBVIOUS
  <2>1. b + i \in 1 .. Len(layouts) /\ t[i] = layouts[b + i]
    BY <1>1, <1>3
  <2> QED
    BY <2>1 DEF Weighted
<1>6. c \in Nat
  BY <1>1, <1>5, CommonDivisorFacts
<1> HIDE DEF c
<1>7. d \in Nat
  BY <1>6
<1>8. ASSUME NEW o \in DOMAIN Coefficient, NEW f, Weighs(f, layouts, commons, {o})
      PROVE  f[b + 6] = f[b] + d * Coefficient[o]
  <2>1. PICK j \in 1 .. 6 : OutcomeOf(t[j]) = o
    BY <1>1, <1>4, OneForEach
  <2>2. \A i \in 1 .. 6 : OutcomeOf(t[i]) = o => i = j
    BY <1>1, <1>4, <2>1, OneForEach
  <2> DEFINE x == d * Coefficient[o]
  <2>3. ASSUME NEW i \in 1 .. 6
        PROVE  Adds(layouts, commons, {o}, b + i) = IF i = j THEN x ELSE 0
    <3>1. layouts[b + i] = t[i]
      BY <1>1
    <3>2. (CommonStructure(layouts[b + i]) = commons) = here
      BY <1>4, <3>1
    <3>3. (OutcomeOf(layouts[b + i]) \in {o}) = (i = j)
      BY <2>1, <2>2, <3>1
    <3>4. i = j => layouts[b + i].weight = c * Coefficient[o]
      BY <1>4, <2>1, <3>1
    <3>5. Coefficient[o] \in Nat
      BY Coefficients
    <3>6. ~here => x = 0
      BY <3>5
    <3>7. here => x = c * Coefficient[o]
      OBVIOUS
    <3> HIDE DEF x, here
    <3> QED
      BY <3>2, <3>3, <3>4, <3>6, <3>7 DEF Adds
  <2>4. \A i \in 1 .. 6 : f[b + i] = f[b + i - 1] + (IF i = j THEN x ELSE 0)
    <3> SUFFICES ASSUME NEW i \in 1 .. 6 PROVE f[b + i] = f[b + i - 1] + (IF i = j THEN x ELSE 0)
      OBVIOUS
    <3>0. \A k \in 1 .. Len(layouts) : f[k] = f[k - 1] + Adds(layouts, commons, {o}, k)
      BY <1>8 DEF Weighs
    <3>1. PICK k \in 1 .. Len(layouts) : k = b + i
      BY <1>3
    <3>2. f[k] = f[k - 1] + Adds(layouts, commons, {o}, k)
      BY <3>0
    <3>3. Adds(layouts, commons, {o}, k) = IF i = j THEN x ELSE 0
      BY <2>3, <3>1
    <3> QED
      BY <3>1, <3>2, <3>3
  <2>5. f[b] \in Nat /\ x \in Nat
    <3>1. b \in 0 .. Len(layouts) /\ Coefficient[o] \in Nat
      BY <1>3, Coefficients
    <3> QED
      BY <1>7, <1>8, <3>1 DEF Weighs
  <2> HIDE DEF x
  <2>6. /\ b + 1 - 1 = b /\ b + 2 - 1 = b + 1 /\ b + 3 - 1 = b + 2
        /\ b + 4 - 1 = b + 3 /\ b + 5 - 1 = b + 4 /\ b + 6 - 1 = b + 5
    OBVIOUS
  <2>7. /\ f[b + 1] = f[b] + (IF 1 = j THEN x ELSE 0) /\ f[b + 2] = f[b + 1] + (IF 2 = j THEN x ELSE 0)
        /\ f[b + 3] = f[b + 2] + (IF 3 = j THEN x ELSE 0) /\ f[b + 4] = f[b + 3] + (IF 4 = j THEN x ELSE 0)
        /\ f[b + 5] = f[b + 4] + (IF 5 = j THEN x ELSE 0) /\ f[b + 6] = f[b + 5] + (IF 6 = j THEN x ELSE 0)
    <3>1. 1 \in 1 .. 6 /\ 2 \in 1 .. 6 /\ 3 \in 1 .. 6 /\ 4 \in 1 .. 6 /\ 5 \in 1 .. 6 /\ 6 \in 1 .. 6
      OBVIOUS
    <3> QED
      BY <2>4, <2>6, <3>1
  <2>8. f[b + 6] = f[b] + x
    BY <2>5, <2>7
  <2> QED
    BY <2>8 DEF x
<1>9. Grows(layouts, commons, b, d)
  BY <1>8 DEF Grows
<1> QED
  BY <1>7, <1>9

\* The accepted layouts weigh by their outcomes as the coefficients say,
\* whatever commons one looks at.
LEMMA OddsOfGroups ==
    ASSUME NEW layouts, Weighted(layouts), AcceptsLayouts(layouts), NEW commons
    PROVE  \E d \in Nat : \A o \in DOMAIN Coefficient :
                WeightWith(layouts, commons, {o}) = d * Coefficient[o]
<1> DEFINE L == Len(layouts)
           F(o) == CHOOSE f : /\ Weighs(f, layouts, commons, {o})
                              /\ WeightWith(layouts, commons, {o}) = f[L]
<1>1. \A o : Weighs(F(o), layouts, commons, {o}) /\ WeightWith(layouts, commons, {o}) = F(o)[L]
  BY WeightFacts
<1> HIDE DEF F
<1>2. L = LayoutCount /\ LayoutCount \in Nat /\ LayoutCount % 6 = 0
  BY LayoutCountAssumption DEF AcceptsLayouts, GroupSize
<1> DEFINE G == L \div 6
<1>3. G \in Nat /\ L = 6 * G
  BY <1>2
<1>4. ASSUME NEW g \in 1 .. G
      PROVE  AcceptsGroup(SubSeq(layouts, 6 * (g - 1) + 1, 6 * g))
  <2>1. DOMAIN GroupsOf(layouts) = 1 .. G
    BY DEF GroupsOf, GroupSize
  <2>2. GroupsOf(layouts)[g] = SubSeq(layouts, 6 * (g - 1) + 1, 6 * g)
    BY DEF GroupsOf, GroupSize
  <2> QED
    BY <2>1, <2>2 DEF AcceptsLayouts
<1> HIDE DEF G
<1> DEFINE Good(n, d) == \A o \in DOMAIN Coefficient : F(o)[n] = d * Coefficient[o]
           S == {g \in Nat : g <= G => \E d \in Nat : Good(6 * g, d)}
<1>5. \A o \in DOMAIN Coefficient : Coefficient[o] \in Nat
  BY Coefficients
<1>6. 0 \in S
  <2>1. Good(0, 0)
    BY <1>1, <1>5 DEF Weighs
  <2>2. 6 * 0 = 0
    OBVIOUS
  <2> HIDE DEF Good
  <2> QED
    BY <2>1, <2>2
<1>7. ASSUME NEW g \in Nat, g \in S PROVE g + 1 \in S
  <2> SUFFICES ASSUME g + 1 <= G PROVE \E d \in Nat : Good(6 * (g + 1), d)
    OBVIOUS
  <2> DEFINE b == 6 * g
  <2>1. b \in Nat /\ 6 * (g + 1) = b + 6 /\ 6 * (g + 1 - 1) + 1 = b + 1 /\ b + 6 <= L /\ g + 1 \in 1 .. G
    BY <1>2, <1>3
  <2>2. AcceptsGroup(SubSeq(layouts, 6 * (g + 1 - 1) + 1, 6 * (g + 1)))
    BY <1>4, <2>1
  <2>3. PICK c \in Nat : Good(b, c)
    <3>1. g <= G
      BY <1>3
    <3> QED
      BY <1>7, <3>1
  <2> HIDE DEF b, Good
  <2>4. AcceptsGroup(SubSeq(layouts, b + 1, b + 6))
    BY <2>1, <2>2
  <2>5. PICK d \in Nat : Grows(layouts, commons, b, d)
    BY <2>1, <2>4, GroupAdds
  <2>6. ASSUME NEW o \in DOMAIN Coefficient PROVE F(o)[b + 6] = (c + d) * Coefficient[o]
    <3>1. F(o)[b + 6] = F(o)[b] + d * Coefficient[o]
      BY <1>1, <2>5 DEF Grows
    <3>2. F(o)[b] = c * Coefficient[o]
      BY <2>3 DEF Good
    <3>3. Coefficient[o] \in Nat
      BY <1>5
    <3>4. \A x \in Nat : c * x + d * x = (c + d) * x
      OBVIOUS
    <3> QED
      BY <3>1, <3>2, <3>3, <3>4
  <2>7. Good(b + 6, c + d) /\ c + d \in Nat
    BY <2>6 DEF Good
  <2> QED
    BY <2>1, <2>7
<1> HIDE DEF S, Good
<1>8. \A g \in Nat : g \in S
  BY <1>6, <1>7, Ascent
<1>9. PICK d \in Nat : Good(6 * G, d)
  BY <1>3, <1>8 DEF S
<1>10. \A o \in DOMAIN Coefficient : WeightWith(layouts, commons, {o}) = d * Coefficient[o]
  BY <1>1, <1>3, <1>9 DEF Good
<1> QED
  BY <1>10

\* So the odds are those of the rules.
LEMMA OddsFollow ==
    ASSUME NEW layouts, Weighted(layouts), AcceptsLayouts(layouts), NEW commons
    PROVE  HasRulesOdds(layouts, commons)
<1> DEFINE W(outcomes) == WeightWith(layouts, commons, outcomes)
           O(s, r) == {<<s, r>>}
<1>1. PICK d \in Nat : \A o \in DOMAIN Coefficient : W({o}) = d * Coefficient[o]
  BY OddsOfGroups
<1>2. /\ W(O("Rare", "Rfcommon")) = d * 1411 /\ W(O("Rare", "RFRare")) = d * 255
      /\ W(O("Rare", "RFMajestic")) = d * 34
      /\ W(O("Majestic", "Rfcommon")) = d * 581 /\ W(O("Majestic", "RFRare")) = d * 105
      /\ W(O("Majestic", "RFMajestic")) = d * 14
  <2>1. \A s \in {"Rare", "Majestic"}, r \in RainbowPools : <<s, r>> \in DOMAIN Coefficient
    BY SixOutcomes
  <2>2. \A s \in {"Rare", "Majestic"}, r \in RainbowPools : W(O(s, r)) = d * Coefficient[<<s, r>>]
    BY <1>1, <2>1
  <2> HIDE DEF W, O
  <2>4. "Rfcommon" \in RainbowPools /\ "RFRare" \in RainbowPools /\ "RFMajestic" \in RainbowPools
    BY DEF RainbowPools
  <2> QED
    BY <2>2, <2>4, Coefficients
<1>3. ASSUME NEW s \in {"Rare", "Majestic"}
      PROVE  W({s} \X RainbowPools) = W(O(s, "Rfcommon")) + W(O(s, "RFRare")) + W(O(s, "RFMajestic"))
  <2>1. /\ {s} \X RainbowPools = (O(s, "Rfcommon") \cup O(s, "RFRare")) \cup O(s, "RFMajestic")
        /\ O(s, "Rfcommon") \cap O(s, "RFRare") = {}
        /\ (O(s, "Rfcommon") \cup O(s, "RFRare")) \cap O(s, "RFMajestic") = {}
    BY DEF RainbowPools
  <2> HIDE DEF O
  <2>2. W(O(s, "Rfcommon") \cup O(s, "RFRare")) = W(O(s, "Rfcommon")) + W(O(s, "RFRare"))
    BY <2>1, WeightsAdd
  <2>3. W((O(s, "Rfcommon") \cup O(s, "RFRare")) \cup O(s, "RFMajestic"))
            = W(O(s, "Rfcommon") \cup O(s, "RFRare")) + W(O(s, "RFMajestic"))
    BY <2>1, WeightsAdd
  <2> QED
    BY <2>1, <2>2, <2>3
<1>4. W(DOMAIN Coefficient) = W({"Rare"} \X RainbowPools) + W({"Majestic"} \X RainbowPools)
  <2> DEFINE P == {"Rare"} \X RainbowPools
             Q == {"Majestic"} \X RainbowPools
  <2>1. P \cap Q = {} /\ P \cup Q = {"Rare", "Majestic"} \X RainbowPools
    OBVIOUS
  <2> HIDE DEF P, Q
  <2>2. W(P \cup Q) = W(P) + W(Q)
    BY <2>1, WeightsAdd
  <2> QED
    BY <2>1, <2>2, SixOutcomes DEF P, Q
<1> HIDE DEF W
<1>5. W({"Rare"} \X RainbowPools) = d * 1700 /\ W({"Majestic"} \X RainbowPools) = d * 700
  BY <1>2, <1>3
<1>6. 24 * W({"Rare"} \X RainbowPools) = 17 * W(DOMAIN Coefficient)
  BY <1>4, <1>5
<1> DEFINE chance == [Rfcommon |-> 83, RFRare |-> 15, RFMajestic |-> 2]
<1>7. ASSUME NEW rainbow \in RainbowPools, NEW second \in {"Rare", "Majestic"}
      PROVE  100 * W({<<second, rainbow>>}) = chance[rainbow] * W({second} \X RainbowPools)
  <2>1. /\ W({<<"Rare", "Rfcommon">>}) = d * 1411 /\ W({<<"Rare", "RFRare">>}) = d * 255
        /\ W({<<"Rare", "RFMajestic">>}) = d * 34
        /\ W({<<"Majestic", "Rfcommon">>}) = d * 581 /\ W({<<"Majestic", "RFRare">>}) = d * 105
        /\ W({<<"Majestic", "RFMajestic">>}) = d * 14
    BY <1>2
  <2>2. chance["Rfcommon"] = 83 /\ chance["RFRare"] = 15 /\ chance["RFMajestic"] = 2
    OBVIOUS
  <2> HIDE DEF chance
  <2>3. (second = "Rare" \/ second = "Majestic") /\ (rainbow = "Rfcommon" \/ rainbow = "RFRare" \/ rainbow = "RFMajestic")
    BY DEF RainbowPools
  <2>4. CASE second = "Rare" /\ rainbow = "Rfcommon"
    BY <1>5, <2>1, <2>2, <2>4
  <2>5. CASE second = "Rare" /\ rainbow = "RFRare"
    BY <1>5, <2>1, <2>2, <2>5
  <2>6. CASE second = "Rare" /\ rainbow = "RFMajestic"
    BY <1>5, <2>1, <2>2, <2>6
  <2>7. CASE second = "Majestic" /\ rainbow = "Rfcommon"
    BY <1>5, <2>1, <2>2, <2>7
  <2>8. CASE second = "Majestic" /\ rainbow = "RFRare"
    BY <1>5, <2>1, <2>2, <2>8
  <2>9. CASE second = "Majestic" /\ rainbow = "RFMajestic"
    BY <1>5, <2>1, <2>2, <2>9
  <2> QED
    BY <2>3, <2>4, <2>5, <2>6, <2>7, <2>8, <2>9
<1> QED
  BY <1>6, <1>7 DEF HasRulesOdds, W

-----------------------------------------------------------------------------
(* What the readers let through.                                           *)

LEMMA FirstFacts ==
    ASSUME NEW S, S \subseteq Nat, S # {}
    PROVE  First(S) \in S /\ \A j \in S : First(S) <= j
<1>1. \E i \in S : \A j \in S : i <= j
  BY LeastPosition
<1> QED
  BY <1>1 DEF First

Between(t, M, i, later, n, part) ==
    /\ Stretch(t, i, n, part) /\ \A k \in 1 .. n : i + k \notin M
    /\ later = {} => i + n = Len(t)
    /\ later # {} => First(later) = i + n + 1 /\ First(later) \in later

\* What stands between a mark and the next one, or the end.
LEMMA StretchFacts ==
    ASSUME NEW t, Listed(t), NEW M, M \subseteq 1 .. Len(t), NEW i \in 1 .. Len(t),
           NEW later, later = {j \in M : j > i},
           NEW part, part = SubSeq(t, i + 1, IF later = {} THEN Len(t) ELSE First(later) - 1)
    PROVE  \E n \in Nat : Between(t, M, i, later, n, part)
<1> DEFINE f == First(later)
           end == IF later = {} THEN Len(t) ELSE f - 1
<1>1. Len(t) \in Nat /\ i \in Nat /\ i <= Len(t)
  BY ListFacts
<1>2. \A j \in M : j \in Nat /\ j <= Len(t)
  BY <1>1
<1>3. /\ \A j \in M : j > i => j \in later
      /\ \A j \in later : j \in M /\ j > i /\ j \in Nat /\ j <= Len(t)
  BY <1>2
<1>4. later # {} => f \in later /\ \A j \in later : f <= j
  BY <1>3, FirstFacts
<1>5. part = SubSeq(t, i + 1, end)
  OBVIOUS
<1> HIDE DEF f
<1> DEFINE n == end - i
<1>6. later # {} => f \in Nat /\ f > i /\ f <= Len(t)
  BY <1>3, <1>4
<1>7. n \in Nat /\ i + n = end /\ end <= Len(t)
  BY <1>1, <1>6
<1>8. later # {} => f = i + n + 1
  BY <1>1, <1>6
<1>9. later = {} => i + n = Len(t)
  BY <1>7
<1> HIDE DEF n, end
<1>10. Stretch(t, i, n, part)
  <2>1. part = SubSeq(t, i + 1, i + n)
    BY <1>5, <1>7
  <2> QED
    BY <1>1, <1>7, <2>1, PartFacts
<1>11. ASSUME NEW k \in 1 .. n PROVE i + k \notin M
  <2> SUFFICES ASSUME NEW j \in M, j = i + k PROVE FALSE
    OBVIOUS
  <2>1. j > i /\ j <= i + n /\ j \in Nat
    BY <1>1, <1>2, <1>7
  <2>2. j \in later
    BY <1>3, <2>1
  <2>3. f <= j /\ f = i + n + 1
    BY <1>4, <1>8, <2>2
  <2> QED
    BY <1>1, <1>7, <2>1, <2>3
<1>12. Between(t, M, i, later, n, part)
  BY <1>4, <1>8, <1>9, <1>10, <1>11 DEF f, Between
<1> QED
  BY <1>7, <1>12

\* The body of the section at i is n lines long.
BodyEnds(lines, i, n) ==
    /\ Stretch(lines, i, n, Body(lines, i)) /\ \A k \in 1 .. n : i + k \notin Headers(lines)
    /\ Following(lines, i) = {} => i + n = Len(lines)
    /\ Following(lines, i) # {} => i + n + 1 \in Headers(lines) /\ First(Following(lines, i)) = i + n + 1

LEMMA BodyFacts ==
    ASSUME NEW lines, Listed(lines), NEW i \in Headers(lines)
    PROVE  \E n \in Nat : BodyEnds(lines, i, n)
<1>1. Headers(lines) \subseteq 1 .. Len(lines) /\ i \in 1 .. Len(lines)
  BY ListFacts DEF Headers
<1>2. Following(lines, i) = {j \in Headers(lines) : j > i}
  BY DEF Following
<1>3. Body(lines, i) = SubSeq(lines, i + 1, IF Following(lines, i) = {} THEN Len(lines)
                                           ELSE First(Following(lines, i)) - 1)
  BY DEF Body
<1>4. Following(lines, i) \subseteq Headers(lines)
  BY <1>2
<1> DEFINE M == Headers(lines)
           later == Following(lines, i)
           part == Body(lines, i)
<1> HIDE DEF M, later, part
<1>5. /\ M \subseteq 1 .. Len(lines) /\ later = {j \in M : j > i}
      /\ part = SubSeq(lines, i + 1, IF later = {} THEN Len(lines) ELSE First(later) - 1)
  BY <1>1, <1>2, <1>3 DEF M, later, part
<1>6. \E n \in Nat : Between(lines, M, i, later, n, part)
  BY <1>1, <1>5, StretchFacts
<1> QED
  BY <1>4, <1>6 DEF Between, BodyEnds, M, later, part

\* A line is of one kind.
LEMMA LineKinds ==
    ASSUME NEW l, IsLine(l)
    PROVE  /\ l.line \in {"section", "settings", "cards", "layout", "slot", "entry", "other"}
           /\ l.line = "section" => l = SectionLine(l.name)
           /\ l.line = "cards" => l = CardsLine(l.cards) /\ Listed(l.cards) /\ \A c \in ToSet(l.cards) : IsCard(c)
           /\ l.line = "layout" => l = HeadingLine(l.id, l.weight) /\ l.weight \in Nat \ {0}
           /\ l.line = "slot" => l = SlotLine(l.count, l.pool) /\ l.count \in Nat \ {0}
           /\ l.line = "entry" => l = EntryLine(l.weight, l.card) /\ l.weight \in Nat \ {0}
<1>1. CASE l.line = "section" /\ l = SectionLine(l.name)
  BY <1>1
<1>2. CASE l.line = "cards" /\ l = CardsLine(l.cards) /\ Listing(l.cards) /\ \A c \in ToSet(l.cards) : IsCard(c)
  BY <1>2 DEF Listing, Listed
<1>3. CASE l.line = "layout" /\ l = HeadingLine(l.id, l.weight) /\ l.weight \in Nat \ {0}
  BY <1>3
<1>4. CASE l.line = "slot" /\ l = SlotLine(l.count, l.pool) /\ l.count \in Nat \ {0}
  BY <1>4
<1>5. CASE l.line = "entry" /\ l = EntryLine(l.weight, l.card) /\ l.weight \in Nat \ {0}
  BY <1>5
<1>6. CASE l \in {SettingsLine, OtherLine}
  BY <1>6 DEF SettingsLine, OtherLine
<1> QED
  BY <1>1, <1>2, <1>3, <1>4, <1>5, <1>6 DEF IsLine

LEMMA TextFacts ==
    ASSUME NEW lines, IsText(lines)
    PROVE  /\ Listed(lines) /\ \A i \in 1 .. Len(lines) : IsLine(lines[i])
           /\ Headers(lines) = {i \in 1 .. Len(lines) : lines[i].line = "section"}
           /\ Headers(lines) \subseteq 1 .. Len(lines)
<1>1. Listed(lines)
  BY DEF IsText, Listing, Listed
<1> QED
  BY <1>1, ListFacts DEF IsText, Headers

\* Distinct, by the places of a list.
LEMMA DistinctFacts ==
    ASSUME NEW n \in Nat, NEW s, DOMAIN s = 1 .. n
    PROVE  Distinct(s) <=> \A i, j \in 1 .. n : s[i] = s[j] => i = j
BY DEF Distinct

\* The list of cards.
CardsRead(cards) ==
    /\ Listed(cards) /\ cards # <<>> /\ \A c \in ToSet(cards) : IsCard(c)
    /\ \A i, j \in 1 .. Len(cards) : i # j =>
        cards[i].name # cards[j].name /\ cards[i].number # cards[j].number

\* What stands before the layouts.
LEMMA ReadCardsFacts ==
    ASSUME NEW lines, IsText(lines), ReadCards(lines) # Refused
    PROVE  /\ CardsRead(ReadCards(lines))
           /\ 5 <= Len(lines) /\ lines[1] = SectionLine("Settings") /\ lines[2] = SettingsLine
           /\ lines[3] = SectionLine("CustomCards") /\ lines[4] = CardsLine(ReadCards(lines))
           /\ 3 \in Headers(lines) /\ 5 \in Headers(lines) /\ 4 \notin Headers(lines)
           /\ Named(lines, "Settings") = {1} /\ Named(lines, "CustomCards") = {3}
<1> DEFINE here == Named(lines, "CustomCards")
           i == First(here)
           body == Body(lines, i)
           cards == body[1].cards
<1>1. /\ ReadsSettings(lines) /\ Cardinality(here) = 1 /\ Following(lines, i) # {}
      /\ Len(body) = 1 /\ body[1].line = "cards" /\ cards # <<>>
      /\ Distinct([k \in DOMAIN cards |-> cards[k].name])
      /\ Distinct([k \in DOMAIN cards |-> cards[k].number])
      /\ ReadCards(lines) = cards
  BY DEF ReadCards
<1>2. Listed(lines) /\ Headers(lines) \subseteq 1 .. Len(lines) /\ Len(lines) \in Nat
      /\ \A k \in 1 .. Len(lines) : IsLine(lines[k])
  BY TextFacts, ListFacts, SMTT(30)
<1>3. \A k \in Headers(lines) : k \in 1 .. Len(lines) /\ lines[k] = SectionLine(lines[k].name)
  BY <1>2, LineKinds, SMTT(30) DEF Headers
<1>4. /\ 1 \in Headers(lines) /\ lines[1].name = "Settings" /\ Named(lines, "Settings") = {1}
      /\ Following(lines, 1) # {} /\ lines[First(Following(lines, 1))].name = "CustomCards"
      /\ Body(lines, 1) = <<SettingsLine>>
  BY <1>1 DEF ReadsSettings, Named
<1>5. lines[2] = SettingsLine /\ 3 \in Headers(lines) /\ lines[3].name = "CustomCards"
  <2> DEFINE first == Body(lines, 1)
  <2>1. PICK n \in Nat :
            /\ Stretch(lines, 1, n, first)
            /\ 1 + n + 1 \in Headers(lines) /\ First(Following(lines, 1)) = 1 + n + 1
    BY <1>2, <1>4, BodyFacts DEF BodyEnds
  <2>2. Len(first) = 1 /\ first[1] = SettingsLine
    BY <1>4
  <2> HIDE DEF first
  <2>3. n = 1 /\ first[1] = lines[1 + 1]
    BY <2>1, <2>2 DEF Stretch
  <2>4. 1 + n + 1 = 3 /\ 1 + 1 = 2
    BY <2>3
  <2> QED
    BY <1>4, <2>1, <2>2, <2>3, <2>4
<1>6. here \subseteq Headers(lines) /\ here \subseteq 1 .. Len(lines) /\ here \subseteq Nat /\ 3 \in here
  BY <1>2, <1>5 DEF Named
<1> HIDE DEF here
<1>7. here = {3} /\ i = 3
  <2>1. IsFiniteSet(1 .. Len(lines))
    BY <1>2, UpTo
  <2>2. IsFiniteSet(here)
    BY <1>6, <2>1, FS_Subset
  <2>3. PICK x : here = {x}
    BY <1>1, <2>2, FS_Singleton
  <2>4. here = {3}
    BY <1>6, <2>3
  <2> QED
    BY <1>6, <2>4, FirstFacts
<1> HIDE DEF i, cards
<1>8. PICK n \in Nat :
        /\ Stretch(lines, 3, n, body) /\ \A k \in 1 .. n : 3 + k \notin Headers(lines)
        /\ 3 + n + 1 \in Headers(lines)
  <2>1. 3 \in Headers(lines) /\ Following(lines, 3) # {} /\ body = Body(lines, 3)
    BY <1>1, <1>5, <1>7
  <2> QED
    BY <1>2, <2>1, BodyFacts DEF BodyEnds
<1> HIDE DEF body
<1>9. n = 1 /\ body[1] = lines[4] /\ 5 \in Headers(lines) /\ 4 \notin Headers(lines)
  <2>1. n = 1 /\ body[1] = lines[3 + 1]
    BY <1>1, <1>8 DEF Stretch
  <2>2. 3 + 1 = 4 /\ 3 + n + 1 = 5
    BY <2>1
  <2>3. 3 + 1 \notin Headers(lines)
    BY <1>8, <2>1
  <2> QED
    BY <1>8, <2>1, <2>2, <2>3
<1>10. 5 <= Len(lines)
  BY <1>2, <1>9
<1> DEFINE l == lines[4]
<1>11. l = CardsLine(l.cards) /\ Listed(l.cards) /\ \A c \in ToSet(l.cards) : IsCard(c)
  <2>1. 4 \in 1 .. Len(lines)
    BY <1>2, <1>10
  <2>2. IsLine(l) /\ l.line = "cards"
    BY <1>1, <1>2, <1>9, <2>1
  <2> HIDE DEF l
  <2> QED
    BY <2>2, LineKinds
<1>12. l.cards = cards
  BY <1>9 DEF cards
<1>13. DOMAIN cards = 1 .. Len(cards) /\ Len(cards) \in Nat
  BY <1>11, <1>12, ListFacts
<1>14. \A k, j \in 1 .. Len(cards) : k # j => cards[k].name # cards[j].name /\ cards[k].number # cards[j].number
  BY <1>1, <1>13 DEF Distinct
<1>15. CardsRead(cards)
  BY <1>1, <1>11, <1>12, <1>14 DEF CardsRead
<1>16. lines[1] = SectionLine("Settings") /\ lines[3] = SectionLine("CustomCards")
  BY <1>3, <1>4, <1>5
<1> QED
  BY <1>1, <1>4, <1>5, <1>7, <1>9, <1>10, <1>11, <1>12, <1>15, <1>16 DEF here

-----------------------------------------------------------------------------
(* Lists put together of lists, and taken apart again.                     *)

LEMMA FlattenFacts ==
    ASSUME NEW ss, Listed(ss), \A i \in 1 .. Len(ss) : Listed(ss[i])
    PROVE  \E e : Joined(FlattenSeq(ss), ss, e)
<1>1. Len(ss) \in Nat /\ (ss = <<>> <=> Len(ss) = 0)
  BY ListFacts
<1>2. CASE Len(ss) = 0
  <2>1. FlattenSeq(ss) = <<>> /\ ss = <<>>
    BY <1>1, <1>2 DEF FlattenSeq
  <2>2. Listed(<<>>) /\ Len(<<>>) = 0
    BY EmptySeq, ListFacts DEF Listed
  <2> DEFINE e == [i \in 0 .. 0 |-> 0]
             t == <<>>
  <2>3. e[0] = 0 /\ \A i \in 0 .. 0 : e[i] \in Nat
    OBVIOUS
  <2>4. JoinedTo(t, ss, e, 0)
    <3>1. 1 .. 0 = {}
      OBVIOUS
    <3>2. Listed(t) /\ Len(t) = 0
      BY <2>2
    <3> HIDE DEF t, e
    <3> QED
      BY <2>3, <3>1, <3>2 DEF JoinedTo
  <2> HIDE DEF e
  <2> QED
    BY <1>2, <2>1, <2>4 DEF Joined
<1>3. CASE Len(ss) # 0
  <2> DEFINE N == Len(ss)
             f == CHOOSE f : IsFlat(f, ss, N)
  <2>1. IsFlat(f, ss, N)
    BY <1>1, FlatExists
  <2>2. FlattenSeq(ss) = f[N]
    BY <1>3 DEF FlattenSeq, IsFlat
  <2> HIDE DEF f
  <2>3. ASSUME NEW i \in 1 .. N PROVE f[i] = IF i = 1 THEN ss[i] ELSE f[i-1] \o ss[i]
    BY <2>1 DEF IsFlat
  <2> DEFINE S == {n \in Nat : n + 1 <= N => \E e : JoinedTo(f[n + 1], ss, e, n + 1)}
  <2>4. 0 \in S
    <3>1. 0 + 1 = 1 /\ 1 \in 1 .. N
      BY <1>1, <1>3
    <3>2. f[1] = ss[1] /\ Listed(ss[1])
      BY <2>3, <3>1
    <3> DEFINE e == [i \in 0 .. 1 |-> IF i = 1 THEN Len(ss[1]) ELSE 0]
               t == ss[1]
    <3>3. Len(t) \in Nat
      BY <3>2, ListFacts
    <3> HIDE DEF t
    <3>4. /\ e[0] = 0 /\ e[1] = Len(t) /\ \A i \in 0 .. 1 : e[i] \in Nat
          /\ \A i \in 1 .. 1 : e[i] = e[i-1] + Len(ss[i])
          /\ \A i \in 1 .. 1 : i = 1
      BY <3>3 DEF t
    <3> HIDE DEF e
    <3>5. \A i \in 1 .. 1 : \A k \in 1 .. Len(ss[i]) : t[e[i-1] + k] = ss[i][k]
      <4> SUFFICES ASSUME NEW k \in 1 .. Len(t) PROVE t[e[1 - 1] + k] = t[k]
        BY <3>4 DEF t
      <4>1. e[1 - 1] + k = k
        BY <3>4
      <4> QED
        BY <4>1
    <3>6. JoinedTo(t, ss, e, 1)
      BY <3>2, <3>4, <3>5 DEF JoinedTo, t
    <3> QED
      BY <3>1, <3>2, <3>6 DEF t
  <2>5. ASSUME NEW n \in Nat, n \in S PROVE n + 1 \in S
    <3> SUFFICES ASSUME n + 1 + 1 <= N PROVE \E e : JoinedTo(f[n + 1 + 1], ss, e, n + 1 + 1)
      OBVIOUS
    <3>1. n + 1 <= N /\ n + 1 \in Nat /\ n + 1 + 1 \in 1 .. N /\ n + 1 + 1 # 1 /\ n + 1 + 1 - 1 = n + 1
      BY <1>1
    <3>2. PICK e : JoinedTo(f[n + 1], ss, e, n + 1)
      BY <2>5, <3>1
    <3>3. f[n + 1 + 1] = f[n + 1] \o ss[n + 1 + 1] /\ Listed(ss[n + 1 + 1])
      <4>1. PICK k \in 1 .. N : k = n + 1 + 1
        BY <3>1
      <4>2. k # 1 /\ k - 1 = n + 1
        BY <3>1, <4>1
      <4>3. f[k] = f[k-1] \o ss[k]
        BY <2>3, <4>2
      <4>4. Listed(ss[k])
        OBVIOUS
      <4> QED
        BY <4>1, <4>2, <4>3, <4>4
    <3> DEFINE m == n + 1
               s == f[m]
    <3> HIDE DEF m, s
    <3>4. m \in Nat /\ Listed(ss[m + 1]) /\ JoinedTo(s, ss, e, m)
      BY <3>1, <3>2, <3>3 DEF m, s
    <3>5. \E g : JoinedTo(s \o ss[m + 1], ss, g, m + 1)
      BY <3>4, JoinedFurther
    <3> QED
      BY <3>3, <3>5 DEF m, s
  <2> HIDE DEF S
  <2>6. \A n \in Nat : n \in S
    BY <2>4, <2>5, Ascent
  <2>7. N - 1 \in Nat /\ N - 1 + 1 = N
    BY <1>1, <1>3
  <2>8. \E e : JoinedTo(f[N - 1 + 1], ss, e, N - 1 + 1)
    BY <2>6, <2>7 DEF S
  <2> QED
    BY <2>2, <2>7, <2>8 DEF Joined
<1> QED
  BY <1>2, <1>3

Placed(x, ss, e, n) == \E i \in 1 .. n : \E k \in 1 .. Len(ss[i]) : x = e[i-1] + k

\* Every place of the whole is a place of a part.
LEMMA PlacesJoined ==
    ASSUME NEW ss, NEW n \in Nat, \A i \in 1 .. n : Listed(ss[i]),
           NEW s, NEW e, JoinedTo(s, ss, e, n), NEW x \in 1 .. Len(s)
    PROVE  Placed(x, ss, e, n)
<1>1. /\ Len(s) = e[n] /\ e[n] \in Nat /\ e[0] = 0 /\ \A i \in 0 .. n : e[i] \in Nat
      /\ \A i \in 1 .. n : e[i] = e[i-1] + Len(ss[i])
  BY DEF JoinedTo
<1> DEFINE S == {i \in Nat : i <= n /\ x <= e[i]}
<1>2. n \in S
  BY <1>1
<1>3. S \subseteq Nat /\ S # {}
  BY <1>2
<1>4. PICK i \in S : \A j \in S : i <= j
  BY <1>3, LeastPosition
<1>5. i # 0 /\ i \in 1 .. n /\ i - 1 \in 0 .. n /\ i - 1 \notin S
  BY <1>1, <1>4
<1>6. e[i-1] < x /\ e[i-1] \in Nat /\ e[i] \in Nat /\ x <= e[i] /\ e[i] = e[i-1] + Len(ss[i])
  BY <1>1, <1>4, <1>5
<1> DEFINE k == x - e[i-1]
           l == Len(ss[i])
<1>7. k \in 1 .. l /\ x = e[i-1] + k
  <2> DEFINE a == e[i-1]
             b == e[i]
  <2>1. a < x /\ a \in Nat /\ b \in Nat /\ x <= b /\ b = a + l /\ x \in Nat /\ k = x - a
    BY <1>6
  <2>3. l \in Nat
    BY <1>5, ListFacts
  <2> HIDE DEF a, b, k, l
  <2>2. k \in 1 .. l /\ x = a + k
    BY <2>1, <2>3
  <2> QED
    BY <2>2 DEF a
<1> HIDE DEF k
<1> QED
  BY <1>5, <1>7 DEF Placed

\* p is what t holds from the mark m up to the next mark, or to the end.
Tile(t, M, m, p) ==
    \E size \in Nat :
        /\ Listed(p) /\ Len(p) = size + 1 /\ m + size <= Len(t)
        /\ \A k \in 0 .. size : p[k + 1] = t[m + k]
        /\ \A k \in 1 .. size : m + k \notin M
        /\ m + size = Len(t) \/ m + size + 1 \in M

\* Tiles lie close together: from the first mark on they make up the list.
LEMMA TilesJoin ==
    ASSUME NEW t, Listed(t), NEW b \in Nat, NEW M, M \subseteq b + 1 .. Len(t), b + 1 \in M,
           NEW ss, Listed(ss), Len(ss) = Cardinality(M),
           \A n \in 1 .. Len(ss) : Tile(t, M, InOrder(M)[n], ss[n])
    PROVE  Stretch(t, b, Len(t) - b, FlattenSeq(ss))
<1> DEFINE N == Len(ss)
           L == Len(t)
           at == InOrder(M)
           F == FlattenSeq(ss)
<1>1. L \in Nat /\ N \in Nat /\ (\A i \in M : i \in Nat /\ b + 1 <= i /\ i <= L) /\ M \subseteq Int
  BY ListFacts
<1>2. IsFiniteSet(M)
  <2>1. IsFiniteSet(1 .. L)
    BY <1>1, UpTo
  <2>2. M \in SUBSET (1 .. L)
    BY <1>1
  <2> QED
    BY <2>1, <2>2, FS_Subset
<1>3. Ordered(at, M) /\ Len(at) = N /\ N # 0
  <2>1. Ordered(at, M) /\ Len(at) = N
    BY <1>1, <1>2, InOrderFacts
  <2>2. Cardinality(M) # 0
    BY <1>2, FS_EmptySet
  <2> QED
    BY <2>1, <2>2
<1>4. /\ \A n \in 1 .. N : at[n] \in M
      /\ \A k, n \in 1 .. N : k < n => at[k] < at[n]
      /\ \A i \in M : \E n \in 1 .. N : at[n] = i
  BY <1>3 DEF Ordered
<1>5. \A i \in 1 .. N : Listed(ss[i]) /\ Tile(t, M, at[i], ss[i])
  BY DEF Tile
<1>6. PICK e : Joined(F, ss, e)
  BY <1>5, FlattenFacts
<1> HIDE DEF at, F
<1>7. /\ Listed(F) /\ e[0] = 0 /\ \A i \in 0 .. N : e[i] \in Nat
      /\ \A i \in 1 .. N : e[i] = e[i-1] + Len(ss[i])
      /\ Len(F) = e[N]
      /\ \A i \in 1 .. N : \A k \in 1 .. Len(ss[i]) : F[e[i-1] + k] = ss[i][k]
  BY <1>6 DEF Joined, JoinedTo
<1> HIDE DEF N, L
<1> DEFINE S == {n \in Nat : n + 1 <= N => at[n + 1] = b + e[n] + 1}
<1>8. 0 \in S
  <2> SUFFICES at[1] = b + 1
    BY <1>7
  <2>1. PICK n \in 1 .. N : at[n] = b + 1
    BY <1>4
  <2>2. 1 \in 1 .. N /\ (n # 1 => 1 < n)
    BY <1>1, <1>3
  <2>3. at[1] \in M /\ (n # 1 => at[1] < at[n])
    BY <1>4, <2>2
  <2>4. at[1] \in Nat /\ b + 1 <= at[1]
    BY <1>1, <2>3
  <2> QED
    BY <2>1, <2>3, <2>4
<1>9. ASSUME NEW n \in 1 .. N, at[n] = b + e[n-1] + 1
      PROVE  /\ n + 1 <= N => at[n + 1] = b + e[n] + 1
             /\ n = N => b + e[n] = L
             /\ \A k \in 1 .. Len(ss[n]) : F[e[n-1] + k] = t[b + (e[n-1] + k)]
  <2>1. PICK size \in Nat :
            /\ Len(ss[n]) = size + 1 /\ at[n] + size <= L
            /\ \A k \in 0 .. size : ss[n][k + 1] = t[at[n] + k]
            /\ \A k \in 1 .. size : at[n] + k \notin M
            /\ at[n] + size = L \/ at[n] + size + 1 \in M
    BY <1>5 DEF Tile, L
  <2> DEFINE m == at[n]
             a == e[n-1]
  <2>2. m \in Nat /\ a \in Nat /\ m = b + a + 1 /\ e[n] = a + (size + 1)
    <3>1. n - 1 \in 0 .. N
      BY <1>1
    <3>2. a \in Nat /\ e[n] = a + Len(ss[n])
      BY <1>7, <3>1
    <3>3. m \in M /\ m = b + a + 1
      BY <1>4, <1>9
    <3> QED
      BY <1>1, <2>1, <3>2, <3>3
  <2>7. /\ Len(ss[n]) = size + 1 /\ m + size <= L
        /\ \A k \in 0 .. size : ss[n][k + 1] = t[m + k]
        /\ \A k \in 1 .. size : m + k \notin M
        /\ m + size = L \/ m + size + 1 \in M
        /\ \A k \in 1 .. N : (n < k => m < at[k]) /\ (k < n => at[k] < m) /\ (k = n => at[k] = m)
        /\ \A k \in 1 .. Len(ss[n]) : F[a + k] = ss[n][k]
    BY <1>4, <1>7, <2>1
  <2> HIDE DEF m, a
  <2>3. ASSUME NEW j \in M, m < j PROVE m + size + 1 <= j
    <3>1. \A k \in 1 .. size : j # m + k
      BY <2>7
    <3>2. j - m \in Int /\ j - m > 0 /\ j = m + (j - m)
      BY <1>1, <2>2, <2>3
    <3>3. j - m \notin 1 .. size
      BY <3>1, <3>2
    <3> QED
      BY <1>1, <2>2, <3>2, <3>3
  <2>4. ASSUME n + 1 <= N PROVE at[n + 1] = b + e[n] + 1
    <3>1. n + 1 \in 1 .. N /\ n < n + 1
      BY <1>1, <2>4
    <3>2. at[n + 1] \in M /\ m < at[n + 1]
      BY <1>4, <2>7, <3>1
    <3>3. m + size + 1 <= at[n + 1]
      BY <2>3, <3>2
    <3>4. m + size # L
      <4>1. at[n + 1] \in Nat /\ at[n + 1] <= L
        BY <1>1, <3>2
      <4> QED
        BY <1>1, <2>2, <3>3, <4>1
    <3>5. PICK l \in 1 .. N : at[l] = m + size + 1
      BY <1>4, <2>7, <3>4
    <3>6. ~(l <= n)
      <4>1. (l < n => at[l] < m) /\ (l = n => at[l] = m)
        BY <2>7
      <4> QED
        BY <2>2, <3>5, <4>1
    <3>7. l = n + 1 \/ at[n + 1] < at[l]
      BY <1>4, <3>1, <3>6
    <3>8. at[n + 1] \in Nat
      BY <1>1, <3>2
    <3>9. at[n + 1] = m + size + 1
      BY <2>2, <3>3, <3>5, <3>7, <3>8
    <3> QED
      BY <2>2, <3>9
  <2>5. ASSUME n = N PROVE b + e[n] = L
    <3>1. m + size = L
      <4> SUFFICES ASSUME m + size + 1 \in M PROVE FALSE
        BY <2>7
      <4>1. PICK l \in 1 .. N : at[l] = m + size + 1
        BY <1>4
      <4>2. (l < n => at[l] < m) /\ (l = n => at[l] = m)
        BY <2>7
      <4>3. l <= n
        BY <1>1, <2>5
      <4> QED
        BY <1>1, <2>2, <4>1, <4>2, <4>3
    <3> QED
      BY <2>2, <3>1
  <2>6. ASSUME NEW k \in 1 .. Len(ss[n]) PROVE F[e[n-1] + k] = t[b + (e[n-1] + k)]
    <3>1. F[a + k] = ss[n][k]
      BY <2>7
    <3>2. PICK l \in 0 .. size : k = l + 1
      <4>1. k - 1 \in 0 .. size /\ k = k - 1 + 1
        BY <2>7
      <4> QED
        BY <4>1
    <3>3. ss[n][k] = t[m + l]
      BY <2>7, <3>2
    <3>4. m + l = b + (a + k)
      BY <2>2, <3>2
    <3> QED
      BY <3>1, <3>3, <3>4 DEF a
  <2> QED
    BY <2>4, <2>5, <2>6
<1>10. ASSUME NEW n \in Nat, n \in S PROVE n + 1 \in S
  <2> SUFFICES ASSUME n + 1 + 1 <= N PROVE at[n + 1 + 1] = b + e[n + 1] + 1
    OBVIOUS
  <2>1. PICK m \in 1 .. N : m = n + 1
    BY <1>1
  <2>2. m - 1 = n /\ at[m] = b + e[n] + 1 /\ m + 1 <= N
    BY <1>10, <2>1
  <2>3. at[m + 1] = b + e[m] + 1
    BY <1>9, <2>2
  <2> QED
    BY <2>1, <2>3
<1> HIDE DEF S
<1>11. \A n \in Nat : n \in S
  BY <1>8, <1>10, Ascent
<1>12. ASSUME NEW n \in 1 .. N PROVE at[n] = b + e[n-1] + 1
  <2>1. n - 1 \in Nat /\ n - 1 + 1 = n /\ n <= N
    BY <1>1
  <2>2. n - 1 \in S
    BY <1>11, <2>1
  <2> QED
    BY <2>1, <2>2 DEF S
<1>13. b + e[N] = L /\ Len(F) = L - b /\ b + Len(F) = L
  <2>1. N \in 1 .. N /\ e[N] \in Nat
    BY <1>1, <1>3, <1>7
  <2>2. b + e[N] = L
    BY <1>9, <1>12, <2>1
  <2> QED
    BY <1>1, <1>7, <2>1, <2>2
<1>14. ASSUME NEW x \in 1 .. Len(F) PROVE F[x] = t[b + x]
  <2>0. \A i \in 1 .. N : Listed(ss[i])
    BY <1>5
  <2>1. JoinedTo(F, ss, e, N)
    BY <1>6 DEF Joined, N
  <2>2. PICK i \in 1 .. N : \E k \in 1 .. Len(ss[i]) : x = e[i-1] + k
    <3>1. Placed(x, ss, e, N)
      BY <1>1, <2>0, <2>1, PlacesJoined
    <3> QED
      BY <3>1 DEF Placed
  <2>3. PICK k \in 1 .. Len(ss[i]) : x = e[i-1] + k
    BY <2>2
  <2>4. F[e[i-1] + k] = t[b + (e[i-1] + k)]
    BY <1>9, <1>12
  <2> QED
    BY <2>3, <2>4
<1>15. L - b \in Nat /\ Len(F) = L - b /\ Listed(F) /\ b + (L - b) <= L
  BY <1>1, <1>7, <1>13
<1> QED
  BY <1>14, <1>15 DEF Stretch, F, L

LEMMA EndsRise ==
    ASSUME NEW n \in Nat, NEW e, \A i \in 0 .. n : e[i] \in Nat, \A i \in 1 .. n : e[i-1] <= e[i],
           NEW i \in 0 .. n, NEW j \in 0 .. n, i <= j
    PROVE  e[i] <= e[j]
<1> DEFINE S == {m \in Nat : i + m <= n => e[i] <= e[i + m]}
<1>1. 0 \in S
  <2>1. e[i] \in Nat /\ i + 0 = i
    OBVIOUS
  <2> QED
    BY <2>1
<1>2. ASSUME NEW m \in Nat, m \in S PROVE m + 1 \in S
  <2> SUFFICES ASSUME i + (m + 1) <= n PROVE e[i] <= e[i + (m + 1)]
    OBVIOUS
  <2>1. PICK k \in 1 .. n : k = i + (m + 1)
    OBVIOUS
  <2>2. k - 1 = i + m /\ i + m <= n /\ k - 1 \in 0 .. n /\ k \in 0 .. n
    BY <2>1
  <2>3. e[i] <= e[k - 1] /\ e[k - 1] <= e[k] /\ e[i] \in Nat /\ e[k - 1] \in Nat /\ e[k] \in Nat
    BY <1>2, <2>2
  <2> QED
    BY <2>1, <2>3
<1> HIDE DEF S
<1>3. \A m \in Nat : m \in S
  BY <1>1, <1>2, Ascent
<1>4. j - i \in Nat /\ i + (j - i) = j
  OBVIOUS
<1>5. j - i \in S
  BY <1>3, <1>4
<1> QED
  BY <1>4, <1>5 DEF S

Parts(ss) == \A n \in 1 .. Len(ss) : Listed(ss[n]) /\ Len(ss[n]) # 0

\* The marks of t behind b are what the parts ss begin with.
Marking(t, b, M, ss) ==
    \A n \in 1 .. Len(ss) : \A k \in 1 .. Len(ss[n]) : \A i \in b + 1 .. Len(t) :
        t[i] = ss[n][k] => (i \in M <=> k = 1)

\* The parts ss are the tiles of t behind b.
Apart(t, b, M, ss) ==
    /\ Ordered(InOrder(M), M) /\ Len(InOrder(M)) = Len(ss) /\ Cardinality(M) = Len(ss)
    /\ \A n \in 1 .. Len(ss) : Tile(t, M, InOrder(M)[n], ss[n])
    /\ Len(ss) # 0 => InOrder(M)[1] = b + 1

\* A list put together of parts that begin with a mark and have no other is
\* taken apart into them.
LEMMA TilesApart ==
    ASSUME NEW t, Listed(t), NEW b \in Nat, NEW M, M \subseteq b + 1 .. Len(t),
           NEW ss, Listed(ss), Parts(ss),
           Stretch(t, b, Len(t) - b, FlattenSeq(ss)),
           Marking(t, b, M, ss)
    PROVE  Apart(t, b, M, ss)
<1> DEFINE N == Len(ss)
           L == Len(t)
           F == FlattenSeq(ss)
<1>1. L \in Nat /\ N \in Nat /\ (\A i \in M : i \in Nat /\ b + 1 <= i /\ i <= L) /\ M \subseteq Int
  <2>1. L \in Nat /\ N \in Nat
    BY ListFacts
  <2>2. M \subseteq b + 1 .. L
    OBVIOUS
  <2> HIDE DEF L, N
  <2> QED
    BY <2>1, <2>2
<1>2. IsFiniteSet(M)
  <2>1. IsFiniteSet(1 .. L)
    BY <1>1, UpTo
  <2>2. M \in SUBSET (1 .. L)
    BY <1>1
  <2> QED
    BY <2>1, <2>2, FS_Subset
<1>3. \A i \in 1 .. N : Listed(ss[i]) /\ Len(ss[i]) \in Nat \ {0}
  BY ListFacts DEF Parts
<1>4. \A n \in 1 .. N : \A k \in 1 .. Len(ss[n]) : \A i \in b + 1 .. L :
            t[i] = ss[n][k] => (i \in M <=> k = 1)
  BY DEF Marking
<1>5. Len(F) = L - b /\ b + (L - b) <= L /\ \A x \in 1 .. L - b : F[x] = t[b + x]
  BY DEF Stretch
<1>6. PICK e : Joined(F, ss, e)
  BY <1>3, FlattenFacts
<1>7. JoinedTo(F, ss, e, N)
  BY <1>6 DEF Joined
<1> HIDE DEF F, N, L
<1>8. /\ e[0] = 0 /\ \A i \in 0 .. N : e[i] \in Nat
      /\ \A i \in 1 .. N : e[i] = e[i-1] + Len(ss[i])
      /\ Len(F) = e[N]
      /\ \A i \in 1 .. N : \A k \in 1 .. Len(ss[i]) : F[e[i-1] + k] = ss[i][k]
  BY <1>7 DEF JoinedTo
<1>9. L - b = e[N] /\ e[N] \in Nat
  <2>1. N \in 0 .. N
    BY <1>1
  <2> QED
    BY <1>5, <1>8, <2>1
<1>10. ASSUME NEW i \in 1 .. N
       PROVE  /\ i - 1 \in 0 .. N /\ i \in 0 .. N /\ e[i-1] \in Nat /\ e[i] \in Nat
              /\ e[i] = e[i-1] + Len(ss[i]) /\ e[i-1] < e[i] /\ e[i] <= e[N]
  <2>1. i - 1 \in 0 .. N /\ i \in 0 .. N /\ N \in 0 .. N /\ i <= N
    BY <1>1
  <2>2. \A j \in 1 .. N : e[j-1] <= e[j]
    <3> SUFFICES ASSUME NEW j \in 1 .. N PROVE e[j-1] <= e[j]
      OBVIOUS
    <3>1. j - 1 \in 0 .. N
      BY <1>1
    <3>2. e[j-1] \in Nat /\ e[j] = e[j-1] + Len(ss[j]) /\ Len(ss[j]) \in Nat
      BY <1>3, <1>8, <3>1
    <3> QED
      BY <3>2
  <2>3. e[i] <= e[N]
    BY <1>1, <1>8, <2>1, <2>2, EndsRise
  <2>4. e[i-1] \in Nat /\ e[i] \in Nat /\ e[i] = e[i-1] + Len(ss[i]) /\ Len(ss[i]) \in Nat \ {0}
    BY <1>3, <1>8, <2>1
  <2> QED
    BY <2>1, <2>3, <2>4
<1> DEFINE X(i, k) == b + (e[i-1] + k)
<1>11. ASSUME NEW i \in 1 .. N, NEW k \in 1 .. Len(ss[i])
       PROVE  X(i, k) \in b + 1 .. L /\ t[X(i, k)] = ss[i][k] /\ (X(i, k) \in M <=> k = 1)
  <2> DEFINE a == e[i-1]
             l == Len(ss[i])
             z == e[i]
             y == a + k
             x == b + y
  <2>1. l \in Nat /\ a \in Nat /\ z \in Nat /\ z = a + l /\ z <= L - b /\ k \in 1 .. l
    BY <1>3, <1>9, <1>10
  <2>3. F[y] = ss[i][k] /\ X(i, k) = b + y
    BY <1>8
  <2> HIDE DEF a, l, z, X
  <2>2. y \in 1 .. L - b
    BY <1>1, <2>1
  <2> HIDE DEF y
  <2>4. x \in b + 1 .. L /\ t[x] = ss[i][k]
    BY <1>1, <1>5, <2>2, <2>3
  <2> HIDE DEF x
  <2>5. x \in M <=> k = 1
    BY <1>4, <2>4
  <2> QED
    BY <2>3, <2>4, <2>5 DEF x
<1> HIDE DEF X
<1> DEFINE at == [n \in 1 .. N |-> b + (e[n-1] + 1)]
<1>12. Listed(at) /\ Len(at) = N
  <2>1. DOMAIN at = 1 .. N /\ at = [n \in 1 .. N |-> at[n]]
    OBVIOUS
  <2> HIDE DEF at
  <2> QED
    BY <1>1, <2>1, IndexedListed
<1>13. \A n \in 1 .. N : at[n] = b + (e[n-1] + 1)
  OBVIOUS
<1> HIDE DEF at
<1>14. ASSUME NEW n \in 1 .. N PROVE at[n] \in M
  <2>1. 1 \in 1 .. Len(ss[n])
    BY <1>3
  <2>2. b + (e[n-1] + 1) \in M
    BY <1>11, <2>1 DEF X
  <2> QED
    BY <1>13, <2>2
<1>15. ASSUME NEW k \in 1 .. N, NEW n \in 1 .. N, k < n PROVE at[k] < at[n]
  <2>1. k \in 0 .. N /\ n - 1 \in 0 .. N /\ k <= n - 1
    BY <1>1, <1>15
  <2>2. \A j \in 1 .. N : e[j-1] <= e[j]
    <3> SUFFICES ASSUME NEW j \in 1 .. N PROVE e[j-1] <= e[j]
      OBVIOUS
    <3> QED
      BY <1>10
  <2>3. e[k] <= e[n-1]
    BY <1>1, <1>8, <2>1, <2>2, EndsRise
  <2>4. e[k-1] < e[k] /\ e[k-1] \in Nat /\ e[k] \in Nat /\ e[n-1] \in Nat
    BY <1>10
  <2>5. at[k] = b + (e[k-1] + 1) /\ at[n] = b + (e[n-1] + 1)
    BY <1>13
  <2> DEFINE p == e[k-1]
             q == e[k]
             r == e[n-1]
             v == at[k]
             w == at[n]
  <2>6. p < q /\ q <= r /\ p \in Nat /\ q \in Nat /\ r \in Nat /\ v = b + (p + 1) /\ w = b + (r + 1)
    BY <2>3, <2>4, <2>5
  <2> HIDE DEF p, q, r, v, w
  <2>7. v < w
    BY <2>6
  <2> QED
    BY <2>7 DEF v, w
<1>16. ASSUME NEW i \in M PROVE \E n \in 1 .. N : at[n] = i
  <2> DEFINE x == i - b
  <2>1. x \in 1 .. L - b /\ i = b + x /\ i \in b + 1 .. L
    BY <1>1
  <2>2. x \in 1 .. Len(F) /\ \A j \in 1 .. N : Listed(ss[j])
    BY <1>3, <1>5, <2>1
  <2> HIDE DEF x
  <2>3. Placed(x, ss, e, N)
    BY <1>1, <1>7, <2>2, PlacesJoined
  <2>4. PICK n \in 1 .. N : \E k \in 1 .. Len(ss[n]) : x = e[n-1] + k
    BY <2>3 DEF Placed
  <2>5. PICK k \in 1 .. Len(ss[n]) : x = e[n-1] + k
    BY <2>4
  <2>6. k = 1
    <3>1. i = X(n, k)
      BY <2>1, <2>5 DEF X
    <3> QED
      BY <1>11, <3>1
  <2> QED
    BY <1>13, <2>1, <2>5, <2>6
<1>17. Ordered(at, M)
  BY <1>12, <1>14, <1>15, <1>16 DEF Ordered
<1>18. Ordered(InOrder(M), M) /\ Len(InOrder(M)) = Cardinality(M)
  BY <1>1, <1>2, InOrderFacts
<1>19. InOrder(M) = at
  BY <1>1, <1>17, <1>18, OrderedOnce
<1>20. ASSUME NEW n \in 1 .. N PROVE Tile(t, M, at[n], ss[n])
  <2> DEFINE size == Len(ss[n]) - 1
             m == at[n]
  <2>1. size \in Nat /\ Len(ss[n]) = size + 1
    BY <1>3
  <2>2. m = b + (e[n-1] + 1) /\ m \in Nat /\ e[n-1] \in Nat /\ e[n] = e[n-1] + (size + 1) /\ e[n] \in Nat
        /\ e[n] <= e[N]
    BY <1>10, <1>13, <2>1
  <2> HIDE DEF size, m
  <2>3. m + size = b + e[n] /\ m + size <= L
    <3> DEFINE p == e[n-1]
               q == e[n]
               r == e[N]
    <3>1. m = b + (p + 1) /\ m \in Nat /\ p \in Nat /\ q = p + (size + 1) /\ q \in Nat /\ q <= r
          /\ r \in Nat /\ L - b = r
      BY <1>9, <2>2
    <3> HIDE DEF p, q, r
    <3>2. m + size = b + q /\ m + size <= L
      BY <1>1, <2>1, <3>1
    <3> QED
      BY <3>2 DEF q
  <2>4. ASSUME NEW k \in 0 .. size PROVE ss[n][k + 1] = t[m + k] /\ (k # 0 => m + k \notin M)
    <3>1. PICK l \in 1 .. Len(ss[n]) : l = k + 1
      BY <2>1
    <3>2. t[X(n, l)] = ss[n][l] /\ (X(n, l) \in M <=> l = 1)
      BY <1>11
    <3>3. X(n, l) = b + (e[n-1] + l)
      BY DEF X
    <3> DEFINE p == e[n-1]
               x == X(n, l)
    <3>4. p \in Nat /\ m = b + (p + 1) /\ x = b + (p + l)
      BY <2>2, <3>3
    <3> HIDE DEF p, x, X
    <3>5. x = m + k
      BY <3>1, <3>4
    <3>6. t[x] = ss[n][l] /\ (x \in M <=> l = 1)
      BY <3>2 DEF x
    <3> QED
      BY <3>1, <3>5, <3>6
  <2>5. m + size = L \/ m + size + 1 \in M
    <3>1. CASE n = N
      BY <1>1, <1>9, <2>3, <3>1
    <3>2. CASE n # N
      <4>1. PICK l \in 1 .. N : l = n + 1
        BY <1>1, <3>2
      <4>2. at[l] = b + (e[n] + 1) /\ at[l] \in M
        BY <1>13, <1>14, <4>1
      <4>3. at[l] = m + size + 1
        BY <2>2, <2>3, <4>2
      <4> QED
        BY <4>2, <4>3
    <3> QED
      BY <3>1, <3>2
  <2>6. \A k \in 1 .. size : m + k \notin M
    BY <2>1, <2>4
  <2> QED
    BY <1>3, <2>1, <2>3, <2>4, <2>5, <2>6 DEF Tile, L, m
<1>21. N # 0 => at[1] = b + 1
  <2>1. N # 0 => 1 \in 1 .. N /\ 1 - 1 = 0
    BY <1>1
  <2> QED
    BY <1>8, <1>13, <2>1
<1> QED
  BY <1>12, <1>18, <1>19, <1>20, <1>21 DEF N, Apart

-----------------------------------------------------------------------------
(* Layouts.                                                                *)

\* part is what stands behind the mark i.
Standing(t, M, i, part) ==
    /\ Listed(part) /\ Len(part) \in Nat
    /\ \A k \in 1 .. Len(part) : i + k \in 1 .. Len(t) /\ part[k] = t[i + k]
    /\ \A p : Tile(t, M, i, p) <=> /\ Listed(p) /\ Len(p) = Len(part) + 1 /\ p[1] = t[i]
                                    /\ \A k \in 1 .. Len(part) : p[k + 1] = part[k]

\* A tile is its mark and what stands between that and the next.
LEMMA Marked ==
    ASSUME NEW t, Listed(t), NEW M, M \subseteq 1 .. Len(t), NEW i \in M,
           NEW later, later = {j \in M : j > i},
           NEW part, part = SubSeq(t, i + 1, IF later = {} THEN Len(t) ELSE First(later) - 1)
    PROVE  Standing(t, M, i, part)
<1> DEFINE L == Len(t)
<1>1. i \in 1 .. Len(t) /\ i \in Nat /\ Len(t) \in Nat
  BY ListFacts
<1>2. PICK n \in Nat : Between(t, M, i, later, n, part)
  BY <1>1, StretchFacts
<1>3. /\ Listed(part) /\ Len(part) = n /\ i + n <= Len(t)
      /\ \A k \in 1 .. n : part[k] = t[i + k] /\ i + k \notin M
      /\ later = {} => i + n = Len(t)
      /\ later # {} => i + n + 1 \in M
  BY <1>2 DEF Between, Stretch
<1>4. later = {} \/ i + n + 1 \in M
  BY <1>3
<1>8. L \in Nat /\ i \in Nat /\ i + n <= L /\ (i + n = L \/ i + n + 1 \in M)
  BY <1>1, <1>3
<1>9. \A k \in 1 .. n : part[k] = t[i + k]
  BY <1>3
<1>10. \A k \in 1 .. n : i + k \notin M
  BY <1>3
<1> HIDE DEF L
<1>5. ASSUME NEW p, Listed(p), Len(p) = n + 1, p[1] = t[i], \A k \in 1 .. n : p[k + 1] = part[k]
      PROVE  Tile(t, M, i, p)
  <2>1. ASSUME NEW k \in 0 .. n PROVE p[k + 1] = t[i + k]
    <3>1. CASE k = 0
      BY <1>1, <1>5, <3>1
    <3>2. CASE k # 0
      <4>1. PICK l \in 1 .. n : l = k
        BY <3>2
      <4>2. p[l + 1] = part[l] /\ part[l] = t[i + l]
        BY <1>5, <1>9
      <4> QED
        BY <4>1, <4>2
    <3> QED
      BY <3>1, <3>2
  <2> QED
    BY <1>5, <1>8, <1>10, <2>1 DEF Tile, L
<1>6. ASSUME NEW p, Tile(t, M, i, p)
      PROVE  Listed(p) /\ Len(p) = n + 1 /\ p[1] = t[i] /\ \A k \in 1 .. n : p[k + 1] = part[k]
  <2>1. PICK size \in Nat :
            /\ Listed(p) /\ Len(p) = size + 1 /\ i + size <= L
            /\ \A k \in 0 .. size : p[k + 1] = t[i + k]
            /\ \A k \in 1 .. size : i + k \notin M
            /\ i + size = L \/ i + size + 1 \in M
    BY <1>6 DEF Tile, L
  <2>6. i + size <= L /\ (i + size = L \/ i + size + 1 \in M)
    BY <2>1
  <2>2. ~(size < n)
    <3> SUFFICES ASSUME size < n PROVE FALSE
      OBVIOUS
    <3>1. PICK k \in 1 .. n : k = size + 1
      BY <2>1
    <3>2. i + k \notin M
      BY <1>10
    <3>3. i + k = i + size + 1 /\ i + size # L
      BY <1>8, <3>1
    <3> QED
      BY <2>6, <3>2, <3>3
  <2>3. ~(n < size)
    <3> SUFFICES ASSUME n < size PROVE FALSE
      OBVIOUS
    <3>1. PICK k \in 1 .. size : k = n + 1
      BY <2>1
    <3>2. i + k \notin M
      BY <2>1
    <3>3. i + k = i + n + 1 /\ i + n # L
      BY <1>8, <2>6, <3>1
    <3> QED
      BY <1>8, <3>2, <3>3
  <2>4. size = n
    BY <2>2, <2>3
  <2>5. p[1] = t[i]
    <3>1. 0 \in 0 .. size /\ 0 + 1 = 1 /\ i + 0 = i
      BY <1>1
    <3>2. p[0 + 1] = t[i + 0]
      BY <2>1, <3>1
    <3> QED
      BY <3>1, <3>2
  <2>7. ASSUME NEW k \in 1 .. n PROVE p[k + 1] = part[k]
    <3>1. k \in 0 .. size
      BY <2>4
    <3> QED
      BY <1>9, <2>1, <3>1
  <2> QED
    BY <2>1, <2>4, <2>5, <2>7
<1>7. \A k \in 1 .. n : i + k \in 1 .. L /\ part[k] = t[i + k]
  <2> SUFFICES ASSUME NEW k \in 1 .. n PROVE i + k \in 1 .. L
    BY <1>9
  <2> QED
    BY <1>8
<1>11. Listed(part) /\ Len(part) = n
  BY <1>3
<1>12. \A p : Tile(t, M, i, p) <=> /\ Listed(p) /\ Len(p) = n + 1 /\ p[1] = t[i]
                                   /\ \A k \in 1 .. n : p[k + 1] = part[k]
  BY <1>5, <1>6
<1> QED
  BY <1>7, <1>11, <1>12 DEF Standing, L

\* A list behind one more element.
LEMMA Headed ==
    ASSUME NEW x, NEW s, Listed(s)
    PROVE  /\ Listed(<<x>> \o s) /\ Len(<<x>> \o s) = Len(s) + 1 /\ Len(s) \in Nat
           /\ (<<x>> \o s)[1] = x /\ \A k \in 1 .. Len(s) : (<<x>> \o s)[k + 1] = s[k]
<1> DEFINE w == <<x>>
<1>1. Listed(w) /\ Len(w) = 1 /\ w[1] = x
  <2>1. w \in Seq({x})
    OBVIOUS
  <2> QED
    BY <2>1, SeqListed
<1> HIDE DEF w
<1>2. /\ Listed(w \o s) /\ Len(w \o s) = Len(w) + Len(s) /\ Len(s) \in Nat
      /\ \A i \in 1 .. Len(w) : (w \o s)[i] = w[i]
      /\ \A k \in 1 .. Len(s) : (w \o s)[Len(w) + k] = s[k]
  <2>1. Listed(w)
    BY <1>1
  <2> QED
    BY <2>1, ConcatFacts
<1> DEFINE u == w \o s
<1> HIDE DEF u
<1>3. Listed(u) /\ Len(u) = Len(s) + 1 /\ u[1] = x /\ \A k \in 1 .. Len(s) : u[k + 1] = s[k]
  <2>1. Len(u) = Len(s) + 1
    BY <1>1, <1>2 DEF u
  <2>2. 1 \in 1 .. Len(w)
    BY <1>1
  <2>3. u[1] = x
    BY <1>1, <1>2, <2>2 DEF u
  <2>4. ASSUME NEW k \in 1 .. Len(s) PROVE u[k + 1] = s[k]
    <3>1. u[Len(w) + k] = s[k] /\ Len(w) + k = k + 1
      BY <1>1, <1>2 DEF u
    <3> QED
      BY <3>1
  <2> QED
    BY <1>2, <2>1, <2>3, <2>4 DEF u
<1> QED
  BY <1>2, <1>3 DEF u, w

LayoutShape(l) ==
    /\ l = [id |-> l.id, weight |-> l.weight, slots |-> l.slots]
    /\ l.weight \in Nat \ {0} /\ Listed(l.slots)
    /\ \A i \in 1 .. Len(l.slots) :
        l.slots[i] = [count |-> l.slots[i].count, pool |-> l.slots[i].pool] /\ l.slots[i].count \in Nat \ {0}

SlotLines(l) == [i \in DOMAIN l.slots |-> SlotLine(l.slots[i].count, l.slots[i].pool)]

LEMMA PrintedLayoutFacts ==
    ASSUME NEW l, Listed(l.slots)
    PROVE  LET p == PrintedLayout(l)
           IN  /\ Listed(p) /\ Len(p) = Len(l.slots) + 1 /\ Len(l.slots) \in Nat
               /\ p[1] = HeadingLine(l.id, l.weight)
               /\ \A k \in 1 .. Len(l.slots) : p[k + 1] = SlotLine(l.slots[k].count, l.slots[k].pool)
<1> DEFINE s == SlotLines(l)
           n == Len(l.slots)
           x == HeadingLine(l.id, l.weight)
<1>1. n \in Nat /\ DOMAIN s = 1 .. n /\ s = [i \in 1 .. n |-> s[i]]
      /\ \A k \in 1 .. n : s[k] = SlotLine(l.slots[k].count, l.slots[k].pool)
  BY ListFacts DEF SlotLines
<1>2. PrintedLayout(l) = <<x>> \o s
  BY DEF PrintedLayout, SlotLines
<1> HIDE DEF s, n, x
<1>3. Listed(s) /\ Len(s) = n
  BY <1>1, IndexedListed
<1>4. /\ Listed(<<x>> \o s) /\ Len(<<x>> \o s) = Len(s) + 1
      /\ (<<x>> \o s)[1] = x /\ \A k \in 1 .. Len(s) : (<<x>> \o s)[k + 1] = s[k]
  BY <1>3, Headed
<1> QED
  BY <1>1, <1>2, <1>3, <1>4 DEF n, x

LinesOf(body, kinds) ==
    Listed(body) /\ \A i \in 1 .. Len(body) : IsLine(body[i]) /\ body[i].line \in kinds

\* A layout read has its shape and was written as the lines it was read from.
LEMMA LayoutRead ==
    ASSUME NEW body, LinesOf(body, {"layout", "slot"}), NEW i \in Headings(body)
    PROVE  /\ LayoutShape(LayoutAt(body, i))
           /\ Tile(body, Headings(body), i, PrintedLayout(LayoutAt(body, i)))
           /\ \A l : LayoutShape(l) /\ Tile(body, Headings(body), i, PrintedLayout(l)) => LayoutAt(body, i) = l
<1> DEFINE M == Headings(body)
           later == {j \in M : j > i}
           part == SubSeq(body, i + 1, IF later = {} THEN Len(body) ELSE First(later) - 1)
           r == LayoutAt(body, i)
<1>1. M \subseteq 1 .. Len(body) /\ (\A j \in 1 .. Len(body) : body[j].line \in {"layout", "slot"} /\ IsLine(body[j]))
      /\ (\A j \in 1 .. Len(body) : j \notin M => body[j].line = "slot")
      /\ body[i].line = "layout" /\ Listed(body) /\ i \in 1 .. Len(body)
  BY ListFacts DEF LinesOf, Headings
<1>2. r = [id |-> body[i].id, weight |-> body[i].weight,
           slots |-> [s \in DOMAIN part |-> [count |-> part[s].count, pool |-> part[s].pool]]]
  BY DEF LayoutAt
<1> HIDE DEF M
<1>3. /\ Listed(part) /\ Len(part) \in Nat
      /\ \A k \in 1 .. Len(part) : i + k \in 1 .. Len(body) /\ part[k] = body[i + k]
      /\ \A p : Tile(body, M, i, p) <=> /\ Listed(p) /\ Len(p) = Len(part) + 1 /\ p[1] = body[i]
                                        /\ \A k \in 1 .. Len(part) : p[k + 1] = part[k]
  <2> HIDE DEF part, later
  <2>1. i \in M /\ later = {j \in M : j > i}
        /\ part = SubSeq(body, i + 1, IF later = {} THEN Len(body) ELSE First(later) - 1)
    BY DEF M, later, part
  <2>2. Standing(body, M, i, part)
    BY <1>1, <2>1, Marked
  <2> QED
    BY <2>2 DEF Standing
<1>4. \A k \in 1 .. Len(part) : i + k \notin M
  <2>1. PICK n \in Nat : Between(body, M, i, later, n, part)
    <3> HIDE DEF part, later
    <3>1. later = {j \in M : j > i}
          /\ part = SubSeq(body, i + 1, IF later = {} THEN Len(body) ELSE First(later) - 1)
      BY DEF later, part
    <3> QED
      BY <1>1, <3>1, StretchFacts
  <2> QED
    BY <2>1 DEF Between, Stretch
<1> HIDE DEF part, r
<1> DEFINE n == Len(part)
<1>5. \A k \in 1 .. n : part[k] = SlotLine(part[k].count, part[k].pool) /\ part[k].count \in Nat \ {0}
  <2> SUFFICES ASSUME NEW k \in 1 .. n
               PROVE  part[k] = SlotLine(part[k].count, part[k].pool) /\ part[k].count \in Nat \ {0}
    OBVIOUS
  <2>1. i + k \in 1 .. Len(body) /\ part[k] = body[i + k] /\ i + k \notin M
    BY <1>3, <1>4
  <2>2. IsLine(part[k]) /\ part[k].line = "slot"
    BY <1>1, <2>1
  <2> QED
    BY <2>2, LineKinds
<1>6. body[i] = HeadingLine(body[i].id, body[i].weight) /\ body[i].weight \in Nat \ {0}
  BY <1>1, LineKinds
<1>7. DOMAIN part = 1 .. n /\ n \in Nat
  BY <1>3, ListFacts
<1>8. /\ r.slots = [s \in 1 .. n |-> [count |-> part[s].count, pool |-> part[s].pool]]
      /\ r.id = body[i].id /\ r.weight = body[i].weight
      /\ r = [id |-> r.id, weight |-> r.weight, slots |-> r.slots]
  BY <1>2, <1>7
<1>9. Listed(r.slots) /\ Len(r.slots) = n
  <2> DEFINE s == r.slots
  <2>1. DOMAIN s = 1 .. n /\ s = [k \in 1 .. n |-> s[k]]
    BY <1>8
  <2> HIDE DEF s
  <2>2. Listed(s) /\ Len(s) = n
    BY <1>7, <2>1, IndexedListed
  <2> QED
    BY <2>2 DEF s
<1>10. \A k \in 1 .. n : r.slots[k] = [count |-> part[k].count, pool |-> part[k].pool]
  BY <1>8
<1>11. LayoutShape(r)
  BY <1>5, <1>6, <1>8, <1>9, <1>10 DEF LayoutShape
<1>12. Tile(body, M, i, PrintedLayout(r))
  <2> DEFINE p == PrintedLayout(r)
  <2>1. /\ Listed(p) /\ Len(p) = n + 1 /\ p[1] = HeadingLine(r.id, r.weight)
        /\ \A k \in 1 .. n : p[k + 1] = SlotLine(r.slots[k].count, r.slots[k].pool)
    BY <1>9, PrintedLayoutFacts
  <2> HIDE DEF p
  <2>2. ASSUME NEW k \in 1 .. n PROVE p[k + 1] = part[k]
    <3>1. p[k + 1] = SlotLine(r.slots[k].count, r.slots[k].pool)
      BY <2>1
    <3> DEFINE q == r.slots[k]
               c == part[k].count
               o == part[k].pool
    <3>3. q = [count |-> c, pool |-> o]
      BY <1>10
    <3> HIDE DEF q, c, o
    <3>4. q.count = c /\ q.pool = o
      BY <3>3
    <3>2. r.slots[k].count = part[k].count /\ r.slots[k].pool = part[k].pool
      BY <3>4 DEF q, c, o
    <3> QED
      BY <1>5, <3>1, <3>2
  <2>3. p[1] = body[i]
    BY <1>6, <1>8, <2>1
  <2> QED
    BY <1>3, <2>1, <2>2, <2>3 DEF p
<1>13. ASSUME NEW l, LayoutShape(l), Tile(body, M, i, PrintedLayout(l)) PROVE r = l
  <2> DEFINE p == PrintedLayout(l)
             m == Len(l.slots)
  <2>1. /\ l = [id |-> l.id, weight |-> l.weight, slots |-> l.slots] /\ Listed(l.slots)
        /\ \A k \in 1 .. m : l.slots[k] = [count |-> l.slots[k].count, pool |-> l.slots[k].pool]
    BY <1>13 DEF LayoutShape
  <2>2. /\ Len(p) = m + 1 /\ m \in Nat /\ p[1] = HeadingLine(l.id, l.weight)
        /\ \A k \in 1 .. m : p[k + 1] = SlotLine(l.slots[k].count, l.slots[k].pool)
    BY <2>1, PrintedLayoutFacts
  <2>3. Len(p) = n + 1 /\ p[1] = body[i] /\ \A k \in 1 .. n : p[k + 1] = part[k]
    BY <1>3, <1>13
  <2> HIDE DEF p, m
  <2>4. m = n
    BY <1>7, <2>2, <2>3
  <2>5. l.id = r.id /\ l.weight = r.weight
    BY <1>8, <2>2, <2>3 DEF HeadingLine
  <2>6. ASSUME NEW k \in 1 .. n PROVE l.slots[k] = r.slots[k]
    <3>1. part[k] = SlotLine(l.slots[k].count, l.slots[k].pool)
      BY <2>2, <2>3, <2>4
    <3>2. part[k].count = l.slots[k].count /\ part[k].pool = l.slots[k].pool
      BY <3>1 DEF SlotLine
    <3>3. l.slots[k] = [count |-> l.slots[k].count, pool |-> l.slots[k].pool]
      BY <2>1, <2>4
    <3> QED
      BY <1>10, <3>2, <3>3
  <2>7. l.slots = r.slots
    BY <1>9, <2>1, <2>4, <2>6, SameLists DEF m
  <2> QED
    BY <1>8, <2>1, <2>5, <2>7
<1> QED
  BY <1>11, <1>12, <1>13 DEF M, r

\* The front of a list and its last are all there is.
LEMMA FrontAndLast ==
    ASSUME NEW s, Listed(s), s # <<>>
    PROVE  \A i \in 1 .. Len(s) : s[i] \in ToSet(Front(s)) \cup {Last(s)}
<1> DEFINE n == Len(s) - 1
           f == Front(s)
<1>1. Len(s) \in Nat \ {0} /\ n \in 0 .. Len(s)
  BY ListFacts
<1>2. Listed(SubSeq(s, 1, n)) /\ Len(SubSeq(s, 1, n)) = n /\ \A i \in 1 .. n : SubSeq(s, 1, n)[i] = s[i]
  BY <1>1, SubSeqListed
<1>3. f = SubSeq(s, 1, n) /\ Last(s) = s[Len(s)]
  BY DEF Front, Last
<1> SUFFICES ASSUME NEW i \in 1 .. Len(s) PROVE s[i] \in ToSet(f) \/ s[i] = Last(s)
  OBVIOUS
<1>4. CASE i = Len(s)
  BY <1>3, <1>4
<1>5. CASE i # Len(s)
  <2>1. i \in 1 .. n
    BY <1>1, <1>5
  <2>2. Listed(f) /\ Len(f) = n /\ f[i] = s[i]
    BY <1>2, <1>3, <2>1
  <2> HIDE DEF f, n
  <2>3. f[i] \in ToSet(f)
    BY <2>1, <2>2, ListFacts
  <2> QED
    BY <2>2, <2>3
<1> QED
  BY <1>4, <1>5

\* and nothing else is.
LEMMA FrontAndLastOnly ==
    ASSUME NEW s, Listed(s), s # <<>>
    PROVE  ToSet(Front(s)) \subseteq ToSet(s) /\ Last(s) \in ToSet(s)
<1> DEFINE n == Len(s) - 1
           f == SubSeq(s, 1, n)
<1>1. Len(s) \in Nat \ {0} /\ n \in 0 .. Len(s) /\ n \in Nat /\ Len(s) \in 1 .. Len(s)
      /\ \A i \in 1 .. Len(s) : s[i] \in ToSet(s)
  BY ListFacts
<1>2. Listed(f) /\ Len(f) = n /\ \A i \in 1 .. n : f[i] = s[i]
  BY <1>1, SubSeqListed
<1>3. Front(s) = f /\ Last(s) = s[Len(s)]
  BY DEF Front, Last
<1>4. \A i \in 1 .. n : i \in 1 .. Len(s)
  BY <1>1
<1> HIDE DEF f, n
<1>5. ToSet(f) = {f[i] : i \in 1 .. n}
  BY <1>2, ListFacts DEF ToSet
<1> QED
  BY <1>1, <1>2, <1>3, <1>4, <1>5

LEMMA IndexedSet ==
    ASSUME NEW s, Listed(s)
    PROVE  ToSet(s) = {s[i] : i \in 1 .. Len(s)}
BY ListFacts DEF ToSet

\* The parts are lists, and F holds what they hold.
Lists(ss) == \A i \in 1 .. Len(ss) : Listed(ss[i])
FlatOf(F, ss) ==
    /\ Listed(F)
    /\ \A x \in 1 .. Len(F) : \E i \in 1 .. Len(ss) : \E k \in 1 .. Len(ss[i]) : F[x] = ss[i][k]
    /\ \A i \in 1 .. Len(ss) : \A k \in 1 .. Len(ss[i]) : \E x \in 1 .. Len(F) : F[x] = ss[i][k]

\* Every element of the whole is one of a part's, and the other way round.
LEMMA FlattenElements ==
    ASSUME NEW ss, Listed(ss), Lists(ss)
    PROVE  FlatOf(FlattenSeq(ss), ss)
<1> DEFINE F == FlattenSeq(ss)
           N == Len(ss)
<1>1. PICK e : Joined(F, ss, e)
  BY FlattenFacts DEF Lists
<1> HIDE DEF F
<1>2. N \in Nat /\ \A i \in 1 .. N : Len(ss[i]) \in Nat
  BY ListFacts DEF Lists
<1> HIDE DEF N
<1>3. JoinedTo(F, ss, e, N) /\ \A i \in 1 .. N : Listed(ss[i])
  BY <1>1 DEF Joined, Lists, N
<1>4. /\ Listed(F) /\ e[0] = 0 /\ \A i \in 0 .. N : e[i] \in Nat
      /\ \A i \in 1 .. N : e[i] = e[i-1] + Len(ss[i])
      /\ Len(F) = e[N]
      /\ \A i \in 1 .. N : \A k \in 1 .. Len(ss[i]) : F[e[i-1] + k] = ss[i][k]
  BY <1>3 DEF JoinedTo
<1>5. ASSUME NEW x \in 1 .. Len(F)
      PROVE  \E i \in 1 .. N : \E k \in 1 .. Len(ss[i]) : F[x] = ss[i][k]
  <2>1. Placed(x, ss, e, N)
    BY <1>2, <1>3, PlacesJoined
  <2>2. PICK i \in 1 .. N : \E k \in 1 .. Len(ss[i]) : x = e[i-1] + k
    BY <2>1 DEF Placed
  <2>3. PICK k \in 1 .. Len(ss[i]) : x = e[i-1] + k
    BY <2>2
  <2>4. F[x] = ss[i][k]
    BY <1>4, <2>3
  <2> QED
    BY <2>4
<1>6. ASSUME NEW i \in 1 .. N, NEW k \in 1 .. Len(ss[i])
      PROVE  \E x \in 1 .. Len(F) : F[x] = ss[i][k]
  <2> DEFINE a == e[i-1]
             l == Len(ss[i])
             b == e[i]
             c == e[N]
  <2>1. i - 1 \in 0 .. N /\ i \in 0 .. N /\ N \in 0 .. N /\ i <= N
    BY <1>2
  <2>2. \A j \in 1 .. N : e[j-1] <= e[j]
    <3> SUFFICES ASSUME NEW j \in 1 .. N PROVE e[j-1] <= e[j]
      OBVIOUS
    <3>1. j - 1 \in 0 .. N
      BY <1>2
    <3>2. e[j-1] \in Nat /\ e[j] = e[j-1] + Len(ss[j]) /\ Len(ss[j]) \in Nat
      BY <1>2, <1>4, <3>1
    <3> QED
      BY <3>2
  <2>3. b <= c
    BY <1>2, <1>4, <2>1, <2>2, EndsRise
  <2>4. a \in Nat /\ l \in Nat /\ b = a + l /\ c \in Nat /\ Len(F) = c /\ F[a + k] = ss[i][k] /\ k \in 1 .. l
    BY <1>2, <1>4, <2>1
  <2> HIDE DEF a, l, b, c
  <2>5. a + k \in 1 .. c
    BY <2>3, <2>4
  <2> QED
    BY <2>4, <2>5
<1> QED
  BY <1>4, <1>5, <1>6 DEF FlatOf, F, N

LayoutsRead(layouts) ==
    /\ Listed(layouts) /\ layouts # <<>>
    /\ \A n \in 1 .. Len(layouts) : LayoutShape(layouts[n]) /\ Whole(layouts[n])
    /\ \A i, j \in 1 .. Len(layouts) : layouts[i].id = layouts[j].id => i = j

LayoutLines(layouts) == [i \in DOMAIN layouts |-> PrintedLayout(layouts[i])]

LEMMA LayoutLinesFacts ==
    ASSUME NEW layouts, Listed(layouts), \A n \in 1 .. Len(layouts) : LayoutShape(layouts[n])
    PROVE  /\ Listed(LayoutLines(layouts)) /\ Len(LayoutLines(layouts)) = Len(layouts)
           /\ \A n \in 1 .. Len(layouts) : /\ LayoutLines(layouts)[n] = PrintedLayout(layouts[n])
                                           /\ Listed(LayoutLines(layouts)[n])
                                           /\ Len(LayoutLines(layouts)[n]) # 0
<1> DEFINE t == LayoutLines(layouts)
           n == Len(layouts)
<1>1. n \in Nat /\ DOMAIN t = 1 .. n /\ t = [i \in 1 .. n |-> t[i]]
      /\ \A i \in 1 .. n : t[i] = PrintedLayout(layouts[i])
  BY ListFacts DEF LayoutLines
<1> HIDE DEF t, n
<1>2. Listed(t) /\ Len(t) = n
  BY <1>1, IndexedListed
<1>3. ASSUME NEW i \in 1 .. n PROVE Listed(t[i]) /\ Len(t[i]) # 0
  <2>1. Listed(layouts[i].slots)
    BY DEF LayoutShape, n
  <2>2. Listed(PrintedLayout(layouts[i])) /\ Len(PrintedLayout(layouts[i])) # 0
    BY <2>1, PrintedLayoutFacts
  <2> QED
    BY <1>1, <2>2
<1> QED
  BY <1>1, <1>2, <1>3 DEF t, n

\* What reading the section of layouts gives, and what it was read from.
LEMMA LayoutsOfFacts ==
    ASSUME NEW body, Listed(body), \A i \in 1 .. Len(body) : IsLine(body[i]), LayoutsOf(body) # Refused
    PROVE  /\ LayoutsRead(LayoutsOf(body)) /\ LinesOf(body, {"layout", "slot"})
           /\ Stretch(body, 0, Len(body) - 0, FlattenSeq(LayoutLines(LayoutsOf(body))))
<1> DEFINE M == Headings(body)
           at == InOrder(M)
           layouts == [n \in DOMAIN at |-> LayoutAt(body, at[n])]
<1>1. /\ LayoutsOf(body) = layouts /\ 1 \in M
      /\ \A i \in DOMAIN body : body[i].line \in {"layout", "slot"}
      /\ Distinct([n \in DOMAIN layouts |-> layouts[n].id])
      /\ FinishedByHeading(layouts) /\ FinishedByEnd(layouts)
  BY DEF LayoutsOf
<1>2. DOMAIN body = 1 .. Len(body) /\ Len(body) \in Nat
  BY ListFacts
<1>3. LinesOf(body, {"layout", "slot"})
  BY <1>1, <1>2 DEF LinesOf
<1>4. M \subseteq 1 .. Len(body) /\ M \subseteq Int
  BY <1>2 DEF Headings
<1> HIDE DEF M
<1>5. IsFiniteSet(M)
  BY <1>2, <1>4, UpTo, FS_Subset
<1>6. Ordered(at, M) /\ Len(at) = Cardinality(M) /\ Cardinality(M) \in Nat
  BY <1>4, <1>5, InOrderFacts
<1> DEFINE N == Len(at)
<1> HIDE DEF at
<1>7. N \in Nat /\ DOMAIN at = 1 .. N /\ \A n \in 1 .. N : at[n] \in M
  BY <1>6, ListFacts DEF Ordered
<1>8. DOMAIN layouts = 1 .. N /\ layouts = [i \in 1 .. N |-> layouts[i]]
      /\ \A n \in 1 .. N : layouts[n] = LayoutAt(body, at[n])
  BY <1>7
<1>9. N # 0
  BY <1>1, <1>5, <1>6, FS_EmptySet
<1> HIDE DEF layouts, N
<1>10. Listed(layouts) /\ Len(layouts) = N
  BY <1>7, <1>8, IndexedListed
<1>11. layouts # <<>>
  BY <1>9, <1>10, ListFacts
<1>12. ASSUME NEW n \in 1 .. N
       PROVE  LayoutShape(layouts[n]) /\ Tile(body, M, at[n], PrintedLayout(layouts[n]))
  <2>1. at[n] \in Headings(body)
    BY <1>7 DEF M
  <2>2. LayoutShape(LayoutAt(body, at[n]))
        /\ Tile(body, Headings(body), at[n], PrintedLayout(LayoutAt(body, at[n])))
    BY <1>3, <2>1, LayoutRead
  <2> QED
    BY <1>8, <2>2 DEF M
<1>13. \A n \in 1 .. N : Whole(layouts[n])
  <2>1. \A l \in ToSet(Front(layouts)) : Whole(l)
    BY <1>1 DEF FinishedByHeading
  <2>2. Whole(Last(layouts))
    BY <1>1 DEF FinishedByEnd
  <2>3. \A n \in 1 .. N : layouts[n] \in ToSet(Front(layouts)) \cup {Last(layouts)}
    BY <1>10, <1>11, FrontAndLast
  <2> QED
    BY <2>1, <2>2, <2>3
<1>14. \A i, j \in 1 .. N : layouts[i].id = layouts[j].id => i = j
  <2> DEFINE s == [n \in DOMAIN layouts |-> layouts[n].id]
  <2>1. DOMAIN s = 1 .. N /\ \A i \in 1 .. N : s[i] = layouts[i].id
    BY <1>8
  <2>2. Distinct(s)
    BY <1>1
  <2> HIDE DEF s
  <2>3. \A i, j \in 1 .. N : s[i] = s[j] => i = j
    BY <1>7, <2>1, <2>2, DistinctFacts
  <2> QED
    BY <2>1, <2>3
<1>15. LayoutsRead(layouts)
  BY <1>10, <1>11, <1>12, <1>13, <1>14 DEF LayoutsRead
<1> DEFINE ss == LayoutLines(layouts)
<1>16. Listed(ss) /\ Len(ss) = N /\ \A n \in 1 .. N : ss[n] = PrintedLayout(layouts[n])
  BY <1>10, <1>12, LayoutLinesFacts
<1> HIDE DEF ss
<1>17. \A n \in 1 .. Len(ss) : Tile(body, M, InOrder(M)[n], ss[n])
  BY <1>12, <1>16 DEF at
<1>18. M \subseteq 0 + 1 .. Len(body) /\ 0 + 1 \in M
  BY <1>1, <1>4
<1>19. Len(ss) = Cardinality(M)
  BY <1>6, <1>16 DEF N
<1>20. Stretch(body, 0, Len(body) - 0, FlattenSeq(ss))
  BY <1>16, <1>17, <1>18, <1>19, TilesJoin
<1> QED
  BY <1>1, <1>3, <1>15, <1>20 DEF ss

\* Layouts as text are read as those layouts.
LEMMA LayoutsBack ==
    ASSUME NEW body, Listed(body), \A i \in 1 .. Len(body) : IsLine(body[i]),
           NEW layouts, LayoutsRead(layouts),
           Stretch(body, 0, Len(body) - 0, FlattenSeq(LayoutLines(layouts)))
    PROVE  LayoutsOf(body) = layouts
<1> DEFINE M == Headings(body)
           ss == LayoutLines(layouts)
           F == FlattenSeq(ss)
           N == Len(layouts)
<1>1. /\ Listed(layouts) /\ layouts # <<>> /\ N \in Nat \ {0} /\ DOMAIN layouts = 1 .. N
      /\ \A n \in 1 .. N : LayoutShape(layouts[n]) /\ Whole(layouts[n])
      /\ \A i, j \in 1 .. N : layouts[i].id = layouts[j].id => i = j
  BY ListFacts DEF LayoutsRead
<1>2. DOMAIN body = 1 .. Len(body) /\ Len(body) \in Nat
  BY ListFacts
<1>3. M \subseteq 0 + 1 .. Len(body) /\ M = {i \in 1 .. Len(body) : body[i].line = "layout"}
  BY <1>2 DEF Headings
<1>4. /\ Listed(ss) /\ Len(ss) = N
      /\ \A n \in 1 .. N : ss[n] = PrintedLayout(layouts[n]) /\ Listed(ss[n]) /\ Len(ss[n]) # 0
  BY <1>1, LayoutLinesFacts
<1> HIDE DEF ss
<1>5. ASSUME NEW n \in 1 .. N, NEW k \in 1 .. Len(ss[n])
      PROVE  ss[n][k].line \in {"layout", "slot"} /\ (ss[n][k].line = "layout" <=> k = 1)
  <2> DEFINE l == layouts[n]
             p == PrintedLayout(l)
             m == Len(l.slots)
  <2>1. Listed(l.slots)
    BY <1>1 DEF LayoutShape
  <2>2. /\ Len(p) = m + 1 /\ m \in Nat /\ p[1] = HeadingLine(l.id, l.weight)
        /\ \A j \in 1 .. m : p[j + 1] = SlotLine(l.slots[j].count, l.slots[j].pool)
    BY <2>1, PrintedLayoutFacts
  <2>3. k \in 1 .. Len(p) /\ ss[n][k] = p[k]
    BY <1>4
  <2> HIDE DEF p, m
  <2>4. CASE k = 1
    BY <2>2, <2>3, <2>4 DEF HeadingLine
  <2>5. CASE k # 1
    <3>1. PICK j \in 1 .. m : k = j + 1
      <4>1. k - 1 \in 1 .. m /\ k = k - 1 + 1
        BY <2>2, <2>3, <2>5
      <4> QED
        BY <4>1
    <3>2. p[k] = SlotLine(l.slots[j].count, l.slots[j].pool)
      BY <2>2, <3>1
    <3> QED
      BY <2>3, <2>5, <3>2 DEF SlotLine
  <2> QED
    BY <2>4, <2>5
<1>6. \A n \in 1 .. Len(ss) : Listed(ss[n]) /\ Len(ss[n]) # 0
  BY <1>4
<1>7. ASSUME NEW n \in 1 .. Len(ss), NEW k \in 1 .. Len(ss[n]), NEW i \in 0 + 1 .. Len(body), body[i] = ss[n][k]
      PROVE  i \in M <=> k = 1
  <2>1. n \in 1 .. N /\ i \in 1 .. Len(body)
    BY <1>4
  <2> QED
    BY <1>3, <1>5, <1>7, <2>1
<1>18. Marking(body, 0, M, ss)
  BY <1>7 DEF Marking
<1>8. \A i \in 1 .. Len(body) : body[i].line \in {"layout", "slot"}
  <2> SUFFICES ASSUME NEW i \in 1 .. Len(body) PROVE body[i].line \in {"layout", "slot"}
    OBVIOUS
  <2>1. Len(F) = Len(body) - 0 /\ \A k \in 1 .. Len(body) - 0 : F[k] = body[0 + k]
    BY DEF Stretch, ss
  <2>2. i \in 1 .. Len(F) /\ F[i] = body[i]
    BY <1>2, <2>1
  <2>4. Lists(ss)
    BY <1>6 DEF Lists
  <2>5. FlatOf(F, ss)
    BY <1>4, <2>4, FlattenElements
  <2>3. PICK n \in 1 .. Len(ss) : \E k \in 1 .. Len(ss[n]) : F[i] = ss[n][k]
    BY <2>2, <2>5 DEF FlatOf
  <2> QED
    BY <1>4, <1>5, <2>2, <2>3
<1>9. LinesOf(body, {"layout", "slot"})
  BY <1>8 DEF LinesOf
<1> DEFINE at == InOrder(M)
<1>10. /\ Ordered(at, M) /\ Len(at) = N
       /\ \A n \in 1 .. N : Tile(body, M, at[n], ss[n])
       /\ at[1] = 0 + 1
  <2>1. Stretch(body, 0, Len(body) - 0, FlattenSeq(ss)) /\ 0 \in Nat
    BY DEF ss
  <2> HIDE DEF M
  <2>3. PICK b \in Nat : b = 0
    OBVIOUS
  <2>4. Stretch(body, b, Len(body) - b, FlattenSeq(ss)) /\ Marking(body, b, M, ss) /\ M \subseteq b + 1 .. Len(body)
    BY <1>3, <1>18, <2>1, <2>3
  <2>6. Parts(ss)
    BY <1>6 DEF Parts
  <2>5. Apart(body, b, M, ss)
    BY <1>4, <2>4, <2>6, TilesApart
  <2>2. /\ Ordered(InOrder(M), M) /\ Len(InOrder(M)) = Len(ss)
        /\ \A n \in 1 .. Len(ss) : Tile(body, M, InOrder(M)[n], ss[n])
        /\ Len(ss) # 0 => InOrder(M)[1] = 0 + 1
    BY <2>3, <2>5 DEF Apart
  <2> QED
    BY <1>1, <1>4, <2>2
<1> HIDE DEF at
<1>11. DOMAIN at = 1 .. N /\ \A n \in 1 .. N : at[n] \in M
  BY <1>10, ListFacts DEF Ordered
<1>12. ASSUME NEW n \in 1 .. N PROVE LayoutAt(body, at[n]) = layouts[n]
  <2>1. at[n] \in Headings(body) /\ Tile(body, Headings(body), at[n], PrintedLayout(layouts[n]))
    BY <1>4, <1>10, <1>11
  <2> QED
    BY <1>1, <1>9, <2>1, LayoutRead
<1> DEFINE r == [n \in DOMAIN at |-> LayoutAt(body, at[n])]
<1>13. DOMAIN r = 1 .. N /\ r = [n \in 1 .. N |-> r[n]] /\ \A n \in 1 .. N : r[n] = layouts[n]
  BY <1>11, <1>12
<1> HIDE DEF r
<1>14. r = layouts
  BY <1>1, <1>13, IndexedListed, SameLists
<1>15. 1 \in M
  BY <1>1, <1>10, <1>11
<1>16. Distinct([n \in DOMAIN layouts |-> layouts[n].id])
  BY <1>1 DEF Distinct
<1>17. FinishedByHeading(layouts) /\ FinishedByEnd(layouts)
  <2>1. \A l \in ToSet(layouts) : Whole(l)
    BY <1>1, IndexedSet
  <2> QED
    BY <1>1, <2>1, FrontAndLastOnly DEF FinishedByHeading, FinishedByEnd
<1> QED
  BY <1>2, <1>8, <1>14, <1>15, <1>16, <1>17 DEF LayoutsOf, r, at

-----------------------------------------------------------------------------
(* Pools.                                                                  *)

PoolShape(p) ==
    /\ p = [name |-> p.name, entries |-> p.entries] /\ Listed(p.entries) /\ p.entries # <<>>
    /\ \A i \in 1 .. Len(p.entries) :
        /\ p.entries[i] = [weight |-> p.entries[i].weight, card |-> p.entries[i].card]
        /\ p.entries[i].weight \in Nat \ {0}
    /\ \A i, j \in 1 .. Len(p.entries) : p.entries[i].card = p.entries[j].card => i = j

EntryLines(p) == [i \in DOMAIN p.entries |-> EntryLine(p.entries[i].weight, p.entries[i].card)]

LEMMA PrintedPoolFacts ==
    ASSUME NEW p, Listed(p.entries)
    PROVE  /\ Listed(PrintedPool(p)) /\ Len(PrintedPool(p)) = Len(p.entries) + 1 /\ Len(p.entries) \in Nat
           /\ PrintedPool(p)[1] = SectionLine(p.name)
           /\ \A k \in 1 .. Len(p.entries) :
                PrintedPool(p)[k + 1] = EntryLine(p.entries[k].weight, p.entries[k].card)
<1> DEFINE s == EntryLines(p)
           n == Len(p.entries)
           x == SectionLine(p.name)
<1>1. n \in Nat /\ DOMAIN s = 1 .. n /\ s = [i \in 1 .. n |-> s[i]]
      /\ \A k \in 1 .. n : s[k] = EntryLine(p.entries[k].weight, p.entries[k].card)
  BY ListFacts DEF EntryLines
<1>2. PrintedPool(p) = <<x>> \o s
  BY DEF PrintedPool, EntryLines
<1> HIDE DEF s, n, x
<1>3. Listed(s) /\ Len(s) = n
  BY <1>1, IndexedListed
<1>4. /\ Listed(<<x>> \o s) /\ Len(<<x>> \o s) = Len(s) + 1
      /\ (<<x>> \o s)[1] = x /\ \A k \in 1 .. Len(s) : (<<x>> \o s)[k + 1] = s[k]
  BY <1>3, Headed
<1> QED
  BY <1>1, <1>2, <1>3, <1>4 DEF n, x

\* The pool that is read at a header.
PoolOf(lines, i) ==
    [name |-> lines[i].name,
     entries |-> [e \in DOMAIN Body(lines, i) |->
                    [weight |-> Body(lines, i)[e].weight, card |-> Body(lines, i)[e].card]]]

\* A pool read has its shape and was written as the lines it was read from.
LEMMA PoolRead ==
    ASSUME NEW lines, IsText(lines), NEW M, M \subseteq Headers(lines), NEW i \in M,
           Following(lines, i) = {j \in M : j > i}
    PROVE  /\ IsPoolBody(Body(lines, i)) =>
                PoolShape(PoolOf(lines, i)) /\ Tile(lines, M, i, PrintedPool(PoolOf(lines, i)))
           /\ \A p : PoolShape(p) /\ Tile(lines, M, i, PrintedPool(p)) =>
                IsPoolBody(Body(lines, i)) /\ PoolOf(lines, i) = p
<1> DEFINE later == Following(lines, i)
           part == Body(lines, i)
           r == PoolOf(lines, i)
           n == Len(part)
<1>1. /\ Listed(lines) /\ M \subseteq 1 .. Len(lines)
      /\ i \in 1 .. Len(lines) /\ lines[i] = SectionLine(lines[i].name)
  <2>1. /\ Listed(lines) /\ \A k \in 1 .. Len(lines) : IsLine(lines[k])
        /\ Headers(lines) = {k \in 1 .. Len(lines) : lines[k].line = "section"}
    BY TextFacts
  <2>2. i \in 1 .. Len(lines) /\ IsLine(lines[i]) /\ lines[i].line = "section"
    BY <2>1
  <2> QED
    BY <2>1, <2>2, LineKinds
<1>2. Standing(lines, M, i, part)
  <2>1. part = SubSeq(lines, i + 1, IF later = {} THEN Len(lines) ELSE First(later) - 1)
    BY DEF Body
  <2>2. later = {j \in M : j > i}
    OBVIOUS
  <2> HIDE DEF part, later
  <2> QED
    BY <1>1, <2>1, <2>2, Marked
<1>3. r = [name |-> lines[i].name,
           entries |-> [e \in DOMAIN part |-> [weight |-> part[e].weight, card |-> part[e].card]]]
  BY DEF PoolOf
<1>4. IsPoolBody(part) <=> /\ part # <<>> /\ \A k \in DOMAIN part : part[k].line = "entry"
                           /\ Distinct([k \in DOMAIN part |-> part[k].card])
  BY DEF IsPoolBody
<1> HIDE DEF part, r, later
<1>5. /\ Listed(part) /\ n \in Nat /\ DOMAIN part = 1 .. n /\ (part = <<>> <=> n = 0)
      /\ \A k \in 1 .. n : i + k \in 1 .. Len(lines) /\ part[k] = lines[i + k]
      /\ \A p : Tile(lines, M, i, p) <=> /\ Listed(p) /\ Len(p) = n + 1 /\ p[1] = lines[i]
                                         /\ \A k \in 1 .. n : p[k + 1] = part[k]
  BY <1>2, ListFacts DEF Standing
<1>12. n \in Nat /\ DOMAIN part = 1 .. n
  BY <1>5
<1> HIDE DEF n
<1>6. Distinct([k \in DOMAIN part |-> part[k].card])
        <=> \A j, k \in 1 .. n : part[j].card = part[k].card => j = k
  <2> DEFINE s == [k \in DOMAIN part |-> part[k].card]
  <2>1. DOMAIN s = 1 .. n /\ \A k \in 1 .. n : s[k] = part[k].card
    BY <1>5
  <2> HIDE DEF s
  <2>2. Distinct(s) <=> \A j, k \in 1 .. n : s[j] = s[k] => j = k
    BY <1>12, <2>1, DistinctFacts
  <2> QED
    BY <2>1, <2>2 DEF s
<1>7. /\ r.entries = [e \in 1 .. n |-> [weight |-> part[e].weight, card |-> part[e].card]]
      /\ r.name = lines[i].name /\ r = [name |-> r.name, entries |-> r.entries]
  BY <1>3, <1>5
<1>8. Listed(r.entries) /\ Len(r.entries) = n
  <2> DEFINE s == r.entries
  <2>1. DOMAIN s = 1 .. n /\ s = [k \in 1 .. n |-> s[k]]
    BY <1>7
  <2> HIDE DEF s
  <2>2. Listed(s) /\ Len(s) = n
    BY <1>5, <2>1, IndexedListed
  <2> QED
    BY <2>2 DEF s
<1>9. ASSUME NEW k \in 1 .. n
      PROVE  /\ r.entries[k] = [weight |-> part[k].weight, card |-> part[k].card]
             /\ r.entries[k].weight = part[k].weight /\ r.entries[k].card = part[k].card
             /\ r.entries[k] = [weight |-> r.entries[k].weight, card |-> r.entries[k].card]
  <2> DEFINE q == r.entries[k]
             c == part[k].weight
             o == part[k].card
  <2>1. q = [weight |-> c, card |-> o]
    BY <1>7
  <2> HIDE DEF q, c, o
  <2>2. q = [weight |-> c, card |-> o] /\ q.weight = c /\ q.card = o /\ q = [weight |-> q.weight, card |-> q.card]
    BY <2>1
  <2> QED
    BY <2>2 DEF q, c, o
<1>10. ASSUME IsPoolBody(part) PROVE PoolShape(r) /\ Tile(lines, M, i, PrintedPool(r))
  <2>1. ASSUME NEW k \in 1 .. n
        PROVE  part[k] = EntryLine(part[k].weight, part[k].card) /\ part[k].weight \in Nat \ {0}
    <3>1. IsLine(part[k]) /\ part[k].line = "entry"
      <4>1. i + k \in 1 .. Len(lines) /\ part[k] = lines[i + k]
        BY <1>5
      <4>2. IsLine(lines[i + k])
        BY <4>1, TextFacts
      <4>3. part[k].line = "entry"
        BY <1>4, <1>10, <1>12
      <4> QED
        BY <4>1, <4>2, <4>3
    <3> QED
      BY <3>1, LineKinds
  <2>2. \A j, k \in 1 .. n : part[j].card = part[k].card => j = k
    BY <1>4, <1>6, <1>10
  <2>3. r.entries # <<>>
    BY <1>4, <1>5, <1>8, <1>10, ListFacts
  <2>4. \A k \in 1 .. n : r.entries[k] = [weight |-> r.entries[k].weight, card |-> r.entries[k].card]
                            /\ r.entries[k].weight \in Nat \ {0}
    BY <1>9, <2>1
  <2>5. \A j, k \in 1 .. n : r.entries[j].card = r.entries[k].card => j = k
    BY <1>9, <2>2
  <2>6. PoolShape(r)
    BY <1>7, <1>8, <2>3, <2>4, <2>5 DEF PoolShape
  <2> DEFINE p == PrintedPool(r)
  <2>7. /\ Listed(p) /\ Len(p) = n + 1 /\ p[1] = SectionLine(r.name)
        /\ \A k \in 1 .. n : p[k + 1] = EntryLine(r.entries[k].weight, r.entries[k].card)
    BY <1>8, PrintedPoolFacts
  <2> HIDE DEF p
  <2>8. ASSUME NEW k \in 1 .. n PROVE p[k + 1] = part[k]
    BY <1>9, <2>1, <2>7
  <2>9. p[1] = lines[i]
    BY <1>1, <1>7, <2>7
  <2>10. Tile(lines, M, i, p)
    BY <1>5, <2>7, <2>8, <2>9
  <2> QED
    BY <2>6, <2>10 DEF p
<1>11. ASSUME NEW q, PoolShape(q), Tile(lines, M, i, PrintedPool(q))
       PROVE  IsPoolBody(part) /\ r = q
  <2> DEFINE p == PrintedPool(q)
             m == Len(q.entries)
  <2>1. /\ q = [name |-> q.name, entries |-> q.entries] /\ Listed(q.entries) /\ q.entries # <<>>
        /\ \A k \in 1 .. m : q.entries[k] = [weight |-> q.entries[k].weight, card |-> q.entries[k].card]
        /\ \A j, k \in 1 .. m : q.entries[j].card = q.entries[k].card => j = k
    BY <1>11 DEF PoolShape
  <2>2. /\ Len(p) = m + 1 /\ m \in Nat /\ p[1] = SectionLine(q.name)
        /\ \A k \in 1 .. m : p[k + 1] = EntryLine(q.entries[k].weight, q.entries[k].card)
    BY <2>1, PrintedPoolFacts
  <2>3. Len(p) = n + 1 /\ p[1] = lines[i] /\ \A k \in 1 .. n : p[k + 1] = part[k]
    BY <1>5, <1>11
  <2>4. m # 0
    BY <2>1, ListFacts
  <2> HIDE DEF p, m
  <2>5. m = n
    BY <1>12, <2>2, <2>3
  <2>6. q.name = r.name
    BY <1>7, <2>2, <2>3 DEF SectionLine
  <2>7. ASSUME NEW k \in 1 .. n
        PROVE  /\ part[k].line = "entry" /\ part[k].card = q.entries[k].card
               /\ q.entries[k] = r.entries[k]
    <3>1. part[k] = EntryLine(q.entries[k].weight, q.entries[k].card)
      BY <2>2, <2>3, <2>5
    <3>2. part[k].line = "entry" /\ part[k].weight = q.entries[k].weight /\ part[k].card = q.entries[k].card
      BY <3>1 DEF EntryLine
    <3>3. q.entries[k] = [weight |-> q.entries[k].weight, card |-> q.entries[k].card]
      BY <2>1, <2>5
    <3> QED
      BY <1>9, <3>2, <3>3
  <2>8. q.entries = r.entries
    BY <1>8, <2>1, <2>5, <2>7, SameLists DEF m
  <2>9. r = q
    BY <1>7, <2>1, <2>6, <2>8
  <2>10. \A j, k \in 1 .. n : part[j].card = part[k].card => j = k
    BY <2>1, <2>5, <2>7
  <2>11. IsPoolBody(part)
    BY <1>4, <1>5, <1>6, <2>4, <2>5, <2>7, <2>10
  <2> QED
    BY <2>9, <2>11
<1> QED
  BY <1>10, <1>11 DEF part, r

PoolsRead(pls) ==
    /\ Listed(pls) /\ pls # <<>> /\ \A n \in 1 .. Len(pls) : PoolShape(pls[n])
    /\ \A n \in 1 .. Len(pls) : pls[n].name \notin {"Settings", "CustomCards", "Layouts"}
    /\ \A i, j \in 1 .. Len(pls) : pls[i].name = pls[j].name => i = j

PoolLines(pls) == [i \in DOMAIN pls |-> PrintedPool(pls[i])]

LEMMA PoolLinesFacts ==
    ASSUME NEW pls, Listed(pls), \A n \in 1 .. Len(pls) : PoolShape(pls[n])
    PROVE  /\ Listed(PoolLines(pls)) /\ Len(PoolLines(pls)) = Len(pls) /\ Parts(PoolLines(pls))
           /\ \A n \in 1 .. Len(pls) : PoolLines(pls)[n] = PrintedPool(pls[n])
<1> DEFINE t == PoolLines(pls)
           n == Len(pls)
<1>1. n \in Nat /\ DOMAIN t = 1 .. n /\ t = [i \in 1 .. n |-> t[i]]
      /\ \A i \in 1 .. n : t[i] = PrintedPool(pls[i])
  BY ListFacts DEF PoolLines
<1> HIDE DEF t, n
<1>2. Listed(t) /\ Len(t) = n
  BY <1>1, IndexedListed
<1>3. ASSUME NEW i \in 1 .. n PROVE Listed(t[i]) /\ Len(t[i]) # 0
  <2>1. Listed(pls[i].entries)
    BY DEF PoolShape, n
  <2>2. Listed(PrintedPool(pls[i])) /\ Len(PrintedPool(pls[i])) # 0
    BY <2>1, PrintedPoolFacts
  <2> QED
    BY <1>1, <2>2
<1>4. Parts(t)
  BY <1>2, <1>3 DEF Parts
<1> QED
  BY <1>1, <1>2, <1>4 DEF t, n

\* The section of layouts stands behind the list of cards.
LEMMA LayoutsHeader ==
    ASSUME NEW lines, IsText(lines), ReadLayouts(lines) # Refused
    PROVE  /\ ReadCards(lines) # Refused /\ Named(lines, "Layouts") = {5} /\ Following(lines, 5) # {}
           /\ ReadLayouts(lines) = LayoutsOf(Body(lines, 5))
<1> DEFINE here == Named(lines, "Layouts")
           at == First(here)
           before == {i \in Headers(lines) : i < at}
<1>1. /\ ReadCards(lines) # Refused /\ Cardinality(here) = 1
      /\ \E i \in before : lines[i].name = "CustomCards" /\ \A j \in before : j <= i
      /\ Following(lines, at) # {} /\ ReadLayouts(lines) = LayoutsOf(Body(lines, at))
  BY DEF ReadLayouts
<1>2. /\ Headers(lines) \subseteq 1 .. Len(lines) /\ Len(lines) \in Nat
      /\ 3 \in Headers(lines) /\ 5 \in Headers(lines) /\ 4 \notin Headers(lines)
      /\ Named(lines, "CustomCards") = {3}
  BY <1>1, TextFacts, ListFacts, ReadCardsFacts
<1>3. here \subseteq Headers(lines)
  BY DEF Named
<1>4. PICK i \in before : lines[i].name = "CustomCards" /\ \A j \in before : j <= i
  BY <1>1
<1>5. i = 3 /\ 3 < at
  <2>1. i \in Headers(lines) /\ i < at
    OBVIOUS
  <2>2. i \in Named(lines, "CustomCards")
    BY <1>4, <2>1 DEF Named
  <2> QED
    BY <1>2, <2>1, <2>2
<1>6. PICK x : here = {x}
  <2>1. IsFiniteSet(1 .. Len(lines))
    BY <1>2, UpTo
  <2>2. IsFiniteSet(here)
    BY <1>2, <1>3, <2>1, FS_Subset
  <2> QED
    BY <1>1, <2>2, FS_Singleton
<1> HIDE DEF here
<1>7. x \in Headers(lines) /\ x \in Nat
  BY <1>2, <1>3, <1>6
<1>8. at = x
  BY <1>6, <1>7, FirstFacts
<1>9. ~(5 < at)
  BY <1>2, <1>4, <1>5
<1> HIDE DEF at, before
<1>10. at = 5
  BY <1>2, <1>5, <1>7, <1>8, <1>9
<1> QED
  BY <1>1, <1>6, <1>8, <1>10 DEF here

-----------------------------------------------------------------------------
(* The whole text.                                                         *)

Opening(cards) ==
    <<SectionLine("Settings"), SettingsLine, SectionLine("CustomCards"), CardsLine(cards),
      SectionLine("Layouts")>>

LEMMA OpeningFacts ==
    ASSUME NEW cards
    PROVE  /\ Listed(Opening(cards)) /\ Len(Opening(cards)) = 5
           /\ Opening(cards)[1] = SectionLine("Settings") /\ Opening(cards)[2] = SettingsLine
           /\ Opening(cards)[3] = SectionLine("CustomCards") /\ Opening(cards)[4] = CardsLine(cards)
           /\ Opening(cards)[5] = SectionLine("Layouts")
<1> DEFINE a == SectionLine("Settings")
           c == SectionLine("CustomCards")
           d == CardsLine(cards)
           e == SectionLine("Layouts")
           s == <<a, SettingsLine, c, d, e>>
<1>1. Opening(cards) = s
  BY DEF Opening
<1> HIDE DEF a, c, d, e
<1>2. s \in Seq({a, SettingsLine, c, d, e}) /\ Len(s) = 5
      /\ s[1] = a /\ s[2] = SettingsLine /\ s[3] = c /\ s[4] = d /\ s[5] = e
  OBVIOUS
<1>3. Listed(s)
  BY <1>2, SeqListed
<1> QED
  BY <1>1, <1>2, <1>3 DEF a, c, d, e

\* Two stretches of a list, one after the other, and all of it.
LEMMA StretchesMeet ==
    ASSUME NEW t, NEW i \in Nat, NEW a \in Nat, NEW c \in Nat, NEW u, NEW v,
           Listed(t), Stretch(t, i, a, u), Stretch(t, i + a, c, v)
    PROVE  Stretch(t, i, a + c, u \o v)
<1> DEFINE w == u \o v
           L == Len(t)
<1>1. /\ Listed(u) /\ Len(u) = a /\ Listed(v) /\ Len(v) = c /\ (i + a) + c <= L
      /\ \A k \in 1 .. a : u[k] = t[i + k]
      /\ \A k \in 1 .. c : v[k] = t[(i + a) + k]
  BY DEF Stretch
<1>2. Listed(u) /\ Listed(v)
  BY <1>1
<1>3. /\ Listed(w) /\ Len(w) = Len(u) + Len(v)
      /\ \A k \in 1 .. Len(u) : w[k] = u[k]
      /\ \A k \in 1 .. Len(v) : w[Len(u) + k] = v[k]
  BY <1>2, ConcatFacts
<1>4. L \in Nat
  BY ListFacts
<1> HIDE DEF w, L
<1>5. Len(w) = a + c /\ i + (a + c) <= L
  BY <1>1, <1>3, <1>4
<1>6. ASSUME NEW k \in 1 .. a + c PROVE w[k] = t[i + k]
  <2>1. CASE k <= a
    <3>1. k \in 1 .. a
      BY <2>1
    <3> QED
      BY <1>1, <1>3, <3>1
  <2>2. CASE ~(k <= a)
    <3>1. PICK j \in 1 .. c : k = a + j
      <4>1. k - a \in 1 .. c /\ k = a + (k - a)
        BY <2>2
      <4> QED
        BY <4>1
    <3>2. w[a + j] = v[j] /\ v[j] = t[(i + a) + j]
      BY <1>1, <1>3
    <3>3. (i + a) + j = i + k
      BY <3>1
    <3> QED
      BY <3>1, <3>2, <3>3
  <2> QED
    BY <2>1, <2>2
<1> QED
  BY <1>3, <1>5, <1>6 DEF Stretch, w, L

LEMMA StretchOfAll ==
    ASSUME NEW t, NEW u, NEW n, Listed(t), n = Len(t), Stretch(t, 0, n, u)
    PROVE  u = t
<1>1. Listed(u) /\ Len(u) = n /\ n \in Nat /\ \A k \in 1 .. n : u[k] = t[0 + k]
  BY ListFacts DEF Stretch
<1>2. \A k \in 1 .. n : u[k] = t[k]
  <2> SUFFICES ASSUME NEW k \in 1 .. n PROVE u[k] = t[k]
    OBVIOUS
  <2>1. 0 + k = k
    OBVIOUS
  <2> QED
    BY <1>1, <2>1
<1> QED
  BY <1>1, <1>2, SameLists

Continues(w, u, v, a, c) ==
    /\ Listed(w) /\ Len(w) = a + c /\ Stretch(w, a, c, v)
    /\ \A i, n \in Nat : \A part : Stretch(u, i, n, part) => Stretch(w, i, n, part)

\* What a list is put together of are its stretches.
LEMMA ConcatStretches ==
    ASSUME NEW u, NEW v, Listed(u), Listed(v), NEW a \in Nat, NEW c \in Nat, Len(u) = a, Len(v) = c
    PROVE  Continues(u \o v, u, v, a, c)
<1> DEFINE w == u \o v
<1>1. /\ Listed(w) /\ Len(w) = Len(u) + Len(v)
      /\ \A k \in 1 .. Len(u) : w[k] = u[k]
      /\ \A k \in 1 .. Len(v) : w[Len(u) + k] = v[k]
  BY ConcatFacts
<1> HIDE DEF w
<1>2. Listed(w) /\ Len(w) = a + c /\ (\A k \in 1 .. a : w[k] = u[k]) /\ \A k \in 1 .. c : w[a + k] = v[k]
  BY <1>1
<1>3. Stretch(w, a, c, v)
  BY <1>2 DEF Stretch
<1>4. ASSUME NEW i \in Nat, NEW n \in Nat, NEW part, Stretch(u, i, n, part) PROVE Stretch(w, i, n, part)
  <2>1. Listed(part) /\ Len(part) = n /\ i + n <= a /\ \A k \in 1 .. n : part[k] = u[i + k]
    BY <1>4 DEF Stretch
  <2>2. i + n <= a + c
    BY <2>1
  <2>3. ASSUME NEW k \in 1 .. n PROVE part[k] = w[i + k]
    <3>1. i + k \in 1 .. a
      BY <2>1
    <3> QED
      BY <1>2, <2>1, <3>1
  <2> QED
    BY <1>2, <2>1, <2>2, <2>3 DEF Stretch
<1> QED
  BY <1>2, <1>3, <1>4 DEF Continues, w

LEMMA StretchOfItself ==
    ASSUME NEW u, Listed(u), NEW a \in Nat, Len(u) = a
    PROVE  Stretch(u, 0, a, u)
<1>1. \A k \in 1 .. a : u[k] = u[0 + k]
  <2> SUFFICES ASSUME NEW k \in 1 .. a PROVE u[k] = u[0 + k]
    OBVIOUS
  <2>1. 0 + k = k
    OBVIOUS
  <2> QED
    BY <2>1
<1>2. 0 + a <= a
  OBVIOUS
<1> QED
  BY <1>1, <1>2 DEF Stretch

\* What reading a text gives is a recipe, and the text is what it is printed as.
LEMMA TextRead ==
    ASSUME NEW lines, IsText(lines), ReadPools(lines) # Refused
    PROVE  /\ CardsRead(ReadCards(lines)) /\ LayoutsRead(ReadLayouts(lines)) /\ PoolsRead(ReadPools(lines))
           /\ Printed(ReadRecipe(lines)) = lines
<1> DEFINE M == Following(lines, First(Named(lines, "Layouts")))
           at == InOrder(M)
           r == ReadRecipe(lines)
           pls == [i \in DOMAIN at |-> PoolOf(lines, at[i])]
           body == Body(lines, 5)
           layouts == ReadLayouts(lines)
           cards == ReadCards(lines)
           L == Len(lines)
<1>1. /\ layouts # Refused /\ ReadPools(lines) = pls
      /\ Distinct([i \in DOMAIN at |-> lines[at[i]].name])
      /\ \A i \in DOMAIN at : IsPoolBody(Body(lines, at[i]))
  BY DEF ReadPools, PoolOf
<1>2. /\ cards # Refused /\ Named(lines, "Layouts") = {5} /\ Following(lines, 5) # {}
      /\ layouts = LayoutsOf(body)
  BY <1>1, LayoutsHeader
<1>3. /\ Listed(lines) /\ L \in Nat /\ (\A i \in 1 .. L : IsLine(lines[i]))
      /\ Headers(lines) = {i \in 1 .. L : lines[i].line = "section"} /\ Headers(lines) \subseteq 1 .. L
  BY TextFacts, ListFacts
<1>4. /\ CardsRead(cards)
      /\ 5 <= L /\ lines[1] = SectionLine("Settings") /\ lines[2] = SettingsLine
      /\ lines[3] = SectionLine("CustomCards") /\ lines[4] = CardsLine(cards)
      /\ 5 \in Headers(lines) /\ Named(lines, "Settings") = {1} /\ Named(lines, "CustomCards") = {3}
  BY <1>2, ReadCardsFacts
<1>5. lines[5] = SectionLine("Layouts")
  <2>1. 5 \in 1 .. L /\ lines[5].line = "section" /\ lines[5].name = "Layouts"
    BY <1>2, <1>3, <1>4 DEF Named
  <2> QED
    BY <1>3, <2>1, LineKinds
<1>6. M = Following(lines, 5)
  BY <1>2, FirstFacts
<1> HIDE DEF M
<1>7. M = {j \in Headers(lines) : j > 5} /\ M \subseteq Headers(lines) /\ M # {}
      /\ \A j \in M : j \in 1 .. L /\ j > 5
  BY <1>2, <1>3, <1>6 DEF Following
<1>8. IsFiniteSet(M) /\ M \subseteq Int
  <2>1. M \in SUBSET (1 .. L) /\ IsFiniteSet(1 .. L)
    BY <1>3, <1>7, UpTo
  <2>2. IsFiniteSet(M)
    BY <2>1, FS_Subset
  <2>3. M \subseteq Int
    BY <2>1
  <2> QED
    BY <2>2, <2>3
<1>9. Ordered(at, M) /\ Len(at) = Cardinality(M) /\ Cardinality(M) \in Nat /\ Cardinality(M) # 0
  BY <1>7, <1>8, InOrderFacts, FS_EmptySet
<1> DEFINE N == Len(at)
<1> HIDE DEF at
<1>10. N \in Nat /\ N # 0 /\ DOMAIN at = 1 .. N /\ \A n \in 1 .. N : at[n] \in M
  BY <1>9, ListFacts DEF Ordered
<1>11. PICK n1 \in Nat :
            /\ Stretch(lines, 5, n1, body) /\ 5 + n1 + 1 \in Headers(lines)
            /\ \A k \in 1 .. n1 : 5 + k \notin Headers(lines)
            /\ First(Following(lines, 5)) = 5 + n1 + 1
  <2>1. PICK i \in Headers(lines) : i = 5
    BY <1>4
  <2>2. Following(lines, i) # {}
    BY <1>2, <2>1
  <2> HIDE DEF L
  <2>3. \E n \in Nat :
            /\ Stretch(lines, i, n, Body(lines, i)) /\ \A k \in 1 .. n : i + k \notin Headers(lines)
            /\ i + n + 1 \in Headers(lines) /\ First(Following(lines, i)) = i + n + 1
    <3>1. PICK n \in Nat : BodyEnds(lines, i, n)
      BY <1>3, BodyFacts
    <3> QED
      BY <2>2, <3>1 DEF BodyEnds
  <2> QED
    BY <2>1, <2>3
<1> HIDE DEF body, layouts, cards, N, L
<1> DEFINE F1 == FlattenSeq(LayoutLines(layouts))
           F2 == FlattenSeq(PoolLines(pls))
           b == 5 + n1
<1>12. Listed(body) /\ Len(body) = n1 /\ 5 + n1 <= L /\ \A k \in 1 .. n1 : body[k] = lines[5 + k]
  BY <1>11 DEF Stretch, L
<1>13. \A k \in 1 .. Len(body) : IsLine(body[k])
  <2> SUFFICES ASSUME NEW k \in 1 .. n1 PROVE IsLine(body[k])
    BY <1>12
  <2>1. 5 + k \in 1 .. L
    BY <1>3, <1>12
  <2> QED
    BY <1>3, <1>12, <2>1
<1>14. LayoutsRead(layouts) /\ Stretch(body, 0, Len(body) - 0, F1)
  <2>1. LayoutsOf(body) # Refused
    BY <1>1, <1>2
  <2>2. LayoutsRead(LayoutsOf(body)) /\ Stretch(body, 0, Len(body) - 0, FlattenSeq(LayoutLines(LayoutsOf(body))))
    BY <1>12, <1>13, <2>1, LayoutsOfFacts
  <2> QED
    BY <1>2, <2>2
<1> HIDE DEF F1
<1>15. F1 = body
  <2>1. Len(body) - 0 = Len(body)
    BY <1>12
  <2> QED
    BY <1>12, <1>14, <2>1, StretchOfAll
<1>16. ASSUME NEW n \in 1 .. N
       PROVE  PoolShape(pls[n]) /\ Tile(lines, M, at[n], PrintedPool(pls[n])) /\ pls[n].name = lines[at[n]].name
  <2> DEFINE i == at[n]
  <2>1. i \in M /\ IsPoolBody(Body(lines, i)) /\ pls[n] = PoolOf(lines, i)
    BY <1>1, <1>10
  <2> HIDE DEF i, pls
  <2>2. Following(lines, i) = {j \in M : j > i}
    <3>1. Following(lines, i) = {j \in Headers(lines) : j > i}
      BY DEF Following
    <3>2. \A j \in Headers(lines) : j > i => j > 5
      BY <1>3, <1>7, <2>1
    <3> QED
      BY <1>7, <3>1, <3>2
  <2>3. PoolShape(PoolOf(lines, i)) /\ Tile(lines, M, i, PrintedPool(PoolOf(lines, i)))
    BY <1>7, <2>1, <2>2, PoolRead
  <2>4. PoolOf(lines, i).name = lines[i].name
    BY DEF PoolOf
  <2> QED
    BY <2>1, <2>3, <2>4 DEF i
<1>17. Listed(pls) /\ Len(pls) = N
  <2>1. DOMAIN pls = 1 .. N /\ pls = [n \in 1 .. N |-> pls[n]]
    BY <1>10
  <2> HIDE DEF pls
  <2> QED
    BY <1>10, <2>1, IndexedListed
<1> HIDE DEF pls
<1>18. PoolsRead(pls)
  <2>1. pls # <<>>
    BY <1>10, <1>17, ListFacts
  <2>2. ASSUME NEW n \in 1 .. N PROVE pls[n].name \notin {"Settings", "CustomCards", "Layouts"}
    <3>1. at[n] \in Headers(lines) /\ at[n] > 5 /\ pls[n].name = lines[at[n]].name
      BY <1>7, <1>10, <1>16
    <3>2. \A name : lines[at[n]].name = name => at[n] \in Named(lines, name)
      BY <3>1 DEF Named
    <3> QED
      BY <1>2, <1>4, <3>1, <3>2
  <2>3. ASSUME NEW i \in 1 .. N, NEW j \in 1 .. N, pls[i].name = pls[j].name PROVE i = j
    <3> DEFINE s == [k \in DOMAIN at |-> lines[at[k]].name]
    <3>1. DOMAIN s = 1 .. N /\ s[i] = pls[i].name /\ s[j] = pls[j].name
      BY <1>10, <1>16
    <3>2. Distinct(s)
      BY <1>1
    <3> HIDE DEF s
    <3> QED
      BY <1>10, <2>3, <3>1, <3>2, DistinctFacts
  <2> QED
    BY <1>16, <1>17, <2>1, <2>2, <2>3 DEF PoolsRead
<1> DEFINE ss == PoolLines(pls)
<1>19. Listed(ss) /\ Len(ss) = N /\ \A n \in 1 .. N : ss[n] = PrintedPool(pls[n])
  BY <1>16, <1>17, PoolLinesFacts
<1> HIDE DEF ss
<1>20. b \in Nat /\ b + 1 \in M /\ M \subseteq b + 1 .. Len(lines)
  <2>1. b + 1 = First(M)
    BY <1>6, <1>11
  <2>2. M \subseteq Nat /\ M # {}
    BY <1>7
  <2>3. b + 1 \in M /\ \A j \in M : b + 1 <= j
    BY <2>1, <2>2, FirstFacts
  <2> QED
    BY <1>7, <2>3 DEF L
<1>21. Stretch(lines, b, Len(lines) - b, FlattenSeq(ss))
  <2>1. \A n \in 1 .. Len(ss) : Tile(lines, M, InOrder(M)[n], ss[n])
    BY <1>16, <1>19 DEF at
  <2>2. Len(ss) = Cardinality(M)
    BY <1>9, <1>19 DEF N
  <2> HIDE DEF b
  <2> QED
    BY <1>3, <1>19, <1>20, <2>1, <2>2, TilesJoin
<1>22. F2 = FlattenSeq(ss)
  BY DEF ss
<1> DEFINE o == Opening(cards)
<1>23. Stretch(lines, 0, 5, o)
  <2>1. /\ Listed(o) /\ Len(o) = 5 /\ o[1] = lines[1] /\ o[2] = lines[2] /\ o[3] = lines[3]
        /\ o[4] = lines[4] /\ o[5] = lines[5]
    BY <1>4, <1>5, OpeningFacts
  <2> HIDE DEF o
  <2>2. ASSUME NEW k \in 1 .. 5 PROVE o[k] = lines[0 + k]
    <3>1. k \in {1, 2, 3, 4, 5} /\ 0 + k = k
      OBVIOUS
    <3> QED
      BY <2>1, <3>1
  <2> QED
    BY <1>4, <2>1, <2>2 DEF Stretch, L
<1> HIDE DEF F2, o
<1>24. Stretch(lines, 0, b, o \o F1)
  <2>1. Stretch(lines, 0 + 5, n1, F1)
    BY <1>11, <1>15
  <2>2. 0 \in Nat /\ 5 \in Nat
    OBVIOUS
  <2> QED
    BY <1>3, <1>23, <2>1, <2>2, StretchesMeet
<1>25. Stretch(lines, 0, L, (o \o F1) \o F2)
  <2> DEFINE u == o \o F1
             m == L - b
  <2>1. m \in Nat /\ b + m = L /\ 0 \in Nat
    BY <1>3, <1>12
  <2>2. Stretch(lines, 0 + b, m, F2)
    BY <1>20, <1>21, <1>22 DEF L
  <2>3. Stretch(lines, 0, b, u)
    BY <1>24
  <2> HIDE DEF u, m, b
  <2>4. Stretch(lines, 0, b + m, u \o F2)
    BY <1>3, <1>20, <2>1, <2>2, <2>3, StretchesMeet
  <2> QED
    BY <2>1, <2>4 DEF u
<1>26. (o \o F1) \o F2 = lines
  BY <1>3, <1>25, StretchOfAll DEF L
<1>27. r = [cards |-> cards, layouts |-> layouts, pools |-> pls]
  BY <1>1 DEF ReadRecipe, cards, layouts
<1>28. Printed(r) = (o \o F1) \o F2
  <2>1. r.cards = cards /\ r.layouts = layouts /\ r.pools = pls
    BY <1>27
  <2> HIDE DEF r
  <2> QED
    BY <2>1 DEF Printed, o, Opening, F1, F2, LayoutLines, PoolLines
<1> QED
  BY <1>1, <1>4, <1>14, <1>18, <1>26, <1>28 DEF cards, layouts

LEMMA LinesAre ==
    /\ \A name : IsLine(SectionLine(name)) /\ SectionLine(name).line = "section" /\ SectionLine(name).name = name
    /\ IsLine(SettingsLine) /\ SettingsLine.line # "section"
    /\ \A cs : /\ CardsLine(cs).line = "cards" /\ CardsLine(cs).cards = cs
               /\ Listed(cs) /\ (\A c \in ToSet(cs) : IsCard(c)) => IsLine(CardsLine(cs))
    /\ \A id, weight : /\ HeadingLine(id, weight).line = "layout"
                       /\ weight \in Nat \ {0} => IsLine(HeadingLine(id, weight))
    /\ \A count, pool : /\ SlotLine(count, pool).line = "slot"
                        /\ count \in Nat \ {0} => IsLine(SlotLine(count, pool))
    /\ \A weight, card : /\ EntryLine(weight, card).line = "entry"
                         /\ weight \in Nat \ {0} => IsLine(EntryLine(weight, card))
<1>1. ASSUME NEW name PROVE IsLine(SectionLine(name)) /\ SectionLine(name).line = "section" /\ SectionLine(name).name = name
  BY DEF IsLine, SectionLine
<1>2. IsLine(SettingsLine) /\ SettingsLine.line # "section"
  BY DEF IsLine, SettingsLine
<1>3. ASSUME NEW cs
      PROVE  /\ CardsLine(cs).line = "cards" /\ CardsLine(cs).cards = cs
             /\ Listed(cs) /\ (\A c \in ToSet(cs) : IsCard(c)) => IsLine(CardsLine(cs))
  <2>1. CardsLine(cs).line = "cards" /\ CardsLine(cs).cards = cs
    BY DEF CardsLine
  <2> QED
    BY <2>1 DEF IsLine, Listing, Listed
<1>4. ASSUME NEW id, NEW weight
      PROVE  /\ HeadingLine(id, weight).line = "layout"
             /\ weight \in Nat \ {0} => IsLine(HeadingLine(id, weight))
  <2>1. HeadingLine(id, weight).line = "layout" /\ HeadingLine(id, weight).id = id /\ HeadingLine(id, weight).weight = weight
    BY DEF HeadingLine
  <2> QED
    BY <2>1 DEF IsLine
<1>5. ASSUME NEW count, NEW pool
      PROVE  /\ SlotLine(count, pool).line = "slot"
             /\ count \in Nat \ {0} => IsLine(SlotLine(count, pool))
  <2>1. SlotLine(count, pool).line = "slot" /\ SlotLine(count, pool).count = count /\ SlotLine(count, pool).pool = pool
    BY DEF SlotLine
  <2> QED
    BY <2>1 DEF IsLine
<1>6. ASSUME NEW weight, NEW card
      PROVE  /\ EntryLine(weight, card).line = "entry"
             /\ weight \in Nat \ {0} => IsLine(EntryLine(weight, card))
  <2>1. EntryLine(weight, card).line = "entry" /\ EntryLine(weight, card).weight = weight /\ EntryLine(weight, card).card = card
    BY DEF EntryLine
  <2> QED
    BY <2>1 DEF IsLine
<1> QED
  BY <1>1, <1>2, <1>3, <1>4, <1>5, <1>6

\* A body ends before the next header.
LEMMA BodyIs ==
    ASSUME NEW lines, Listed(lines), NEW i \in Headers(lines), i \in Nat, NEW n \in Nat,
           i + n + 1 \in Headers(lines), \A k \in 1 .. n : i + k \notin Headers(lines)
    PROVE  /\ Stretch(lines, i, n, Body(lines, i))
           /\ Following(lines, i) # {} /\ First(Following(lines, i)) = i + n + 1
<1>1. PICK m \in Nat :
            /\ Stretch(lines, i, m, Body(lines, i)) /\ \A k \in 1 .. m : i + k \notin Headers(lines)
            /\ Following(lines, i) = {} => i + m = Len(lines)
            /\ Following(lines, i) # {} => i + m + 1 \in Headers(lines) /\ First(Following(lines, i)) = i + m + 1
  <2>1. PICK m \in Nat : BodyEnds(lines, i, m)
    BY BodyFacts
  <2> QED
    BY <2>1 DEF BodyEnds
<1>2. i + n + 1 > i
  OBVIOUS
<1>3. Following(lines, i) # {}
  BY <1>2 DEF Following
<1>4. i + m + 1 \in Headers(lines)
  BY <1>1, <1>3
<1>5. ~(m < n)
  <2> SUFFICES ASSUME m < n PROVE FALSE
    OBVIOUS
  <2>1. PICK k \in 1 .. n : k = m + 1
    OBVIOUS
  <2>2. i + k = i + m + 1
    BY <2>1
  <2> QED
    BY <1>4, <2>2
<1>6. ~(n < m)
  <2> SUFFICES ASSUME n < m PROVE FALSE
    OBVIOUS
  <2>1. PICK k \in 1 .. m : k = n + 1
    OBVIOUS
  <2>2. i + k = i + n + 1 /\ i + k \notin Headers(lines)
    BY <1>1, <2>1
  <2> QED
    BY <2>2
<1>7. m = n
  BY <1>5, <1>6
<1> QED
  BY <1>1, <1>3, <1>7

RecipeShape(r) ==
    /\ r = [cards |-> r.cards, layouts |-> r.layouts, pools |-> r.pools]
    /\ CardsRead(r.cards) /\ LayoutsRead(r.layouts) /\ PoolsRead(r.pools)

\* Where the lines of a printed recipe are.
PrintedAs(lines, r, n1, n2) ==
    /\ Listed(lines) /\ Len(lines) = (5 + n1) + n2
    /\ Stretch(lines, 0, 5, Opening(r.cards))
    /\ Stretch(lines, 5, n1, FlattenSeq(LayoutLines(r.layouts)))
    /\ Stretch(lines, 5 + n1, n2, FlattenSeq(PoolLines(r.pools)))
    /\ Len(FlattenSeq(LayoutLines(r.layouts))) = n1 /\ Len(FlattenSeq(PoolLines(r.pools))) = n2

LEMMA PrintedParts ==
    ASSUME NEW r, RecipeShape(r)
    PROVE  \E n1, n2 \in Nat : PrintedAs(Printed(r), r, n1, n2)
<1> DEFINE o == Opening(r.cards)
           F1 == FlattenSeq(LayoutLines(r.layouts))
           F2 == FlattenSeq(PoolLines(r.pools))
           n1 == Len(F1)
           n2 == Len(F2)
           t == (o \o F1) \o F2
<1>1. Printed(r) = t
  BY DEF Printed, Opening, LayoutLines, PoolLines
<1>2. Listed(o) /\ Len(o) = 5
  BY OpeningFacts
<1>3. Listed(F1) /\ n1 \in Nat
  <2> DEFINE ss == LayoutLines(r.layouts)
  <2>1. Listed(ss) /\ \A n \in 1 .. Len(ss) : Listed(ss[n])
    BY LayoutLinesFacts DEF RecipeShape, LayoutsRead
  <2> HIDE DEF ss
  <2>2. Lists(ss)
    BY <2>1 DEF Lists
  <2>3. FlatOf(FlattenSeq(ss), ss)
    BY <2>1, <2>2, FlattenElements
  <2>4. Listed(FlattenSeq(ss))
    BY <2>3 DEF FlatOf
  <2> QED
    BY <2>4, ListFacts DEF ss
<1>4. Listed(F2) /\ n2 \in Nat
  <2> DEFINE ss == PoolLines(r.pools)
  <2>1. Listed(ss) /\ \A n \in 1 .. Len(ss) : Listed(ss[n])
    BY PoolLinesFacts DEF RecipeShape, PoolsRead, Parts
  <2> HIDE DEF ss
  <2>2. Lists(ss)
    BY <2>1 DEF Lists
  <2>3. FlatOf(FlattenSeq(ss), ss)
    BY <2>1, <2>2, FlattenElements
  <2>4. Listed(FlattenSeq(ss))
    BY <2>3 DEF FlatOf
  <2> QED
    BY <2>4, ListFacts DEF ss
<1> DEFINE u == o \o F1
<1> HIDE DEF o, F1, F2, n1, n2
<1>5. /\ Listed(u) /\ Len(u) = 5 + n1 /\ Stretch(u, 5, n1, F1)
      /\ \A i, n \in Nat : \A part : Stretch(o, i, n, part) => Stretch(u, i, n, part)
  <2>1. 5 \in Nat /\ Len(F1) = n1
    BY DEF n1
  <2>2. Continues(u, o, F1, 5, n1)
    BY <1>2, <1>3, <2>1, ConcatStretches
  <2> QED
    BY <2>2 DEF Continues
<1>6. Stretch(u, 0, 5, o)
  <2>1. 5 \in Nat /\ 0 \in Nat
    OBVIOUS
  <2>2. Stretch(o, 0, 5, o)
    BY <1>2, <2>1, StretchOfItself
  <2> QED
    BY <1>5, <2>1, <2>2
<1> HIDE DEF u
<1> DEFINE m == 5 + n1
<1>7. m \in Nat /\ Len(u) = m /\ Len(F2) = n2
  BY <1>3, <1>5 DEF n2
<1> HIDE DEF m
<1>8. /\ Listed(u \o F2) /\ Len(u \o F2) = m + n2 /\ Stretch(u \o F2, m, n2, F2)
      /\ \A i, n \in Nat : \A part : Stretch(u, i, n, part) => Stretch(u \o F2, i, n, part)
  <2>1. Continues(u \o F2, u, F2, m, n2)
    BY <1>4, <1>5, <1>7, ConcatStretches
  <2> QED
    BY <2>1 DEF Continues
<1>9. Stretch(u \o F2, 0, 5, o) /\ Stretch(u \o F2, 5, n1, F1)
  <2>1. 0 \in Nat /\ 5 \in Nat
    OBVIOUS
  <2> QED
    BY <1>3, <1>5, <1>6, <1>8, <2>1
<1>10. PrintedAs(u \o F2, r, n1, n2)
  BY <1>8, <1>9 DEF PrintedAs, m, o, F1, F2, n1, n2
<1> QED
  BY <1>1, <1>3, <1>4, <1>10 DEF u

\* What stands in the sections.
LEMMA SectionLines ==
    ASSUME NEW r, RecipeShape(r)
    PROVE  /\ \A x \in 1 .. Len(FlattenSeq(LayoutLines(r.layouts))) :
                LET l == FlattenSeq(LayoutLines(r.layouts))[x] IN IsLine(l) /\ l.line # "section"
           /\ \A x \in 1 .. Len(FlattenSeq(PoolLines(r.pools))) : IsLine(FlattenSeq(PoolLines(r.pools))[x])
           /\ \A n \in 1 .. Len(PoolLines(r.pools)) : \A k \in 1 .. Len(PoolLines(r.pools)[n]) :
                PoolLines(r.pools)[n][k].line = "section" <=> k = 1
<1>1. ASSUME NEW x \in 1 .. Len(FlattenSeq(LayoutLines(r.layouts)))
      PROVE  LET l == FlattenSeq(LayoutLines(r.layouts))[x] IN IsLine(l) /\ l.line # "section"
  <2> DEFINE ss == LayoutLines(r.layouts)
             N == Len(r.layouts)
  <2>1. /\ Listed(ss) /\ Len(ss) = N
        /\ \A n \in 1 .. N : ss[n] = PrintedLayout(r.layouts[n]) /\ Listed(ss[n]) /\ LayoutShape(r.layouts[n])
    BY LayoutLinesFacts DEF RecipeShape, LayoutsRead
  <2> HIDE DEF ss, N
  <2>2. x \in 1 .. Len(FlattenSeq(ss))
    BY DEF ss
  <2>9. Lists(ss)
    BY <2>1 DEF Lists
  <2>10. FlatOf(FlattenSeq(ss), ss)
    BY <2>1, <2>9, FlattenElements
  <2>3. PICK n \in 1 .. Len(ss) : \E k \in 1 .. Len(ss[n]) : FlattenSeq(ss)[x] = ss[n][k]
    BY <2>2, <2>10 DEF FlatOf
  <2>4. PICK k \in 1 .. Len(ss[n]) : FlattenSeq(ss)[x] = ss[n][k]
    BY <2>3
  <2> DEFINE l == r.layouts[n]
             p == PrintedLayout(l)
             m == Len(l.slots)
  <2>5. LayoutShape(l) /\ k \in 1 .. Len(p) /\ FlattenSeq(ss)[x] = p[k]
    BY <2>1, <2>4
  <2>6. l.weight \in Nat \ {0} /\ Listed(l.slots) /\ \A i \in 1 .. m : l.slots[i].count \in Nat \ {0}
    BY <2>5 DEF LayoutShape
  <2>7. /\ Len(p) = m + 1 /\ m \in Nat /\ p[1] = HeadingLine(l.id, l.weight)
        /\ \A i \in 1 .. m : p[i + 1] = SlotLine(l.slots[i].count, l.slots[i].pool)
    BY <2>6, PrintedLayoutFacts
  <2> HIDE DEF p, m, l
  <2>8. IsLine(p[k]) /\ p[k].line # "section"
    <3>1. CASE k = 1
      <4>1. IsLine(HeadingLine(l.id, l.weight)) /\ HeadingLine(l.id, l.weight).line = "layout"
        BY <2>6, LinesAre
      <4> QED
        BY <2>7, <3>1, <4>1
    <3>2. CASE k # 1
      <4>1. PICK i \in 1 .. m : k = i + 1
        <5>1. k - 1 \in 1 .. m /\ k = k - 1 + 1
          BY <2>5, <2>7, <3>2
        <5> QED
          BY <5>1
      <4>2. l.slots[i].count \in Nat \ {0}
        BY <2>6
      <4>3. IsLine(SlotLine(l.slots[i].count, l.slots[i].pool))
            /\ SlotLine(l.slots[i].count, l.slots[i].pool).line = "slot"
        BY <4>2, LinesAre, SMTT(30)
      <4> QED
        BY <2>7, <4>1, <4>3
    <3> QED
      BY <3>1, <3>2
  <2> QED
    BY <2>5, <2>8 DEF ss
<1> DEFINE ss == PoolLines(r.pools)
           N == Len(r.pools)
<1>2. /\ Listed(ss) /\ Len(ss) = N
      /\ \A n \in 1 .. N : ss[n] = PrintedPool(r.pools[n]) /\ Listed(ss[n]) /\ PoolShape(r.pools[n])
  BY PoolLinesFacts DEF RecipeShape, PoolsRead, Parts
<1> HIDE DEF ss, N
<1>3. ASSUME NEW n \in 1 .. Len(ss), NEW k \in 1 .. Len(ss[n])
      PROVE  IsLine(ss[n][k]) /\ (ss[n][k].line = "section" <=> k = 1)
  <2> DEFINE l == r.pools[n]
             p == PrintedPool(l)
             m == Len(l.entries)
  <2>5. PoolShape(l) /\ k \in 1 .. Len(p) /\ ss[n][k] = p[k]
    BY <1>2
  <2>6. Listed(l.entries) /\ \A i \in 1 .. m : l.entries[i].weight \in Nat \ {0}
    BY <2>5 DEF PoolShape
  <2>7. /\ Len(p) = m + 1 /\ m \in Nat /\ p[1] = SectionLine(l.name)
        /\ \A i \in 1 .. m : p[i + 1] = EntryLine(l.entries[i].weight, l.entries[i].card)
    BY <2>6, PrintedPoolFacts
  <2> HIDE DEF p, m, l
  <2>8. IsLine(p[k]) /\ (p[k].line = "section" <=> k = 1)
    <3>1. CASE k = 1
      <4>1. IsLine(SectionLine(l.name)) /\ SectionLine(l.name).line = "section"
        BY LinesAre
      <4> QED
        BY <2>7, <3>1, <4>1
    <3>2. CASE k # 1
      <4>1. PICK i \in 1 .. m : k = i + 1
        <5>1. k - 1 \in 1 .. m /\ k = k - 1 + 1
          BY <2>5, <2>7, <3>2
        <5> QED
          BY <5>1
      <4>2. l.entries[i].weight \in Nat \ {0}
        BY <2>6
      <4>3. IsLine(EntryLine(l.entries[i].weight, l.entries[i].card))
            /\ EntryLine(l.entries[i].weight, l.entries[i].card).line = "entry"
        BY <4>2, LinesAre
      <4> QED
        BY <2>7, <3>2, <4>1, <4>3
    <3> QED
      BY <3>1, <3>2
  <2> QED
    BY <2>5, <2>8
<1>4. ASSUME NEW x \in 1 .. Len(FlattenSeq(ss)) PROVE IsLine(FlattenSeq(ss)[x])
  <2>1. Lists(ss)
    BY <1>2 DEF Lists
  <2>2. FlatOf(FlattenSeq(ss), ss)
    BY <1>2, <2>1, FlattenElements
  <2>3. PICK n \in 1 .. Len(ss) : \E k \in 1 .. Len(ss[n]) : FlattenSeq(ss)[x] = ss[n][k]
    BY <2>2 DEF FlatOf
  <2> QED
    BY <1>3, <2>3
<1> QED
  BY <1>1, <1>3, <1>4 DEF ss

PoolHeaders(lines, n1) == {i \in 5 + n1 + 1 .. Len(lines) : lines[i].line = "section"}

\* A printed recipe is a text, with its headers in their places.
LEMMA PrintedHeaders ==
    ASSUME NEW r, RecipeShape(r), NEW lines, NEW n1 \in Nat, NEW n2 \in Nat, PrintedAs(lines, r, n1, n2),
           NEW M, M = PoolHeaders(lines, n1)
    PROVE  /\ IsText(lines) /\ Headers(lines) = {1, 3, 5} \cup M /\ 5 + n1 + 1 \in M
           /\ lines[1] = SectionLine("Settings") /\ lines[2] = SettingsLine
           /\ lines[3] = SectionLine("CustomCards") /\ lines[4] = CardsLine(r.cards)
           /\ lines[5] = SectionLine("Layouts")
           /\ Apart(lines, 5 + n1, M, PoolLines(r.pools))
<1> DEFINE L == Len(lines)
           o == Opening(r.cards)
           F1 == FlattenSeq(LayoutLines(r.layouts))
           ss == PoolLines(r.pools)
           F2 == FlattenSeq(ss)
           b == 5 + n1
<1>1. /\ Listed(lines) /\ L = b + n2 /\ Len(F1) = n1 /\ Len(F2) = n2
      /\ (\A k \in 1 .. 5 : o[k] = lines[0 + k])
      /\ (\A k \in 1 .. n1 : F1[k] = lines[5 + k])
      /\ \A k \in 1 .. n2 : F2[k] = lines[b + k]
  BY DEF PrintedAs, Stretch
<1>2. /\ \A x \in 1 .. n1 : IsLine(F1[x]) /\ F1[x].line # "section"
      /\ \A x \in 1 .. n2 : IsLine(F2[x])
      /\ \A n \in 1 .. Len(ss) : \A k \in 1 .. Len(ss[n]) : ss[n][k].line = "section" <=> k = 1
  <2>1. Len(F1) = n1 /\ Len(F2) = n2
    BY <1>1
  <2> QED
    BY <2>1, SectionLines
<1>3. /\ lines[1] = SectionLine("Settings") /\ lines[2] = SettingsLine
      /\ lines[3] = SectionLine("CustomCards") /\ lines[4] = CardsLine(r.cards)
      /\ lines[5] = SectionLine("Layouts")
  <2>1. /\ o[1] = SectionLine("Settings") /\ o[2] = SettingsLine /\ o[3] = SectionLine("CustomCards")
        /\ o[4] = CardsLine(r.cards) /\ o[5] = SectionLine("Layouts")
    BY OpeningFacts
  <2>2. /\ 1 \in 1 .. 5 /\ 2 \in 1 .. 5 /\ 3 \in 1 .. 5 /\ 4 \in 1 .. 5 /\ 5 \in 1 .. 5
        /\ 0 + 1 = 1 /\ 0 + 2 = 2 /\ 0 + 3 = 3 /\ 0 + 4 = 4 /\ 0 + 5 = 5
    OBVIOUS
  <2> HIDE DEF o
  <2>3. o[1] = lines[0 + 1] /\ o[2] = lines[0 + 2] /\ o[3] = lines[0 + 3] /\ o[4] = lines[0 + 4] /\ o[5] = lines[0 + 5]
    BY <1>1, <2>2
  <2> QED
    BY <2>1, <2>2, <2>3
<1>4. /\ Listed(ss) /\ Len(ss) = Len(r.pools) /\ Parts(ss) /\ Len(ss) \in Nat \ {0}
      /\ \A n \in 1 .. Len(ss) : Listed(ss[n])
  <2>1. Listed(ss) /\ Len(ss) = Len(r.pools) /\ Parts(ss)
    BY PoolLinesFacts DEF RecipeShape, PoolsRead
  <2>2. Listed(r.pools) /\ r.pools # <<>>
    BY DEF RecipeShape, PoolsRead
  <2>3. Len(r.pools) \in Nat \ {0}
    BY <2>2, ListFacts
  <2> QED
    BY <2>1, <2>3 DEF Parts
<1> HIDE DEF o, F1, F2, ss, L
<1>5. L \in Nat /\ b \in Nat /\ L - b = n2 /\ DOMAIN lines = 1 .. L
  BY <1>1, ListFacts DEF L
<1>6. ASSUME NEW i \in 1 .. L
      PROVE  \/ i \in {1, 2, 3, 4, 5}
             \/ i \in 6 .. b /\ \E k \in 1 .. n1 : lines[i] = F1[k]
             \/ i \in b + 1 .. L /\ \E k \in 1 .. n2 : lines[i] = F2[k]
  <2>1. CASE i <= 5
    BY <2>1
  <2>2. CASE i > 5 /\ i <= b
    <3>1. i - 5 \in 1 .. n1 /\ 5 + (i - 5) = i
      BY <2>2
    <3>2. F1[i - 5] = lines[i]
      BY <1>1, <3>1
    <3> QED
      BY <2>2, <3>1, <3>2
  <2>3. CASE i > b
    <3>1. i - b \in 1 .. n2 /\ b + (i - b) = i /\ i \in b + 1 .. L
      BY <1>5, <2>3
    <3>2. F2[i - b] = lines[i]
      BY <1>1, <3>1
    <3> QED
      BY <3>1, <3>2
  <2> QED
    BY <2>1, <2>2, <2>3
<1>7. IsText(lines)
  <2>1. IsLine(lines[1]) /\ IsLine(lines[2]) /\ IsLine(lines[3]) /\ IsLine(lines[4]) /\ IsLine(lines[5])
    <3>1. Listed(r.cards) /\ \A c \in ToSet(r.cards) : IsCard(c)
      BY DEF RecipeShape, CardsRead
    <3> QED
      BY <1>3, <3>1, LinesAre
  <2>2. ASSUME NEW i \in 1 .. L PROVE IsLine(lines[i])
    <3>1. CASE i \in {1, 2, 3, 4, 5}
      BY <2>1, <3>1
    <3>2. CASE \E k \in 1 .. n1 : lines[i] = F1[k]
      BY <1>2, <3>2
    <3>3. CASE \E k \in 1 .. n2 : lines[i] = F2[k]
      BY <1>2, <3>3
    <3> QED
      BY <1>6, <3>1, <3>2, <3>3
  <2> QED
    BY <1>1, <1>5, <2>2 DEF IsText, Listing, Listed
<1>8. Headers(lines) = {1, 3, 5} \cup M
  <2>0. M = {i \in b + 1 .. L : lines[i].line = "section"}
    BY DEF L, PoolHeaders
  <2>1. 5 <= L /\ b + 1 > 5 /\ b + 1 \in Nat
    BY <1>1, <1>5
  <2>2. Headers(lines) = {i \in 1 .. L : lines[i].line = "section"}
    BY <1>5 DEF Headers
  <2>3. /\ lines[1].line = "section" /\ lines[3].line = "section" /\ lines[5].line = "section"
        /\ lines[2].line # "section" /\ lines[4].line # "section"
    <3>1. CardsLine(r.cards).line = "cards" /\ SettingsLine.line # "section"
      BY LinesAre
    <3>2. SectionLine("Settings").line = "section" /\ SectionLine("CustomCards").line = "section"
          /\ SectionLine("Layouts").line = "section"
      BY LinesAre
    <3> QED
      BY <1>3, <3>1, <3>2
  <2>4. ASSUME NEW i \in Headers(lines) PROVE i \in {1, 3, 5} \cup M
    <3>1. i \in 1 .. L /\ lines[i].line = "section"
      BY <2>2
    <3>2. i # 2 /\ i # 4
      BY <2>3, <3>1
    <3>3. ~ \E k \in 1 .. n1 : lines[i] = F1[k]
      BY <1>2, <3>1
    <3>4. i \in {1, 2, 3, 4, 5} \/ i \in b + 1 .. L
      BY <1>6, <3>1, <3>3
    <3> QED
      BY <2>0, <3>1, <3>2, <3>4
  <2>5. ASSUME NEW i \in M PROVE i \in Headers(lines)
    <3>1. i \in b + 1 .. L /\ lines[i].line = "section"
      BY <2>0
    <3>2. i \in 1 .. L
      BY <1>5, <2>1, <3>1
    <3> QED
      BY <2>2, <3>1, <3>2
  <2>6. 1 \in Headers(lines) /\ 3 \in Headers(lines) /\ 5 \in Headers(lines)
    <3>1. 1 \in 1 .. L /\ 3 \in 1 .. L /\ 5 \in 1 .. L
      BY <1>5, <2>1
    <3> QED
      BY <2>2, <2>3, <3>1
  <2> HIDE DEF b
  <2> QED
    BY <2>4, <2>5, <2>6
<1>9. Stretch(lines, b, Len(lines) - b, F2)
  BY <1>5 DEF PrintedAs, F2, ss, L
<1>10. M \subseteq b + 1 .. Len(lines)
  BY DEF PoolHeaders
<1>11. Marking(lines, b, M, ss)
  <2> SUFFICES ASSUME NEW n \in 1 .. Len(ss), NEW k \in 1 .. Len(ss[n]), NEW i \in b + 1 .. Len(lines),
                      lines[i] = ss[n][k]
               PROVE  i \in M <=> k = 1
    BY DEF Marking
  <2>1. ss[n][k].line = "section" <=> k = 1
    BY <1>2
  <2> QED
    BY <2>1 DEF PoolHeaders
<1> HIDE DEF b
<1>12. Apart(lines, b, M, ss)
  BY <1>1, <1>4, <1>5, <1>9, <1>10, <1>11, TilesApart DEF F2
<1>13. b + 1 \in M
  <2>1. Listed(InOrder(M)) /\ Len(InOrder(M)) = Len(ss) /\ InOrder(M)[1] = b + 1
        /\ \A n \in 1 .. Len(InOrder(M)) : InOrder(M)[n] \in M
    BY <1>4, <1>12 DEF Apart, Ordered
  <2>2. 1 \in 1 .. Len(InOrder(M))
    BY <1>4, <2>1
  <2> QED
    BY <2>1, <2>2
<1> QED
  BY <1>3, <1>7, <1>8, <1>12, <1>13 DEF b, ss

\* It is read as the recipe it was printed from.
LEMMA PrintedReads ==
    ASSUME NEW r, RecipeShape(r), Refused \notin {r.cards, r.layouts, r.pools}
    PROVE  IsText(Printed(r)) /\ ReadRecipe(Printed(r)) = r
<1> DEFINE lines == Printed(r)
<1>1. PICK n1 \in Nat, n2 \in Nat : PrintedAs(lines, r, n1, n2)
  BY PrintedParts
<1> HIDE DEF lines
<1> DEFINE b == 5 + n1
           M == PoolHeaders(lines, n1)
           pls == r.pools
           ss == PoolLines(pls)
           at == InOrder(M)
           N == Len(pls)
<1>2. /\ IsText(lines) /\ Headers(lines) = {1, 3, 5} \cup M /\ b + 1 \in M
      /\ lines[1] = SectionLine("Settings") /\ lines[2] = SettingsLine
      /\ lines[3] = SectionLine("CustomCards") /\ lines[4] = CardsLine(r.cards)
      /\ lines[5] = SectionLine("Layouts")
      /\ Apart(lines, b, M, ss)
  <2>1. M = PoolHeaders(lines, n1)
    OBVIOUS
  <2> HIDE DEF M, ss
  <2>2. /\ IsText(lines) /\ Headers(lines) = {1, 3, 5} \cup M /\ 5 + n1 + 1 \in M
        /\ lines[1] = SectionLine("Settings") /\ lines[2] = SettingsLine
        /\ lines[3] = SectionLine("CustomCards") /\ lines[4] = CardsLine(r.cards)
        /\ lines[5] = SectionLine("Layouts")
        /\ Apart(lines, 5 + n1, M, PoolLines(r.pools))
    BY <1>1, <2>1, PrintedHeaders
  <2> QED
    BY <2>2 DEF ss
<1>3. b \in Nat /\ b >= 5 /\ \A i \in M : i \in Nat /\ i > b /\ i > 5 /\ i >= b + 1
  BY DEF PoolHeaders
<1> HIDE DEF b, M
<1>4. Listed(lines)
  BY <1>2, TextFacts
<1>5. /\ Listed(pls) /\ N \in Nat \ {0} /\ (\A n \in 1 .. N : PoolShape(pls[n])) /\ DOMAIN pls = 1 .. N
      /\ \A n \in 1 .. N : pls[n].name \notin {"Settings", "CustomCards", "Layouts"}
      /\ \A i, j \in 1 .. N : pls[i].name = pls[j].name => i = j
  BY ListFacts DEF RecipeShape, PoolsRead
<1>6. Len(ss) = N /\ \A n \in 1 .. N : ss[n] = PrintedPool(pls[n])
  BY <1>5, PoolLinesFacts
<1>7. /\ Ordered(at, M) /\ Len(at) = N /\ (\A n \in 1 .. N : Tile(lines, M, at[n], PrintedPool(pls[n])))
      /\ DOMAIN at = 1 .. N /\ (\A n \in 1 .. N : at[n] \in M) /\ \A i \in M : \E n \in 1 .. N : at[n] = i
  BY <1>2, <1>6, ListFacts DEF Apart, Ordered
<1> HIDE DEF pls, ss, at, N
<1>8. ASSUME NEW n \in 1 .. N PROVE lines[at[n]].name = pls[n].name
  <2>1. PICK size \in Nat : \A k \in 0 .. size : PrintedPool(pls[n])[k + 1] = lines[at[n] + k]
    <3>1. Tile(lines, M, at[n], PrintedPool(pls[n]))
      BY <1>7
    <3> QED
      BY <3>1 DEF Tile
  <2>2. 0 \in 0 .. size /\ at[n] + 0 = at[n] /\ 0 + 1 = 1
    BY <1>3, <1>7
  <2>3. PrintedPool(pls[n])[1] = lines[at[n]]
    BY <2>1, <2>2
  <2>4. Listed(pls[n].entries)
    BY <1>5 DEF PoolShape
  <2>5. lines[at[n]] = SectionLine(pls[n].name)
    BY <2>3, <2>4, PrintedPoolFacts
  <2> QED
    BY <2>5, LinesAre
<1>9. /\ Named(lines, "Settings") = {1} /\ Named(lines, "CustomCards") = {3} /\ Named(lines, "Layouts") = {5}
  <2>1. /\ lines[1].name = "Settings" /\ lines[3].name = "CustomCards" /\ lines[5].name = "Layouts"
    BY <1>2, LinesAre
  <2>2. \A i \in M : lines[i].name \notin {"Settings", "CustomCards", "Layouts"}
    <3> SUFFICES ASSUME NEW i \in M PROVE lines[i].name \notin {"Settings", "CustomCards", "Layouts"}
      OBVIOUS
    <3>1. PICK n \in 1 .. N : at[n] = i
      BY <1>7
    <3>2. lines[i].name = pls[n].name
      BY <1>8, <3>1
    <3> QED
      BY <1>5, <3>2
  <2> QED
    BY <1>2, <1>3, <2>1, <2>2 DEF Named
<1>10. 2 \notin Headers(lines) /\ 4 \notin Headers(lines) /\ \A i \in Headers(lines) : i <= 5 \/ i > b
  BY <1>2, <1>3
<1>11. Stretch(lines, 1, 1, Body(lines, 1)) /\ Following(lines, 1) # {} /\ First(Following(lines, 1)) = 3
  <2>1. PICK i \in Headers(lines) : i = 1
    BY <1>2
  <2>2. PICK n \in Nat : n = 1
    OBVIOUS
  <2>3. i \in Nat /\ i + n + 1 = 3 /\ i + n + 1 \in Headers(lines)
    BY <1>2, <2>1, <2>2
  <2>4. \A k \in 1 .. n : i + k \notin Headers(lines)
    <3>1. \A k \in 1 .. n : i + k = 2
      BY <2>1, <2>2
    <3> QED
      BY <1>10, <3>1
  <2>5. Stretch(lines, i, n, Body(lines, i)) /\ Following(lines, i) # {} /\ First(Following(lines, i)) = i + n + 1
    BY <1>4, <2>3, <2>4, BodyIs
  <2> QED
    BY <2>1, <2>2, <2>3, <2>5
<1>12. Stretch(lines, 3, 1, Body(lines, 3)) /\ Following(lines, 3) # {} /\ First(Following(lines, 3)) = 5
  <2>1. PICK i \in Headers(lines) : i = 3
    BY <1>2
  <2>2. PICK n \in Nat : n = 1
    OBVIOUS
  <2>3. i \in Nat /\ i + n + 1 = 5 /\ i + n + 1 \in Headers(lines)
    BY <1>2, <2>1, <2>2
  <2>4. \A k \in 1 .. n : i + k \notin Headers(lines)
    <3>1. \A k \in 1 .. n : i + k = 4
      BY <2>1, <2>2
    <3> QED
      BY <1>10, <3>1
  <2>5. Stretch(lines, i, n, Body(lines, i)) /\ Following(lines, i) # {} /\ First(Following(lines, i)) = i + n + 1
    BY <1>4, <2>3, <2>4, BodyIs
  <2> QED
    BY <2>1, <2>2, <2>3, <2>5
<1>13. Stretch(lines, 5, n1, Body(lines, 5)) /\ Following(lines, 5) # {} /\ First(Following(lines, 5)) = b + 1
  <2>1. PICK i \in Headers(lines) : i = 5
    BY <1>2
  <2>3. i \in Nat /\ i + n1 + 1 = b + 1 /\ i + n1 + 1 \in Headers(lines)
    BY <1>2, <2>1 DEF b
  <2>4. \A k \in 1 .. n1 : i + k \notin Headers(lines)
    <3> SUFFICES ASSUME NEW k \in 1 .. n1 PROVE i + k \notin Headers(lines)
      OBVIOUS
    <3>1. i + k > 5 /\ ~(i + k > b) /\ ~(i + k <= 5)
      BY <2>1 DEF b
    <3> QED
      BY <1>10, <3>1
  <2>5. Stretch(lines, i, n1, Body(lines, i)) /\ Following(lines, i) # {} /\ First(Following(lines, i)) = i + n1 + 1
    BY <1>4, <2>3, <2>4, BodyIs
  <2> QED
    BY <2>1, <2>3, <2>5
<1>14. First({3}) = 3 /\ First({5}) = 5 /\ Cardinality({3}) = 1 /\ Cardinality({5}) = 1
  <2>1. {3} \subseteq Nat /\ {5} \subseteq Nat /\ {3} # {} /\ {5} # {}
    OBVIOUS
  <2>2. First({3}) \in {3} /\ First({5}) \in {5}
    BY <2>1, FirstFacts
  <2> QED
    BY <2>2, FS_Singleton
<1>15. ReadsSettings(lines)
  <2>1. Body(lines, 1) = <<SettingsLine>>
    <3> DEFINE part == Body(lines, 1)
    <3>1. Listed(part) /\ Len(part) = 1 /\ part[1] = lines[1 + 1]
      BY <1>11 DEF Stretch
    <3>2. part[1] = SettingsLine
      <4>1. 1 + 1 = 2
        OBVIOUS
      <4> QED
        BY <1>2, <3>1, <4>1
    <3> HIDE DEF part
    <3>3. <<SettingsLine>> \in Seq({SettingsLine}) /\ Len(<<SettingsLine>>) = 1 /\ <<SettingsLine>>[1] = SettingsLine
      OBVIOUS
    <3>4. Listed(<<SettingsLine>>)
      BY <3>3, SeqListed
    <3>5. part = <<SettingsLine>>
      <4> DEFINE u == <<SettingsLine>>
      <4>1. Listed(u) /\ Len(u) = 1 /\ u[1] = part[1]
        BY <3>2, <3>3, <3>4
      <4> HIDE DEF u
      <4>2. \A i \in 1 .. Len(part) : part[i] = u[i]
        BY <3>1, <4>1
      <4>3. part = u
        BY <3>1, <4>1, <4>2, SameLists
      <4> QED
        BY <4>3 DEF u
    <3> QED
      BY <3>5 DEF part
  <2>2. lines[3].name = "CustomCards"
    BY <1>2, LinesAre
  <2> QED
    BY <1>9, <1>11, <2>1, <2>2 DEF ReadsSettings
<1>16. ReadCards(lines) = r.cards
  <2> DEFINE body == Body(lines, 3)
             cs == r.cards
  <2>1. Len(body) = 1 /\ body[1] = lines[3 + 1]
    BY <1>12 DEF Stretch
  <2>2. 3 + 1 = 4
    OBVIOUS
  <2>3. body[1].line = "cards" /\ body[1].cards = cs
    BY <1>2, <2>1, <2>2, LinesAre
  <2>4. /\ Listed(cs) /\ cs # <<>>
        /\ \A i, j \in 1 .. Len(cs) : i # j => cs[i].name # cs[j].name /\ cs[i].number # cs[j].number
    BY DEF RecipeShape, CardsRead
  <2> HIDE DEF body, cs
  <2>5. DOMAIN cs = 1 .. Len(cs)
    BY <2>4, ListFacts
  <2>6. Distinct([i \in DOMAIN cs |-> cs[i].name]) /\ Distinct([i \in DOMAIN cs |-> cs[i].number])
    BY <2>4, <2>5 DEF Distinct
  <2>7. /\ Named(lines, "CustomCards") = {3} /\ First(Named(lines, "CustomCards")) = 3
        /\ Cardinality(Named(lines, "CustomCards")) = 1 /\ Following(lines, 3) # {}
    BY <1>9, <1>12, <1>14
  <2> QED
    BY <1>15, <2>1, <2>3, <2>4, <2>6, <2>7 DEF ReadCards, body, cs
<1>17. ReadLayouts(lines) = r.layouts
  <2> DEFINE body == Body(lines, 5)
             F1 == FlattenSeq(LayoutLines(r.layouts))
  <2>1. Stretch(lines, 5, n1, body) /\ Stretch(lines, 5, n1, F1)
    BY <1>1, <1>13 DEF PrintedAs
  <2>2. LayoutsRead(r.layouts)
    BY DEF RecipeShape
  <2> HIDE DEF body, F1
  <2>3. Listed(body) /\ Len(body) = n1 /\ Listed(F1) /\ Len(F1) = n1 /\ \A k \in 1 .. n1 : body[k] = F1[k]
    BY <2>1 DEF Stretch
  <2>4. body = F1
    BY <2>3, SameLists
  <2>5. Stretch(body, 0, Len(body) - 0, F1)
    <3>1. Len(body) - 0 = n1
      BY <2>3
    <3>2. Stretch(F1, 0, n1, F1)
      BY <2>3, StretchOfItself
    <3> QED
      BY <2>4, <3>1, <3>2
  <2>6. \A k \in 1 .. Len(body) : IsLine(body[k])
    <3> SUFFICES ASSUME NEW k \in 1 .. n1 PROVE IsLine(body[k])
      BY <2>3
    <3>1. body[k] = lines[5 + k] /\ 5 + n1 <= Len(lines)
      BY <2>1 DEF Stretch
    <3>2. Len(lines) \in Nat
      BY <1>4, ListFacts
    <3>3. 5 + k \in 1 .. Len(lines)
      BY <3>1, <3>2
    <3> QED
      BY <1>2, <3>1, <3>3, TextFacts
  <2>7. LayoutsOf(body) = r.layouts
    BY <2>2, <2>3, <2>5, <2>6, LayoutsBack DEF F1
  <2>8. ReadCards(lines) # Refused
    BY <1>16
  <2>9. /\ Named(lines, "Layouts") = {5} /\ First(Named(lines, "Layouts")) = 5
        /\ Cardinality(Named(lines, "Layouts")) = 1 /\ Following(lines, 5) # {}
    BY <1>9, <1>13, <1>14
  <2> DEFINE before == {i \in Headers(lines) : i < 5}
  <2>10. \E i \in before : lines[i].name = "CustomCards" /\ \A j \in before : j <= i
    <3>1. 3 \in before /\ \A j \in before : j <= 3
      BY <1>2, <1>3
    <3>2. lines[3].name = "CustomCards"
      BY <1>2, LinesAre
    <3> QED
      BY <3>1, <3>2
  <2> QED
    BY <2>7, <2>8, <2>9, <2>10 DEF ReadLayouts, body
<1>18. Following(lines, 5) = M
  BY <1>2, <1>3 DEF Following
<1>19. ASSUME NEW n \in 1 .. N PROVE IsPoolBody(Body(lines, at[n])) /\ PoolOf(lines, at[n]) = pls[n]
  <2> DEFINE i == at[n]
  <2>1. i \in M /\ Tile(lines, M, i, PrintedPool(pls[n])) /\ PoolShape(pls[n])
    BY <1>5, <1>7
  <2> HIDE DEF i
  <2>2. M \subseteq Headers(lines)
    BY <1>2
  <2>3. Following(lines, i) = {j \in M : j > i}
    <3>1. Following(lines, i) = {j \in Headers(lines) : j > i}
      BY DEF Following
    <3>2. \A j \in {1, 3, 5} : ~(j > i)
      BY <1>3, <2>1
    <3> QED
      BY <1>2, <3>1, <3>2
  <2>4. IsPoolBody(Body(lines, i)) /\ PoolOf(lines, i) = pls[n]
    BY <1>2, <2>1, <2>2, <2>3, PoolRead
  <2> QED
    BY <2>4 DEF i
<1>20. ReadPools(lines) = pls
  <2> DEFINE read == [n \in DOMAIN at |-> PoolOf(lines, at[n])]
             names == [n \in DOMAIN at |-> lines[at[n]].name]
  <2>1. DOMAIN read = 1 .. N /\ read = [n \in 1 .. N |-> read[n]] /\ \A n \in 1 .. N : read[n] = pls[n]
    BY <1>7, <1>19
  <2>2. Distinct(names)
    BY <1>5, <1>7, <1>8 DEF Distinct
  <2> HIDE DEF read, names
  <2>3. read = pls
    <3>1. Listed(read) /\ Len(read) = N
      BY <1>5, <2>1, IndexedListed
    <3> QED
      BY <1>5, <2>1, <3>1, SameLists DEF N
  <2>4. First(Named(lines, "Layouts")) = 5
    BY <1>9, <1>14
  <2>5. ReadLayouts(lines) # Refused
    BY <1>17
  <2>6. \A n \in DOMAIN at : IsPoolBody(Body(lines, at[n]))
    BY <1>7, <1>19
  <2>7. at = InOrder(Following(lines, First(Named(lines, "Layouts"))))
    BY <1>18, <2>4 DEF at
  <2> HIDE DEF at
  <2> QED
    BY <2>2, <2>3, <2>5, <2>6, <2>7 DEF ReadPools, read, names, PoolOf
<1>21. r = [cards |-> r.cards, layouts |-> r.layouts, pools |-> r.pools]
  BY DEF RecipeShape
<1>22. ReadPools(lines) # Refused
  BY <1>20 DEF pls
<1>23. ReadRecipe(lines) = r
  BY <1>16, <1>17, <1>20, <1>21, <1>22 DEF ReadRecipe, pls
<1> QED
  BY <1>2, <1>23 DEF lines

\* The shapes are those of the recipes.
LEMMA ShapesAre ==
    ASSUME NEW r
    PROVE  RecipeShape(r) <=> IsRecipe(r) /\ Printable(r)
<1>1. ASSUME RecipeShape(r) PROVE IsRecipe(r) /\ Printable(r)
  <2>1. /\ r = [cards |-> r.cards, layouts |-> r.layouts, pools |-> r.pools]
        /\ Listed(r.cards) /\ r.cards # <<>> /\ (\A c \in ToSet(r.cards) : IsCard(c))
        /\ Listed(r.layouts) /\ r.layouts # <<>> /\ Listed(r.pools) /\ r.pools # <<>>
        /\ \A i, j \in 1 .. Len(r.cards) : i # j =>
            r.cards[i].name # r.cards[j].name /\ r.cards[i].number # r.cards[j].number
        /\ \A n \in 1 .. Len(r.layouts) : LayoutShape(r.layouts[n]) /\ Whole(r.layouts[n])
        /\ \A i, j \in 1 .. Len(r.layouts) : r.layouts[i].id = r.layouts[j].id => i = j
        /\ \A n \in 1 .. Len(r.pools) : PoolShape(r.pools[n])
        /\ \A n \in 1 .. Len(r.pools) : r.pools[n].name \notin {"Settings", "CustomCards", "Layouts"}
        /\ \A i, j \in 1 .. Len(r.pools) : r.pools[i].name = r.pools[j].name => i = j
    BY <1>1 DEF RecipeShape, CardsRead, LayoutsRead, PoolsRead
  <2>2. DOMAIN r.cards = 1 .. Len(r.cards) /\ DOMAIN r.layouts = 1 .. Len(r.layouts)
        /\ DOMAIN r.pools = 1 .. Len(r.pools)
    BY <2>1, ListFacts
  <2>3. ToSet(r.layouts) = {r.layouts[n] : n \in 1 .. Len(r.layouts)}
        /\ ToSet(r.pools) = {r.pools[n] : n \in 1 .. Len(r.pools)}
    BY <2>1, IndexedSet
  <2>4. ASSUME NEW l \in ToSet(r.layouts)
        PROVE  /\ l = [id |-> l.id, weight |-> l.weight, slots |-> l.slots]
               /\ l.weight \in Nat \ {0} /\ Listed(l.slots) /\ VisibleTotal(l.slots) = VisibleCardTotal
               /\ \A s \in ToSet(l.slots) : s = [count |-> s.count, pool |-> s.pool] /\ s.count \in Nat \ {0}
    <3>1. LayoutShape(l) /\ Whole(l)
      BY <2>1, <2>3
    <3>2. Listed(l.slots)
      BY <3>1 DEF LayoutShape
    <3>3. ToSet(l.slots) = {l.slots[i] : i \in 1 .. Len(l.slots)}
      BY <3>2, IndexedSet
    <3> QED
      BY <3>1, <3>3 DEF LayoutShape, Whole
  <2>5. ASSUME NEW p \in ToSet(r.pools)
        PROVE  /\ p = [name |-> p.name, entries |-> p.entries] /\ Listed(p.entries)
               /\ \A e \in ToSet(p.entries) : e = [weight |-> e.weight, card |-> e.card] /\ e.weight \in Nat \ {0}
               /\ p.entries # <<>> /\ p.name \notin {"Settings", "CustomCards", "Layouts"}
               /\ \A i, j \in DOMAIN p.entries : p.entries[i].card = p.entries[j].card => i = j
    <3>1. PoolShape(p) /\ p.name \notin {"Settings", "CustomCards", "Layouts"}
      BY <2>1, <2>3
    <3>2. Listed(p.entries)
      BY <3>1 DEF PoolShape
    <3>3. ToSet(p.entries) = {p.entries[i] : i \in 1 .. Len(p.entries)} /\ DOMAIN p.entries = 1 .. Len(p.entries)
      BY <3>2, IndexedSet, ListFacts
    <3> QED
      BY <3>1, <3>3 DEF PoolShape
  <2>6. IsRecipe(r)
    BY <2>1, <2>4, <2>5 DEF IsRecipe, Listing, Listed
  <2>7. Printable(r)
    BY <2>1, <2>2, <2>4, <2>5 DEF Printable
  <2> QED
    BY <2>6, <2>7
<1>2. ASSUME IsRecipe(r), Printable(r) PROVE RecipeShape(r)
  <2>1. /\ r = [cards |-> r.cards, layouts |-> r.layouts, pools |-> r.pools]
        /\ Listed(r.cards) /\ (\A c \in ToSet(r.cards) : IsCard(c)) /\ Listed(r.layouts) /\ Listed(r.pools)
    BY <1>2 DEF IsRecipe, Listing, Listed
  <2>2. DOMAIN r.cards = 1 .. Len(r.cards) /\ DOMAIN r.layouts = 1 .. Len(r.layouts)
        /\ DOMAIN r.pools = 1 .. Len(r.pools)
    BY <2>1, ListFacts
  <2>3. (\A n \in 1 .. Len(r.layouts) : r.layouts[n] \in ToSet(r.layouts))
        /\ \A n \in 1 .. Len(r.pools) : r.pools[n] \in ToSet(r.pools)
    BY <2>1, ListFacts
  <2>4. CardsRead(r.cards)
    BY <1>2, <2>1, <2>2 DEF CardsRead, Printable
  <2>5. ASSUME NEW n \in 1 .. Len(r.layouts) PROVE LayoutShape(r.layouts[n]) /\ Whole(r.layouts[n])
    <3> DEFINE l == r.layouts[n]
    <3>1. /\ l = [id |-> l.id, weight |-> l.weight, slots |-> l.slots]
          /\ l.weight \in Nat \ {0} /\ Listed(l.slots)
          /\ \A s \in ToSet(l.slots) : s = [count |-> s.count, pool |-> s.pool] /\ s.count \in Nat \ {0}
      BY <1>2, <2>3 DEF IsRecipe, Listing, Listed
    <3>2. VisibleTotal(l.slots) = VisibleCardTotal
      BY <1>2, <2>3 DEF Printable
    <3> HIDE DEF l
    <3>3. \A i \in 1 .. Len(l.slots) : l.slots[i] \in ToSet(l.slots)
      BY <3>1, ListFacts
    <3>4. LayoutShape(l)
      BY <3>1, <3>3 DEF LayoutShape
    <3>5. l.slots # <<>>
      <4> SUFFICES ASSUME l.slots = <<>> PROVE FALSE
        OBVIOUS
      <4>1. VisibleTotal(l.slots) = Total(<<>>)
        BY DEF VisibleTotal
      <4>2. Listed(<<>>) /\ Len(<<>>) = 0
        BY EmptySeq, ListFacts DEF Listed
      <4>3. PICK f : Running(f, <<>>) /\ Total(<<>>) = f[Len(<<>>)]
        BY <4>2, TotalFacts
      <4>4. Total(<<>>) = 0
        BY <4>2, <4>3 DEF Running
      <4> QED
        BY <3>2, <4>1, <4>4, VisibleCardsAssumption
    <3>6. Whole(l)
      BY <3>2, <3>5 DEF Whole
    <3> QED
      BY <3>4, <3>6 DEF l
  <2>6. LayoutsRead(r.layouts)
    BY <1>2, <2>1, <2>2, <2>5 DEF LayoutsRead, Printable
  <2>7. ASSUME NEW n \in 1 .. Len(r.pools)
        PROVE  PoolShape(r.pools[n]) /\ r.pools[n].name \notin {"Settings", "CustomCards", "Layouts"}
    <3> DEFINE p == r.pools[n]
    <3>1. /\ p = [name |-> p.name, entries |-> p.entries] /\ Listed(p.entries)
          /\ \A e \in ToSet(p.entries) : e = [weight |-> e.weight, card |-> e.card] /\ e.weight \in Nat \ {0}
      BY <1>2, <2>3 DEF IsRecipe, Listing, Listed
    <3>2. /\ p.entries # <<>> /\ p.name \notin {"Settings", "CustomCards", "Layouts"}
          /\ \A i, j \in DOMAIN p.entries : p.entries[i].card = p.entries[j].card => i = j
      BY <1>2, <2>3 DEF Printable
    <3> HIDE DEF p
    <3>3. DOMAIN p.entries = 1 .. Len(p.entries) /\ \A i \in 1 .. Len(p.entries) : p.entries[i] \in ToSet(p.entries)
      BY <3>1, ListFacts
    <3>4. PoolShape(p)
      BY <3>1, <3>2, <3>3 DEF PoolShape
    <3> QED
      BY <3>2, <3>4 DEF p
  <2>8. PoolsRead(r.pools)
    BY <1>2, <2>1, <2>2, <2>7 DEF PoolsRead, Printable
  <2> QED
    BY <2>1, <2>4, <2>6, <2>8 DEF RecipeShape
<1> QED
  BY <1>1, <1>2

-----------------------------------------------------------------------------
(* The stages.                                                             *)

Verified(r) == IsRecipe(r) /\ Printable(r) /\ Accepts(r)

\* What each stage has to go by.
ReadingInv ==
    /\ phase \in Phase
    /\ phase = "read" =>
        /\ IsText(text)
        /\ written # Refused => written \in Recipes /\ Printable(written) /\ text = Printed(written)
    /\ phase \in Phase \ {"read", "compiled"} /\ written # Refused => recipe = written
    /\ phase = "verify" => IsRecipe(recipe) /\ Printable(recipe) /\ Printed(recipe) = text
    /\ phase \in {"reconcile", "classify", "resolve pools", "resolve layouts", "generated"} => Verified(recipe)
    /\ phase \in {"classify", "resolve pools", "resolve layouts", "generated"} =>
        \E official \in Officials : identities = Reconcile(recipe.cards, official) /\ identities # Refused
    /\ phase \in {"resolve pools", "resolve layouts", "generated"} =>
        \E official \in Officials : eligibility = Classify(identities, official) /\ eligibility # Refused
    /\ phase \in {"resolve layouts", "generated"} =>
        PoolsResolve(recipe, identities, eligibility) /\ pools = ResolvedPools(recipe, identities, eligibility)
    /\ phase = "generated" =>
        /\ LayoutsResolve(recipe.layouts, pools)
        /\ \E official \in Officials :
            LET rarities == ReconcileRarities(identities, official)
            IN  /\ rarities # Refused /\ snapshot # Refused
                /\ snapshot = SnapshotOf(pools, ResolvedLayouts(recipe.layouts, pools), rarities)

LEMMA WrittenReads ==
    ASSUME NEW r \in Recipes, Printable(r)
    PROVE  IsText(Printed(r)) /\ ReadRecipe(Printed(r)) = r
<1>1. RecipeShape(r)
  BY RecipesAssumption, ShapesAre
<1> QED
  BY <1>1, PrintedReads, RefusedAssumption

LEMMA ReadWrites ==
    ASSUME NEW lines, IsText(lines), ReadRecipe(lines) # Refused
    PROVE  /\ IsRecipe(ReadRecipe(lines)) /\ Printable(ReadRecipe(lines))
           /\ Printed(ReadRecipe(lines)) = lines
<1> DEFINE r == ReadRecipe(lines)
<1>1. ReadPools(lines) # Refused
      /\ r = [cards |-> ReadCards(lines), layouts |-> ReadLayouts(lines), pools |-> ReadPools(lines)]
  BY DEF ReadRecipe
<1>2. /\ CardsRead(ReadCards(lines)) /\ LayoutsRead(ReadLayouts(lines)) /\ PoolsRead(ReadPools(lines))
      /\ Printed(r) = lines
  BY <1>1, TextRead
<1> HIDE DEF r
<1>3. RecipeShape(r)
  BY <1>1, <1>2 DEF RecipeShape
<1> QED
  BY <1>2, <1>3, ShapesAre DEF r

LEMMA ReadingInvInit == ReadingInit => ReadingInv
<1> SUFFICES ASSUME ReadingInit PROVE ReadingInv
  OBVIOUS
<1>1. phase = "read"
  BY DEF ReadingInit
<1>2. IsText(text) /\ (written # Refused => written \in Recipes /\ Printable(written) /\ text = Printed(written))
  <2>1. CASE written \in {r \in Recipes : Printable(r)} /\ text = Printed(written)
    BY <2>1, WrittenReads
  <2>2. CASE written = Refused /\ text \in Texts
    BY <2>2, TextsAssumption
  <2> QED
    BY <2>1, <2>2 DEF ReadingInit
<1> QED
  BY <1>1, <1>2 DEF ReadingInv, Phase

LEMMA ReadingInvStep == ReadingInv /\ [ReadingNext]_reading => ReadingInv'
<1> SUFFICES ASSUME ReadingInv, [ReadingNext]_reading PROVE ReadingInv'
  OBVIOUS
<1>1. CASE ReadText
  <2>1. /\ IsText(text)
        /\ written # Refused => written \in Recipes /\ Printable(written) /\ text = Printed(written)
        /\ recipe' = ReadRecipe(text) /\ phase' = IF recipe' = Refused THEN "refused" ELSE "verify"
        /\ UNCHANGED <<written, text>>
    BY <1>1 DEF ReadText, ReadingInv
  <2>2. written' # Refused => recipe' = written'
    BY <2>1, WrittenReads
  <2>3. phase' = "verify" => IsRecipe(recipe') /\ Printable(recipe') /\ Printed(recipe') = text'
    BY <2>1, ReadWrites
  <2> QED
    BY <2>1, <2>2, <2>3 DEF ReadingInv, Phase
<1>2. CASE VerifyRecipe
  <2>1. /\ phase = "verify" /\ IsRecipe(recipe) /\ Printable(recipe)
        /\ (written # Refused => recipe = written)
        /\ phase' = IF Accepts(recipe) THEN "reconcile" ELSE "refused"
        /\ UNCHANGED <<written, recipe>>
    BY <1>2 DEF VerifyRecipe, ReadingInv, Phase, Results
  <2>2. phase' = "reconcile" => Verified(recipe')
    BY <2>1 DEF Verified
  <2> QED
    BY <2>1, <2>2 DEF ReadingInv, Phase
<1>3. CASE ReconcileIdentities
  <2>1. /\ phase = "reconcile" /\ Verified(recipe)
        /\ (written # Refused => recipe = written)
        /\ \E official \in Officials : identities' = Reconcile(recipe.cards, official)
        /\ phase' = IF identities' = Refused THEN "refused" ELSE "classify"
        /\ UNCHANGED <<written, recipe>>
    BY <1>3 DEF ReconcileIdentities, ReadingInv, Phase
  <2>2. Verified(recipe')
    BY <2>1
  <2>3. phase' = "classify" =>
            \E official \in Officials : identities' = Reconcile(recipe'.cards, official) /\ identities' # Refused
    BY <2>1
  <2> QED
    BY <2>1, <2>2, <2>3 DEF ReadingInv, Phase
<1>4. CASE ClassifyOfficial
  <2>1. /\ phase = "classify" /\ Verified(recipe)
        /\ (written # Refused => recipe = written)
        /\ \E official \in Officials : identities = Reconcile(recipe.cards, official) /\ identities # Refused
        /\ \E official \in Officials : eligibility' = Classify(identities, official)
        /\ phase' = IF eligibility' = Refused THEN "refused" ELSE "resolve pools"
        /\ UNCHANGED <<written, recipe, identities>>
    BY <1>4 DEF ClassifyOfficial, ReadingInv, Phase
  <2>2. Verified(recipe')
    BY <2>1
  <2>3. /\ \E official \in Officials : identities' = Reconcile(recipe'.cards, official) /\ identities' # Refused
        /\ phase' = "resolve pools" =>
            \E official \in Officials : eligibility' = Classify(identities', official) /\ eligibility' # Refused
    BY <2>1
  <2> QED
    BY <2>1, <2>2, <2>3 DEF ReadingInv, Phase
<1>5. CASE ResolveRecipePools
  <2>1. /\ phase = "resolve pools" /\ Verified(recipe)
        /\ (written # Refused => recipe = written)
        /\ \E official \in Officials : identities = Reconcile(recipe.cards, official) /\ identities # Refused
        /\ \E official \in Officials : eligibility = Classify(identities, official) /\ eligibility # Refused
        /\ \/ /\ PoolsResolve(recipe, identities, eligibility)
              /\ pools' = ResolvedPools(recipe, identities, eligibility) /\ phase' = "resolve layouts"
           \/ phase' = "unresolved"
        /\ UNCHANGED <<written, recipe, identities, eligibility>>
    BY <1>5 DEF ResolveRecipePools, ReadingInv, Phase
  <2>2. Verified(recipe')
    BY <2>1
  <2>3. /\ \E official \in Officials : identities' = Reconcile(recipe'.cards, official) /\ identities' # Refused
        /\ \E official \in Officials : eligibility' = Classify(identities', official) /\ eligibility' # Refused
        /\ phase' = "resolve layouts" =>
            /\ PoolsResolve(recipe', identities', eligibility')
            /\ pools' = ResolvedPools(recipe', identities', eligibility')
    BY <2>1
  <2> QED
    BY <2>1, <2>2, <2>3 DEF ReadingInv, Phase
<1>6. CASE ResolveRecipeLayouts
  <2>1. CASE phase' = "compiled" /\ written' = Refused
    BY <2>1 DEF ReadingInv, Phase
  <2>2. CASE phase' = "unresolved" /\ UNCHANGED <<written, text, Results>>
    <3>1. (written # Refused => recipe = written) /\ UNCHANGED <<written, recipe>>
      BY <1>6, <2>2 DEF ResolveRecipeLayouts, ReadingInv, Phase, Results
    <3> QED
      BY <2>2, <3>1 DEF ReadingInv, Phase
  <2> QED
    BY <1>6, <2>1, <2>2 DEF ResolveRecipeLayouts
<1>7. CASE GenerateSnapshot
  <2>1. /\ phase = "resolve layouts" /\ Verified(recipe)
        /\ (written # Refused => recipe = written)
        /\ \E official \in Officials : identities = Reconcile(recipe.cards, official) /\ identities # Refused
        /\ \E official \in Officials : eligibility = Classify(identities, official) /\ eligibility # Refused
        /\ PoolsResolve(recipe, identities, eligibility) /\ pools = ResolvedPools(recipe, identities, eligibility)
        /\ phase' = IF snapshot' = Refused THEN "refused" ELSE "generated"
        /\ UNCHANGED <<written, text, recipe, identities, eligibility, pools>>
    BY <1>7 DEF GenerateSnapshot, ReadingInv, Phase, Results
  <2>2. PICK official \in Officials :
            LET rarities == ReconcileRarities(identities, official)
            IN  snapshot' = IF LayoutsResolve(recipe.layouts, pools) /\ rarities # Refused
                            THEN SnapshotOf(pools, ResolvedLayouts(recipe.layouts, pools), rarities)
                            ELSE Refused
    BY <1>7 DEF GenerateSnapshot
  <2>3. Verified(recipe')
    BY <2>1
  <2>4. /\ \E off \in Officials : identities' = Reconcile(recipe'.cards, off) /\ identities' # Refused
        /\ \E off \in Officials : eligibility' = Classify(identities', off) /\ eligibility' # Refused
        /\ PoolsResolve(recipe', identities', eligibility')
        /\ pools' = ResolvedPools(recipe', identities', eligibility')
    BY <2>1
  <2>5. ASSUME phase' = "generated"
        PROVE  /\ LayoutsResolve(recipe'.layouts, pools')
               /\ \E off \in Officials :
                    LET rarities == ReconcileRarities(identities', off)
                    IN  /\ rarities # Refused /\ snapshot' # Refused
                        /\ snapshot' = SnapshotOf(pools', ResolvedLayouts(recipe'.layouts, pools'), rarities)
    <3>1. snapshot' # Refused
      BY <2>1, <2>5
    <3> QED
      BY <2>1, <2>2, <3>1
  <2> QED
    BY <2>1, <2>3, <2>4, <2>5 DEF ReadingInv, Phase
<1>8. CASE UNCHANGED reading
  BY <1>8 DEF reading, ReadingInv
<1> QED
  BY <1>1, <1>2, <1>3, <1>4, <1>5, <1>6, <1>7, <1>8 DEF ReadingNext

\* Each stage is reached only with what the stages before it have established.
THEOREM StagesFollow == ReadingSpec => []ReadingInv
<1> QED
  BY ReadingInvInit, ReadingInvStep, PTL DEF ReadingSpec

\* The readers take exactly the texts that recipes are written as, and give
\* back the recipe that was written (layouts.ts:234, pools.ts:245).
THEOREM TextsReadBack == ReadingSpec => []RecipeReadsBack
<1>1. ReadingInv => RecipeReadsBack
  BY DEF ReadingInv, RecipeReadsBack
<1> QED
  BY <1>1, StagesFollow, PTL

\* A verified recipe has the odds of the rules, for every set of commons and
\* whatever its weights are (docs/rules-and-collation.md:105, :126).
THEOREM RatiosGiveTheOdds == ReadingSpec => []RatiosFixTheOdds
<1>1. ReadingInv => RatiosFixTheOdds
  <2> SUFFICES ASSUME ReadingInv, phase = "reconcile"
               PROVE  \A layout \in ToSet(recipe.layouts) :
                        HasRulesOdds(recipe.layouts, CommonStructure(layout))
    BY DEF RatiosFixTheOdds
  <2>1. RecipeShape(recipe) /\ AcceptsLayouts(recipe.layouts)
    BY ShapesAre DEF ReadingInv, Verified, Accepts
  <2>2. Weighted(recipe.layouts)
    BY <2>1 DEF Weighted, RecipeShape, LayoutsRead, LayoutShape
  <2> QED
    BY <2>1, <2>2, OddsFollow
<1> QED
  BY <1>1, StagesFollow, PTL

-----------------------------------------------------------------------------
(* Cards, their identities and what they resolve to.                       *)

\* What an identity found for a card has of that card.
Mapped(cards, ids) ==
    \A m \in ids.mapped :
        /\ m.card \in ToSet(cards) /\ m.record.base = m.card.number /\ m.record.name = m.card.name
        /\ m.record.print = m.record.base

LEMMA ReconcileFacts ==
    ASSUME NEW cards, NEW official, Reconcile(cards, official) # Refused
    PROVE  Mapped(cards, Reconcile(cards, official))
<1> DEFINE pairs == MappedPairs(cards, official)
           mapped == {[card |-> cards[pair[1]], record |-> official[pair[2]]] : pair \in pairs}
<1>1. Reconcile(cards, official).mapped = mapped
  BY DEF Reconcile
<1>2. SUFFICES ASSUME NEW m \in mapped
               PROVE  /\ m.card \in ToSet(cards) /\ m.record.base = m.card.number
                      /\ m.record.name = m.card.name /\ m.record.print = m.record.base
  BY <1>1 DEF Mapped
<1>3. PICK pair \in pairs : m = [card |-> cards[pair[1]], record |-> official[pair[2]]]
  OBVIOUS
<1>4. /\ pair[1] \in DOMAIN cards /\ pair[2] \in MatchesOf(official, cards[pair[1]])
      /\ IsIdentityOf(official[pair[2]], cards[pair[1]])
  BY DEF MappedPairs
<1>5. m.card = cards[pair[1]] /\ m.record = official[pair[2]]
  BY <1>3
<1>6. m.card \in ToSet(cards)
  BY <1>4, <1>5 DEF ToSet
<1> QED
  BY <1>4, <1>5, <1>6 DEF MatchesOf, IsIdentityOf

\* What is draftable is what has been mapped, print by print and card by card.
Classified(ids, elig) ==
    /\ \A m \in ids.mapped : \E f \in elig :
        /\ f.print = m.record.print /\ f.base = m.record.base /\ f.card = m.record.card
        /\ f.eligibility = "draftable"
    /\ \A f \in elig : f.eligibility = "draftable" =>
        \E m \in ids.mapped : f.print = m.record.print /\ f.card = m.record.card
    /\ \A m, n \in ids.mapped : m.record.card = n.record.card => m.record.print = n.record.print

LEMMA ClassifyFacts ==
    ASSUME NEW ids, NEW official, Classify(ids, official) # Refused
    PROVE  Classified(ids, Classify(ids, official))
<1> DEFINE records == ToSet(official)
           elig == {[print |-> r.print, base |-> r.base, card |-> r.card,
                     eligibility |-> EligibilityOf(ids, r)] : r \in records}
<1>1. /\ Classify(ids, official) = elig
      /\ \A i, j \in DOMAIN official : i # j =>
            official[i].print # official[j].print /\ official[i].card # official[j].card
      /\ \A known \in {m.record : m \in ids.mapped} : \E record \in records :
            SameAs(known, record) /\ known.card = record.card /\ IsCandidate(record)
  BY DEF Classify
<1>2. \A q, r \in records : (q.print = r.print => q = r) /\ (q.card = r.card => q = r)
  BY <1>1 DEF ToSet
<1> HIDE DEF records
<1>3. ASSUME NEW m \in ids.mapped
      PROVE  \E r \in records : r.print = m.record.print /\ r.base = m.record.base /\ r.card = m.record.card
  BY <1>1 DEF SameAs
<1>4. ASSUME NEW m \in ids.mapped
      PROVE  \E f \in elig : /\ f.print = m.record.print /\ f.base = m.record.base /\ f.card = m.record.card
                             /\ f.eligibility = "draftable"
  <2>1. PICK r \in records : r.print = m.record.print /\ r.base = m.record.base /\ r.card = m.record.card
    BY <1>3
  <2>2. EligibilityOf(ids, r) = "draftable"
    BY <2>1 DEF EligibilityOf
  <2> DEFINE f == [print |-> r.print, base |-> r.base, card |-> r.card, eligibility |-> EligibilityOf(ids, r)]
  <2>3. f \in elig
    OBVIOUS
  <2>4. f.print = r.print /\ f.base = r.base /\ f.card = r.card /\ f.eligibility = "draftable"
    BY <2>2
  <2> QED
    BY <2>1, <2>3, <2>4
<1>5. ASSUME NEW f \in elig, f.eligibility = "draftable"
      PROVE  \E m \in ids.mapped : f.print = m.record.print /\ f.card = m.record.card
  <2>1. PICK r \in records : f = [print |-> r.print, base |-> r.base, card |-> r.card,
                                  eligibility |-> EligibilityOf(ids, r)]
    OBVIOUS
  <2>2. EligibilityOf(ids, r) = "draftable" /\ f.print = r.print /\ f.card = r.card
    BY <1>5, <2>1
  <2>3. PICK m \in ids.mapped : r.print = m.record.print
    BY <2>2 DEF EligibilityOf
  <2>4. PICK q \in records : q.print = m.record.print /\ q.card = m.record.card
    BY <1>3
  <2>5. q = r
    BY <1>2, <2>3, <2>4
  <2> QED
    BY <2>2, <2>3, <2>4, <2>5
<1>6. ASSUME NEW m \in ids.mapped, NEW n \in ids.mapped, m.record.card = n.record.card
      PROVE  m.record.print = n.record.print
  <2>1. PICK q \in records : q.print = m.record.print /\ q.card = m.record.card
    BY <1>3
  <2>2. PICK r \in records : r.print = n.record.print /\ r.card = n.record.card
    BY <1>3
  <2>3. q = r
    BY <1>2, <1>6, <2>1, <2>2
  <2> QED
    BY <2>1, <2>2, <2>3
<1> QED
  BY <1>1, <1>4, <1>5, <1>6 DEF Classified

\* A name and a collector number have one card.
LEMMA OneCard ==
    ASSUME NEW r, RecipeShape(r), NEW c \in ToSet(r.cards), NEW d \in ToSet(r.cards)
    PROVE  (c.name = d.name => c = d) /\ (c.number = d.number => c = d) /\ c.number \in Nat
<1>1. /\ Listed(r.cards) /\ (\A x \in ToSet(r.cards) : IsCard(x))
      /\ \A i, j \in 1 .. Len(r.cards) : i # j =>
            r.cards[i].name # r.cards[j].name /\ r.cards[i].number # r.cards[j].number
  BY DEF RecipeShape, CardsRead
<1>2. ToSet(r.cards) = {r.cards[i] : i \in 1 .. Len(r.cards)}
  BY <1>1, IndexedSet
<1>3. PICK i \in 1 .. Len(r.cards), j \in 1 .. Len(r.cards) : c = r.cards[i] /\ d = r.cards[j]
  BY <1>2
<1> QED
  BY <1>1, <1>3 DEF IsCard

\* The card that a name stands for.
CardOf(r, name) == CHOOSE card \in ToSet(r.cards) : card.name = name

\* An entry is resolved to the identity of the card of its name.
Resolved(r, ids, elig, entry, m, f) ==
    /\ m \in ids.mapped /\ f \in elig /\ m.card \in ToSet(r.cards)
    /\ CardOf(r, entry.card) = m.card /\ m.card.name = entry.card
    /\ f.eligibility = "draftable" /\ f.card = m.record.card
    /\ ResolvedEntry(r, ids, elig, entry)
        = [weight |-> entry.weight, key |-> m.record.card, base |-> m.card.number]

LEMMA EntryFacts ==
    ASSUME NEW r, NEW ids, NEW elig, RecipeShape(r), Mapped(r.cards, ids), NEW entry,
           FactsOf(r, ids, elig, entry.card) # {}
    PROVE  \E m, f : Resolved(r, ids, elig, entry, m, f)
<1> DEFINE facts == FactsOf(r, ids, elig, entry.card)
           pair == CHOOSE x \in facts : TRUE
           m == pair[1]
           f == pair[2]
<1>1. pair \in facts
  OBVIOUS
<1>2. m \in ids.mapped /\ f \in elig /\ IsFact(r, entry.card, m, f)
  BY <1>1 DEF FactsOf
<1>3. ResolvedEntry(r, ids, elig, entry) = [weight |-> entry.weight, key |-> f.card, base |-> f.base]
  BY DEF ResolvedEntry
<1> HIDE DEF pair, facts
<1>4. /\ m.card \in ToSet(r.cards) /\ m.card.name = entry.card /\ f.eligibility = "draftable"
      /\ f.card = m.record.card /\ f.base = m.record.base
  BY <1>2 DEF IsFact
<1>5. m.record.base = m.card.number
  BY <1>2 DEF Mapped
<1>6. CardOf(r, entry.card) = m.card
  <2>1. CardOf(r, entry.card) \in ToSet(r.cards) /\ CardOf(r, entry.card).name = entry.card
    BY <1>4 DEF CardOf
  <2> QED
    BY <1>4, <2>1, OneCard
<1>7. ResolvedEntry(r, ids, elig, entry) = [weight |-> entry.weight, key |-> m.record.card, base |-> m.card.number]
  BY <1>3, <1>4, <1>5
<1>8. Resolved(r, ids, elig, entry, m, f)
  BY <1>2, <1>4, <1>6, <1>7 DEF Resolved
<1> QED
  BY <1>8

\* The places of a recipe's entries.
EntryOf(r, p, e) == r.pools[p].entries[e]
IsPlace(r, p, e) == p \in 1 .. Len(r.pools) /\ e \in 1 .. Len(r.pools[p].entries)

LEMMA PoolFacts ==
    ASSUME NEW r, RecipeShape(r)
    PROVE  /\ Listed(r.pools) /\ DOMAIN r.pools = 1 .. Len(r.pools) /\ Len(r.pools) \in Nat
           /\ \A p \in 1 .. Len(r.pools) :
                /\ r.pools[p] \in ToSet(r.pools) /\ Listed(r.pools[p].entries)
                /\ DOMAIN r.pools[p].entries = 1 .. Len(r.pools[p].entries) /\ Len(r.pools[p].entries) \in Nat
                /\ r.pools[p].entries # <<>>
                /\ \A e \in 1 .. Len(r.pools[p].entries) :
                    EntryOf(r, p, e) \in ToSet(r.pools[p].entries) /\ EntryOf(r, p, e).weight \in Nat \ {0}
           /\ \A p, q \in 1 .. Len(r.pools) : r.pools[p].name = r.pools[q].name => p = q
           /\ ToSet(r.pools) = {r.pools[p] : p \in 1 .. Len(r.pools)}
<1>1. /\ Listed(r.pools) /\ \A p \in 1 .. Len(r.pools) : PoolShape(r.pools[p])
      /\ \A p, q \in 1 .. Len(r.pools) : r.pools[p].name = r.pools[q].name => p = q
  BY DEF RecipeShape, PoolsRead
<1>2. /\ DOMAIN r.pools = 1 .. Len(r.pools) /\ Len(r.pools) \in Nat
      /\ \A p \in 1 .. Len(r.pools) : r.pools[p] \in ToSet(r.pools)
      /\ ToSet(r.pools) = {r.pools[p] : p \in 1 .. Len(r.pools)}
  BY <1>1, ListFacts, IndexedSet
<1>3. ASSUME NEW p \in 1 .. Len(r.pools)
      PROVE  /\ Listed(r.pools[p].entries) /\ r.pools[p].entries # <<>>
             /\ DOMAIN r.pools[p].entries = 1 .. Len(r.pools[p].entries) /\ Len(r.pools[p].entries) \in Nat
             /\ \A e \in 1 .. Len(r.pools[p].entries) :
                  EntryOf(r, p, e) \in ToSet(r.pools[p].entries) /\ EntryOf(r, p, e).weight \in Nat \ {0}
  <2>1. /\ Listed(r.pools[p].entries) /\ r.pools[p].entries # <<>>
        /\ \A e \in 1 .. Len(r.pools[p].entries) : EntryOf(r, p, e).weight \in Nat \ {0}
    BY <1>1 DEF PoolShape, EntryOf
  <2> QED
    BY <2>1, ListFacts DEF EntryOf
<1> QED
  BY <1>1, <1>2, <1>3

\* The resolved pools, place by place.
LEMMA ResolvedPoolFacts ==
    ASSUME NEW r, NEW ids, NEW elig, RecipeShape(r), Mapped(r.cards, ids), PoolsResolve(r, ids, elig),
           NEW pls, pls = ResolvedPools(r, ids, elig)
    PROVE  /\ DOMAIN pls = 1 .. Len(r.pools) /\ Listed(pls) /\ Len(pls) = Len(r.pools)
           /\ \A p \in 1 .. Len(r.pools) :
                /\ pls[p] = ResolvedPool(r, ids, elig, r.pools[p])
                /\ pls[p].name = r.pools[p].name /\ r.pools[p].name \in PinnedPools
                /\ Listed(pls[p].entries)
                /\ DOMAIN pls[p].entries = 1 .. Len(r.pools[p].entries)
                /\ Len(pls[p].entries) = Len(r.pools[p].entries)
           /\ \A p, e : IsPlace(r, p, e) =>
                /\ pls[p].entries[e] = ResolvedEntry(r, ids, elig, EntryOf(r, p, e))
                /\ \E m, f : Resolved(r, ids, elig, EntryOf(r, p, e), m, f)
<1> DEFINE N == Len(r.pools)
<1>1. /\ DOMAIN r.pools = 1 .. N /\ N \in Nat
      /\ \A p \in 1 .. N :
            /\ r.pools[p] \in ToSet(r.pools)
            /\ DOMAIN r.pools[p].entries = 1 .. Len(r.pools[p].entries) /\ Len(r.pools[p].entries) \in Nat
            /\ \A e \in 1 .. Len(r.pools[p].entries) : EntryOf(r, p, e) \in ToSet(r.pools[p].entries)
  BY PoolFacts
<1> HIDE DEF N
<1>2. DOMAIN pls = 1 .. N /\ pls = [p \in 1 .. N |-> pls[p]]
      /\ \A p \in 1 .. N : pls[p] = ResolvedPool(r, ids, elig, r.pools[p])
  BY <1>1 DEF ResolvedPools
<1>3. Listed(pls) /\ Len(pls) = N
  BY <1>1, <1>2, IndexedListed
<1>4. ASSUME NEW p \in 1 .. N
      PROVE  /\ pls[p].name = r.pools[p].name /\ r.pools[p].name \in PinnedPools
             /\ Listed(pls[p].entries) /\ Len(pls[p].entries) = Len(r.pools[p].entries)
             /\ DOMAIN pls[p].entries = 1 .. Len(r.pools[p].entries)
             /\ \A e \in 1 .. Len(r.pools[p].entries) :
                    /\ pls[p].entries[e] = ResolvedEntry(r, ids, elig, EntryOf(r, p, e))
                    /\ FactsOf(r, ids, elig, EntryOf(r, p, e).card) # {}
  <2> DEFINE n == Len(r.pools[p].entries)
             s == pls[p].entries
  <2> DEFINE pool == r.pools[p]
  <2>6. pls[p] = ResolvedPool(r, ids, elig, pool)
    BY <1>2
  <2>7. /\ ResolvedPool(r, ids, elig, pool).name = pool.name
        /\ ResolvedPool(r, ids, elig, pool).entries
            = [e \in DOMAIN pool.entries |-> ResolvedEntry(r, ids, elig, pool.entries[e])]
    <3> HIDE DEF pool
    <3> QED
      BY DEF ResolvedPool
  <2>1. /\ pls[p].name = r.pools[p].name
        /\ s = [e \in DOMAIN r.pools[p].entries |-> ResolvedEntry(r, ids, elig, r.pools[p].entries[e])]
    BY <2>6, <2>7
  <2>2. n \in Nat /\ DOMAIN s = 1 .. n /\ s = [e \in 1 .. n |-> s[e]]
        /\ \A e \in 1 .. n : s[e] = ResolvedEntry(r, ids, elig, EntryOf(r, p, e))
    BY <1>1, <2>1 DEF EntryOf
  <2>3. r.pools[p] \in ToSet(r.pools) /\ \A e \in 1 .. n : EntryOf(r, p, e) \in ToSet(r.pools[p].entries)
    BY <1>1
  <2>4. r.pools[p].name \in PinnedPools /\ \A e \in 1 .. n : FactsOf(r, ids, elig, EntryOf(r, p, e).card) # {}
    BY <2>3 DEF PoolsResolve
  <2> HIDE DEF s, n
  <2>5. Listed(s) /\ Len(s) = n
    BY <2>2, IndexedListed
  <2> QED
    BY <2>1, <2>2, <2>4, <2>5 DEF s, n
<1>5. ASSUME NEW p, NEW e, IsPlace(r, p, e)
      PROVE  /\ pls[p].entries[e] = ResolvedEntry(r, ids, elig, EntryOf(r, p, e))
             /\ \E m, f : Resolved(r, ids, elig, EntryOf(r, p, e), m, f)
  <2>1. p \in 1 .. N /\ e \in 1 .. Len(r.pools[p].entries)
    BY <1>5 DEF IsPlace, N
  <2>2. /\ pls[p].entries[e] = ResolvedEntry(r, ids, elig, EntryOf(r, p, e))
        /\ FactsOf(r, ids, elig, EntryOf(r, p, e).card) # {}
    BY <1>4, <2>1
  <2> QED
    BY <2>2, EntryFacts
<1> QED
  BY <1>2, <1>3, <1>4, <1>5 DEF N

-----------------------------------------------------------------------------
(* The snapshot.                                                           *)

\* What a list holds is finite.
LEMMA FiniteList ==
    ASSUME NEW s, Listed(s)
    PROVE  IsFiniteSet(ToSet(s))
<1> DEFINE n == Len(s)
           T == ToSet(s)
<1>1. n \in Nat /\ T = {s[i] : i \in 1 .. n} /\ s \in [1 .. n -> T]
  <2>1. n \in Nat /\ T = {s[i] : i \in 1 .. n}
    BY ListFacts, IndexedSet
  <2>2. s \in Seq(T)
    BY DEF Listed
  <2> HIDE DEF T
  <2> QED
    BY <2>1, <2>2
<1>2. s \in Surjection(1 .. n, T)
  BY <1>1 DEF Surjection
<1>3. IsFiniteSet(1 .. n)
  BY <1>1, UpTo
<1> QED
  BY <1>2, <1>3, FS_Surjection

\* The collector numbers of all entries, each once and in their order.
LEMMA BasesFacts ==
    ASSUME NEW r, NEW ids, NEW elig, RecipeShape(r), Mapped(r.cards, ids), PoolsResolve(r, ids, elig),
           NEW pls, pls = ResolvedPools(r, ids, elig)
    PROVE  /\ Listed(SortedBases(pls)) /\ DOMAIN SortedBases(pls) = 1 .. Len(SortedBases(pls))
           /\ \A p, e : IsPlace(r, p, e) =>
                \E i \in 1 .. Len(SortedBases(pls)) : SortedBases(pls)[i] = pls[p].entries[e].base
<1> DEFINE N == Len(r.pools)
           B(p) == [e \in DOMAIN pls[p].entries |-> pls[p].entries[e].base]
           ss == [p \in DOMAIN pls |-> B(p)]
           F == FlattenSeq(ss)
           S == ToSet(F)
<1>1. /\ DOMAIN pls = 1 .. N /\ N \in Nat
      /\ \A p \in 1 .. N : /\ DOMAIN pls[p].entries = 1 .. Len(r.pools[p].entries)
                           /\ Len(r.pools[p].entries) \in Nat
  BY ResolvedPoolFacts, PoolFacts
<1>2. ASSUME NEW p, NEW e, IsPlace(r, p, e) PROVE pls[p].entries[e].base \in Int
  <2>1. /\ pls[p].entries[e] = ResolvedEntry(r, ids, elig, EntryOf(r, p, e))
        /\ \E m, f : Resolved(r, ids, elig, EntryOf(r, p, e), m, f)
    BY <1>2, ResolvedPoolFacts
  <2>2. PICK m, f : Resolved(r, ids, elig, EntryOf(r, p, e), m, f)
    BY <2>1
  <2>3. m.card \in ToSet(r.cards) /\ pls[p].entries[e].base = m.card.number
    BY <2>1, <2>2 DEF Resolved
  <2>4. m.card.number \in Nat
    BY <2>3, OneCard
  <2> QED
    BY <2>3, <2>4
<1> HIDE DEF N
<1>3. ASSUME NEW p \in 1 .. N
      PROVE  /\ Listed(B(p)) /\ Len(B(p)) = Len(r.pools[p].entries)
             /\ \A e \in 1 .. Len(B(p)) : B(p)[e] = pls[p].entries[e].base /\ IsPlace(r, p, e)
  <2> DEFINE s == B(p)
             n == Len(r.pools[p].entries)
  <2>1. n \in Nat /\ DOMAIN s = 1 .. n /\ s = [e \in 1 .. n |-> s[e]]
        /\ \A e \in 1 .. n : s[e] = pls[p].entries[e].base
    BY <1>1
  <2> HIDE DEF s, n
  <2>2. Listed(s) /\ Len(s) = n
    BY <2>1, IndexedListed
  <2> QED
    BY <2>1, <2>2 DEF s, n, IsPlace, N
<1>4. Listed(ss) /\ Len(ss) = N /\ \A p \in 1 .. N : ss[p] = B(p)
  <2>1. DOMAIN ss = 1 .. N /\ ss = [p \in 1 .. N |-> ss[p]] /\ \A p \in 1 .. N : ss[p] = B(p)
    BY <1>1
  <2> HIDE DEF ss, B
  <2> QED
    BY <1>1, <2>1, IndexedListed
<1>5. SortedBases(pls) = InOrder(S)
  BY DEF SortedBases, BasesOf
<1> HIDE DEF ss, B
<1>6. /\ Listed(F) /\ \A x \in 1 .. Len(F) : \E p \in 1 .. N : \E e \in 1 .. Len(B(p)) : F[x] = B(p)[e]
      /\ \A p \in 1 .. N : \A e \in 1 .. Len(B(p)) : \E x \in 1 .. Len(F) : F[x] = B(p)[e]
  <2>1. Lists(ss)
    BY <1>3, <1>4 DEF Lists
  <2>7. FlatOf(FlattenSeq(ss), ss)
    BY <1>4, <2>1, FlattenElements
  <2>2. /\ Listed(FlattenSeq(ss))
        /\ \A x \in 1 .. Len(FlattenSeq(ss)) :
                \E i \in 1 .. Len(ss) : \E k \in 1 .. Len(ss[i]) : FlattenSeq(ss)[x] = ss[i][k]
        /\ \A i \in 1 .. Len(ss) : \A k \in 1 .. Len(ss[i]) :
                \E x \in 1 .. Len(FlattenSeq(ss)) : FlattenSeq(ss)[x] = ss[i][k]
    BY <2>7 DEF FlatOf
  <2> HIDE DEF F
  <2>3. F = FlattenSeq(ss)
    BY DEF F
  <2>4. Listed(F)
    BY <2>2, <2>3
  <2>5. ASSUME NEW x \in 1 .. Len(F) PROVE \E p \in 1 .. N : \E e \in 1 .. Len(B(p)) : F[x] = B(p)[e]
    <3>1. PICK i \in 1 .. Len(ss) : \E k \in 1 .. Len(ss[i]) : F[x] = ss[i][k]
      BY <2>2, <2>3
    <3>2. PICK k \in 1 .. Len(ss[i]) : F[x] = ss[i][k]
      BY <3>1
    <3>3. i \in 1 .. N /\ ss[i] = B(i)
      BY <1>4
    <3> QED
      BY <3>2, <3>3
  <2>6. ASSUME NEW p \in 1 .. N, NEW e \in 1 .. Len(B(p)) PROVE \E x \in 1 .. Len(F) : F[x] = B(p)[e]
    <3>1. p \in 1 .. Len(ss) /\ ss[p] = B(p)
      BY <1>4
    <3>2. e \in 1 .. Len(ss[p])
      BY <3>1
    <3>3. \E x \in 1 .. Len(FlattenSeq(ss)) : FlattenSeq(ss)[x] = ss[p][e]
      BY <2>2, <3>1, <3>2
    <3> QED
      BY <2>3, <3>1, <3>3
  <2> QED
    BY <2>4, <2>5, <2>6
<1> HIDE DEF F
<1>7. S = {F[x] : x \in 1 .. Len(F)} /\ IsFiniteSet(S)
  BY <1>6, IndexedSet, FiniteList
<1> HIDE DEF S
<1>8. S \subseteq Int
  <2> SUFFICES ASSUME NEW x \in 1 .. Len(F) PROVE F[x] \in Int
    BY <1>7
  <2>1. PICK p \in 1 .. N : \E e \in 1 .. Len(B(p)) : F[x] = B(p)[e]
    BY <1>6
  <2>2. PICK e \in 1 .. Len(B(p)) : F[x] = B(p)[e]
    BY <2>1
  <2>3. IsPlace(r, p, e) /\ B(p)[e] = pls[p].entries[e].base
    BY <1>3
  <2> QED
    BY <1>2, <2>2, <2>3
<1> DEFINE m == InOrder(S)
<1>9. Ordered(m, S)
  BY <1>7, <1>8, InOrderFacts
<1> HIDE DEF m
<1>10. Listed(m) /\ DOMAIN m = 1 .. Len(m) /\ \A b \in S : \E i \in 1 .. Len(m) : m[i] = b
  BY <1>9, ListFacts DEF Ordered
<1>11. ASSUME NEW p, NEW e, IsPlace(r, p, e)
       PROVE  \E i \in 1 .. Len(m) : m[i] = pls[p].entries[e].base
  <2>1. p \in 1 .. N /\ e \in 1 .. Len(r.pools[p].entries)
    BY <1>11 DEF IsPlace, N
  <2>2. e \in 1 .. Len(B(p)) /\ B(p)[e] = pls[p].entries[e].base
    BY <1>3, <2>1
  <2>3. B(p)[e] \in S
    BY <1>6, <1>7, <2>1, <2>2
  <2> QED
    BY <1>10, <2>2, <2>3
<1> QED
  BY <1>5, <1>10, <1>11 DEF m

\* Looking up where a list holds something it does hold.
LEMMA PlaceFacts ==
    ASSUME NEW s, NEW x, \E i \in DOMAIN s : s[i] = x
    PROVE  PlaceOf(s, x) \in DOMAIN s /\ s[PlaceOf(s, x)] = x
BY DEF PlaceOf

\* The positions of a layout are those of its slots, one after the other.
LEMMA PositionsFacts ==
    ASSUME NEW l, LayoutShape(l)
    PROVE  /\ Listed(PositionsOf(l)) /\ DOMAIN PositionsOf(l) = 1 .. Len(PositionsOf(l))
           /\ Len(PositionsOf(l)) \in Nat
           /\ \A x \in 1 .. Len(PositionsOf(l)) :
                \E i \in 1 .. Len(l.slots) : PositionsOf(l)[x] = l.slots[i].pool
           /\ \A i \in 1 .. Len(l.slots) :
                \E x \in 1 .. Len(PositionsOf(l)) : PositionsOf(l)[x] = l.slots[i].pool
<1> DEFINE B(i) == [k \in 1 .. l.slots[i].count |-> l.slots[i].pool]
           ss == [i \in DOMAIN l.slots |-> B(i)]
           F == FlattenSeq(ss)
           N == Len(l.slots)
<1>1. PositionsOf(l) = F
  BY DEF PositionsOf
<1>2. DOMAIN l.slots = 1 .. N /\ N \in Nat /\ \A i \in 1 .. N : l.slots[i].count \in Nat \ {0}
  BY ListFacts DEF LayoutShape
<1> HIDE DEF N
<1>3. Listed(ss) /\ Len(ss) = N /\ \A i \in 1 .. N : ss[i] = B(i)
  <2>1. DOMAIN ss = 1 .. N /\ ss = [i \in 1 .. N |-> ss[i]] /\ \A i \in 1 .. N : ss[i] = B(i)
    BY <1>2
  <2> HIDE DEF ss, B
  <2> QED
    BY <1>2, <2>1, IndexedListed
<1>4. ASSUME NEW i \in 1 .. N
      PROVE  Listed(B(i)) /\ Len(B(i)) = l.slots[i].count /\ \A k \in 1 .. Len(B(i)) : B(i)[k] = l.slots[i].pool
  <2> DEFINE s == B(i)
             n == l.slots[i].count
             o == l.slots[i].pool
  <2>1. n \in Nat /\ DOMAIN s = 1 .. n /\ s = [k \in 1 .. n |-> s[k]] /\ \A k \in 1 .. n : s[k] = o
    BY <1>2
  <2> HIDE DEF s, n, o
  <2>2. Listed(s) /\ Len(s) = n
    BY <2>1, IndexedListed
  <2> QED
    BY <2>1, <2>2 DEF s, n, o
<1> HIDE DEF ss, B
<1>5. Lists(ss)
  BY <1>3, <1>4 DEF Lists
<1>9. FlatOf(F, ss)
  BY <1>3, <1>5, FlattenElements
<1>6. /\ Listed(F)
      /\ \A x \in 1 .. Len(F) : \E i \in 1 .. Len(ss) : \E k \in 1 .. Len(ss[i]) : F[x] = ss[i][k]
      /\ \A i \in 1 .. Len(ss) : \A k \in 1 .. Len(ss[i]) : \E x \in 1 .. Len(F) : F[x] = ss[i][k]
  BY <1>9 DEF FlatOf
<1> HIDE DEF F
<1>7. ASSUME NEW x \in 1 .. Len(F) PROVE \E i \in 1 .. N : F[x] = l.slots[i].pool
  <2>1. PICK i \in 1 .. Len(ss) : \E k \in 1 .. Len(ss[i]) : F[x] = ss[i][k]
    BY <1>6
  <2>2. PICK k \in 1 .. Len(ss[i]) : F[x] = ss[i][k]
    BY <2>1
  <2>3. i \in 1 .. N /\ ss[i] = B(i)
    BY <1>3
  <2>4. B(i)[k] = l.slots[i].pool
    BY <1>4, <2>2, <2>3
  <2> QED
    BY <2>2, <2>3, <2>4
<1>8. ASSUME NEW i \in 1 .. N PROVE \E x \in 1 .. Len(F) : F[x] = l.slots[i].pool
  <2>1. 1 \in 1 .. Len(B(i)) /\ B(i)[1] = l.slots[i].pool /\ ss[i] = B(i) /\ i \in 1 .. Len(ss)
    BY <1>2, <1>3, <1>4
  <2>2. \E x \in 1 .. Len(F) : F[x] = ss[i][1]
    BY <1>6, <2>1
  <2> QED
    BY <2>1, <2>2
<1> QED
  BY <1>1, <1>6, <1>7, <1>8, ListFacts DEF N

\* The rarity found for a collector number is the one its card is labelled with.
LEMMA RarityFacts ==
    ASSUME NEW cards, NEW ids, Mapped(cards, ids), NEW official, NEW rarities,
           rarities = ReconcileRarities(ids, official), rarities # Refused,
           \A m, n \in ids.mapped : m # n => m.record.base # n.record.base,
           NEW m \in ids.mapped, m.card.number \in {x.print : x \in rarities}
    PROVE  (CHOOSE x \in rarities : x.print = m.card.number).rarity = FabRarity[m.card.rarity]
<1> DEFINE records == ToSet(official)
           Found(n) == {q \in records :
                q.print = n.record.print /\ q.base = n.record.base /\ q.card = n.record.card}
           pairs == {pair \in ids.mapped \X records : pair[2] \in Found(pair[1])}
           c == CHOOSE x \in rarities : x.print = m.card.number
<1> DEFINE R(pair) == [print |-> pair[2].print, rarity |-> FabRarity[pair[1].card.rarity]]
<1>1. rarities = {R(pair) : pair \in pairs}
  BY DEF ReconcileRarities
<1>2. c \in rarities /\ c.print = m.card.number
  OBVIOUS
<1>3. PICK pair \in pairs : c = R(pair)
  <2> HIDE DEF c, R, pairs
  <2> QED
    BY <1>1, <1>2
<1> HIDE DEF c
<1>4. /\ pair[1] \in ids.mapped /\ pair[2].print = pair[1].record.print
      /\ c.print = pair[2].print /\ c.rarity = FabRarity[pair[1].card.rarity]
  BY <1>3
<1>5. pair[1].record.base = m.record.base
  BY <1>2, <1>4 DEF Mapped
<1>6. pair[1] = m
  BY <1>4, <1>5
<1> QED
  BY <1>4, <1>6 DEF c

-----------------------------------------------------------------------------
(* The snapshot deals the recipe.                                          *)

\* Each layout's positions are those of the pools of their names.
LEMMA DealtPlaces ==
    ASSUME NEW layouts, NEW pls, LayoutsResolve(layouts, pls), Listed(pls),
           NEW l \in DOMAIN layouts, LayoutShape(layouts[l]),
           NEW dealt, dealt = SnapshotLayouts(pls, ResolvedLayouts(layouts, pls))[l],
           NEW i \in 1 .. VisibleCardTotal
    PROVE  /\ dealt.weight = layouts[l].weight
           /\ dealt.pools[i] \in DOMAIN pls
           /\ pls[dealt.pools[i]].name = PositionsOf(layouts[l])[i]
           /\ dealt.pools[i] \in 1 .. Len(pls)
<1> DEFINE layout == layouts[l]
           positions == PositionsOf(layout)
           labels == [p \in DOMAIN pls |-> pls[p].name]
<1>1. layout \in ToSet(layouts)
  BY DEF ToSet
<1>2. ResolvedLayouts(layouts, pls)[l].weight = layout.weight
      /\ ResolvedLayouts(layouts, pls)[l].slots = positions
      /\ DOMAIN ResolvedLayouts(layouts, pls) = DOMAIN layouts
  BY DEF ResolvedLayouts, ResolvedLayout
<1> HIDE DEF layout
<1>3. /\ Listed(positions) /\ DOMAIN positions = 1 .. Len(positions)
  BY PositionsFacts DEF layout
<1>4. Len(positions) = VisibleCardTotal
  BY <1>1 DEF LayoutsResolve, Resolves
<1>5. i \in DOMAIN positions
  BY <1>3, <1>4
<1> HIDE DEF positions
<1>6. dealt = [weight |-> layout.weight, pools |-> [k \in DOMAIN positions |-> PlaceOf(labels, positions[k])]]
  <2>1. dealt = [weight |-> ResolvedLayouts(layouts, pls)[l].weight,
                 pools |-> [k \in DOMAIN ResolvedLayouts(layouts, pls)[l].slots |->
                                PlaceOf(labels, ResolvedLayouts(layouts, pls)[l].slots[k])]]
    BY <1>2 DEF SnapshotLayouts
  <2> QED
    BY <1>2, <2>1
<1> HIDE DEF labels
<1>7. dealt.weight = layout.weight /\ dealt.pools[i] = PlaceOf(labels, positions[i])
  BY <1>5, <1>6
<1>8. \E p \in DOMAIN labels : labels[p] = positions[i]
  <2>1. positions[i] \in ToSet(positions)
    BY <1>5 DEF ToSet
  <2>2. positions[i] \in UNION {ToSet(PositionsOf(x)) : x \in ToSet(layouts)}
    BY <1>1, <2>1 DEF positions
  <2>3. UNION {ToSet(PositionsOf(x)) : x \in ToSet(layouts)} = {pool.name : pool \in ToSet(pls)}
    BY DEF LayoutsResolve
  <2>4. PICK pool \in ToSet(pls) : pool.name = positions[i]
    BY <2>2, <2>3
  <2>5. PICK p \in DOMAIN pls : pls[p] = pool
    BY <2>4 DEF ToSet
  <2> QED
    BY <2>4, <2>5 DEF labels
<1>9. PlaceOf(labels, positions[i]) \in DOMAIN labels /\ labels[PlaceOf(labels, positions[i])] = positions[i]
  BY <1>8, PlaceFacts
<1> QED
  BY <1>7, <1>9, ListFacts DEF labels, layout, positions

\* The pool at a place is the one found by its name.
LEMMA PoolByName ==
    ASSUME NEW r, RecipeShape(r), NEW p \in 1 .. Len(r.pools)
    PROVE  PoolNamed(r.pools, r.pools[p].name) = r.pools[p]
<1> DEFINE name == r.pools[p].name
           c == PoolNamed(r.pools, name)
<1>1. /\ r.pools[p] \in ToSet(r.pools) /\ ToSet(r.pools) = {r.pools[q] : q \in 1 .. Len(r.pools)}
      /\ \A q \in 1 .. Len(r.pools) : r.pools[q].name = r.pools[p].name => q = p
  BY PoolFacts
<1>2. c \in ToSet(r.pools) /\ c.name = name
  BY <1>1 DEF PoolNamed
<1> HIDE DEF c
<1>3. PICK q \in 1 .. Len(r.pools) : c = r.pools[q]
  BY <1>1, <1>2
<1> QED
  BY <1>1, <1>2, <1>3 DEF c

\* What the snapshot has for an entry of a resolved pool.
LEMMA DealtEntries ==
    ASSUME NEW pls, Listed(pls), NEW ids, ids = SortedBases(pls), NEW p \in DOMAIN pls, NEW n \in Nat,
           DOMAIN pls[p].entries = 1 .. n,
           \A e \in 1 .. n : \E i \in DOMAIN ids : ids[i] = pls[p].entries[e].base
    PROVE  /\ Len(SnapshotPools(pls)[p].entries) = n
           /\ \A e \in 1 .. n :
                /\ SnapshotPools(pls)[p].entries[e].weight = pls[p].entries[e].weight
                /\ SnapshotPools(pls)[p].entries[e].identity \in DOMAIN ids
                /\ ids[SnapshotPools(pls)[p].entries[e].identity] = pls[p].entries[e].base
<1> DEFINE given == SnapshotPools(pls)[p].entries
           Dealt(e) == [identity |-> PlaceOf(ids, pls[p].entries[e].base), weight |-> pls[p].entries[e].weight]
<1>1. given = [e \in 1 .. n |-> Dealt(e)]
  BY DEF SnapshotPools
<1>2. DOMAIN given = 1 .. n /\ given = [e \in 1 .. n |-> given[e]] /\ \A e \in 1 .. n : given[e] = Dealt(e)
  BY <1>1
<1> HIDE DEF given
<1>3. Len(given) = n
  BY <1>2, IndexedListed
<1>4. ASSUME NEW e \in 1 .. n
      PROVE  /\ given[e].weight = pls[p].entries[e].weight /\ given[e].identity \in DOMAIN ids
             /\ ids[given[e].identity] = pls[p].entries[e].base
  <2>1. given[e].weight = pls[p].entries[e].weight
        /\ given[e].identity = PlaceOf(ids, pls[p].entries[e].base)
    BY <1>2
  <2>2. \E i \in DOMAIN ids : ids[i] = pls[p].entries[e].base
    OBVIOUS
  <2> DEFINE base == pls[p].entries[e].base
  <2> HIDE DEF base
  <2>3. \E i \in DOMAIN ids : ids[i] = base
    BY <2>2 DEF base
  <2>4. PlaceOf(ids, base) \in DOMAIN ids /\ ids[PlaceOf(ids, base)] = base
    BY <2>3, PlaceFacts
  <2> QED
    BY <2>1, <2>4 DEF base
<1> QED
  BY <1>3, <1>4 DEF given

\* A snapshot that is taken holds what it was made of.
LEMMA SnapshotFacts ==
    ASSUME NEW pls, NEW layouts, NEW rarities, NEW s, s = SnapshotOf(pls, layouts, rarities), s # Refused,
           NEW ids, ids = SortedBases(pls)
    PROVE  /\ s.pools = SnapshotPools(pls) /\ s.layouts = SnapshotLayouts(pls, layouts)
           /\ \A i \in DOMAIN ids :
                /\ ids[i] \in {x.print : x \in rarities}
                /\ s.identities[i] = [id |-> ids[i],
                                      rarity |-> (CHOOSE x \in rarities : x.print = ids[i]).rarity]
<1> DEFINE RarityOf(id) == (CHOOSE x \in rarities : x.print = id).rarity
           snap == [identities |-> [i \in DOMAIN ids |-> [id |-> ids[i], rarity |-> RarityOf(ids[i])]],
                    pools |-> SnapshotPools(pls),
                    layouts |-> SnapshotLayouts(pls, layouts)]
<1>1. s = snap /\ ToSet(ids) \subseteq {x.print : x \in rarities}
  BY DEF SnapshotOf
<1>2. \A i \in DOMAIN ids : ids[i] \in ToSet(ids)
  BY DEF ToSet
<1>3. s.pools = SnapshotPools(pls) /\ s.layouts = SnapshotLayouts(pls, layouts)
      /\ s.identities = [i \in DOMAIN ids |-> [id |-> ids[i], rarity |-> RarityOf(ids[i])]]
  BY <1>1, SMTT(30)
<1> QED
  BY <1>1, <1>2, <1>3

\* What a generated snapshot gives for the entry at a place.
Deals(s, r, p, e) ==
    LET card == CardOf(r, EntryOf(r, p, e).card)
        given == s.pools[p].entries
    IN  /\ Len(given) = Len(r.pools[p].entries)
        /\ given[e].weight = EntryOf(r, p, e).weight
        /\ s.identities[given[e].identity] = [id |-> card.number, rarity |-> FabRarity[card.rarity]]

LEMMA DealtIdentity ==
    ASSUME NEW r, NEW ids, NEW elig, RecipeShape(r), Mapped(r.cards, ids), PoolsResolve(r, ids, elig),
           NEW pls, pls = ResolvedPools(r, ids, elig), NEW official, NEW rarities,
           rarities = ReconcileRarities(ids, official), rarities # Refused,
           NEW layouts, NEW s, s = SnapshotOf(pls, layouts, rarities), s # Refused,
           NEW p, NEW e, IsPlace(r, p, e)
    PROVE  Deals(s, r, p, e)
<1> DEFINE sorted == SortedBases(pls)
           n == Len(r.pools[p].entries)
           given == s.pools[p].entries
           card == CardOf(r, EntryOf(r, p, e).card)
<1>1. p \in 1 .. Len(r.pools) /\ e \in 1 .. n
  BY DEF IsPlace
<1>2. /\ DOMAIN pls = 1 .. Len(r.pools) /\ Listed(pls) /\ DOMAIN pls[p].entries = 1 .. n /\ n \in Nat
  BY <1>1, ResolvedPoolFacts, PoolFacts
<1>3. PICK m, f : Resolved(r, ids, elig, EntryOf(r, p, e), m, f)
  BY ResolvedPoolFacts
<1>4. pls[p].entries[e] = ResolvedEntry(r, ids, elig, EntryOf(r, p, e))
  BY ResolvedPoolFacts
<1>5. /\ m \in ids.mapped /\ card = m.card
      /\ pls[p].entries[e].weight = EntryOf(r, p, e).weight /\ pls[p].entries[e].base = m.card.number
  BY <1>3, <1>4 DEF Resolved
<1>6. /\ DOMAIN sorted = 1 .. Len(sorted)
      /\ \A k \in 1 .. n : \E i \in 1 .. Len(sorted) : sorted[i] = pls[p].entries[k].base
  <2>1. \A k \in 1 .. n : IsPlace(r, p, k)
    BY <1>1 DEF IsPlace
  <2> QED
    BY <2>1, BasesFacts
<1> HIDE DEF sorted, n, card
<1>7. /\ Len(SnapshotPools(pls)[p].entries) = n
      /\ SnapshotPools(pls)[p].entries[e].weight = pls[p].entries[e].weight
      /\ SnapshotPools(pls)[p].entries[e].identity \in DOMAIN sorted
      /\ sorted[SnapshotPools(pls)[p].entries[e].identity] = pls[p].entries[e].base
  <2>1. \A k \in 1 .. n : \E i \in DOMAIN sorted : sorted[i] = pls[p].entries[k].base
    BY <1>6
  <2>2. sorted = SortedBases(pls)
    BY DEF sorted
  <2> QED
    BY <1>1, <1>2, <2>1, <2>2, DealtEntries
<1>8. /\ s.pools = SnapshotPools(pls)
      /\ \A i \in DOMAIN sorted :
            /\ sorted[i] \in {x.print : x \in rarities}
            /\ s.identities[i] = [id |-> sorted[i],
                                  rarity |-> (CHOOSE x \in rarities : x.print = sorted[i]).rarity]
  BY SnapshotFacts DEF sorted
<1> DEFINE i == given[e].identity
<1>9. /\ Len(given) = n /\ given[e].weight = EntryOf(r, p, e).weight
      /\ i \in DOMAIN sorted /\ sorted[i] = m.card.number
  BY <1>5, <1>7, <1>8
<1> HIDE DEF given, i
<1>10. /\ m.card.number \in {x.print : x \in rarities}
       /\ s.identities[i] = [id |-> m.card.number,
                             rarity |-> (CHOOSE x \in rarities : x.print = m.card.number).rarity]
  BY <1>8, <1>9
<1>11. \A m1, n1 \in ids.mapped : m1 # n1 => m1.record.base # n1.record.base
  BY DEF PoolsResolve
<1>12. (CHOOSE x \in rarities : x.print = m.card.number).rarity = FabRarity[m.card.rarity]
  BY <1>5, <1>10, <1>11, RarityFacts
<1> QED
  BY <1>5, <1>9, <1>10, <1>12 DEF Deals, given, i, n, card

\* Dealt by its places, a generated snapshot gives what the recipe says: each
\* layout with its weight, and at each position the cards of the pool the
\* recipe names there (apps/server/src/packs.ts:60-88).
THEOREM SnapshotDeals == ReadingSpec => []SnapshotDealsTheRecipe
<1>1. ReadingInv => SnapshotDealsTheRecipe
  <2> SUFFICES ASSUME ReadingInv, phase = "generated" PROVE SnapshotDealsTheRecipe
    BY DEF SnapshotDealsTheRecipe
  <2> DEFINE r == recipe
             layouts == ResolvedLayouts(r.layouts, pools)
  <2>1. /\ RecipeShape(r) /\ PoolsResolve(r, identities, eligibility)
        /\ pools = ResolvedPools(r, identities, eligibility) /\ LayoutsResolve(r.layouts, pools)
    BY ShapesAre DEF ReadingInv, Verified
  <2>2. Mapped(r.cards, identities)
    BY ReconcileFacts DEF ReadingInv
  <2>3. PICK official \in Officials :
            /\ ReconcileRarities(identities, official) # Refused /\ snapshot # Refused
            /\ snapshot = SnapshotOf(pools, layouts, ReconcileRarities(identities, official))
    BY DEF ReadingInv
  <2> DEFINE rarities == ReconcileRarities(identities, official)
  <2>4. snapshot.layouts = SnapshotLayouts(pools, layouts)
    BY <2>3, SnapshotFacts
  <2>5. ASSUME NEW l \in DOMAIN r.layouts, NEW i \in 1 .. VisibleCardTotal
        PROVE  LET dealt == snapshot.layouts[l]
                   given == snapshot.pools[dealt.pools[i]].entries
                   entries == PoolNamed(r.pools, PositionsOf(r.layouts[l])[i]).entries
               IN  /\ dealt.weight = r.layouts[l].weight
                   /\ Len(given) = Len(entries)
                   /\ \A e \in DOMAIN entries :
                        /\ given[e].weight = entries[e].weight
                        /\ snapshot.identities[given[e].identity] =
                            [id |-> CardNamed(entries[e].card).number,
                             rarity |-> FabRarity[CardNamed(entries[e].card).rarity]]
    <3> DEFINE dealt == snapshot.layouts[l]
               p == dealt.pools[i]
               given == snapshot.pools[p].entries
               name == PositionsOf(r.layouts[l])[i]
               entries == PoolNamed(r.pools, name).entries
    <3>1. LayoutShape(r.layouts[l])
      <4>1. /\ Listed(r.layouts) /\ \A k \in 1 .. Len(r.layouts) : LayoutShape(r.layouts[k])
        BY <2>1 DEF RecipeShape, LayoutsRead
      <4> QED
        BY <4>1, ListFacts
    <3>2. Listed(pools) /\ Len(pools) = Len(r.pools)
          /\ \A q \in 1 .. Len(r.pools) : pools[q].name = r.pools[q].name
      BY <2>1, <2>2, ResolvedPoolFacts
    <3>3. dealt.weight = r.layouts[l].weight /\ pools[p].name = name /\ p \in 1 .. Len(pools)
      BY <2>1, <2>4, <3>1, <3>2, DealtPlaces
    <3> HIDE DEF p, name, dealt
    <3>4. entries = r.pools[p].entries /\ p \in 1 .. Len(r.pools)
      BY <2>1, <3>2, <3>3, PoolByName
    <3>5. DOMAIN r.pools[p].entries = 1 .. Len(r.pools[p].entries) /\ r.pools[p].entries # <<>>
          /\ Len(r.pools[p].entries) \in Nat /\ Listed(r.pools[p].entries)
      BY <2>1, <3>4, PoolFacts
    <3>6. ASSUME NEW e \in DOMAIN r.pools[p].entries
          PROVE  /\ Len(given) = Len(r.pools[p].entries)
                 /\ given[e].weight = r.pools[p].entries[e].weight
                 /\ snapshot.identities[given[e].identity] =
                     [id |-> CardNamed(r.pools[p].entries[e].card).number,
                      rarity |-> FabRarity[CardNamed(r.pools[p].entries[e].card).rarity]]
      <4>1. IsPlace(r, p, e)
        BY <3>4, <3>5 DEF IsPlace
      <4>2. CardNamed(EntryOf(r, p, e).card) = CardOf(r, EntryOf(r, p, e).card)
        BY DEF CardNamed, CardOf
      <4>3. /\ Len(given) = Len(r.pools[p].entries)
            /\ given[e].weight = EntryOf(r, p, e).weight
            /\ snapshot.identities[given[e].identity] =
                     [id |-> CardOf(r, EntryOf(r, p, e).card).number,
                      rarity |-> FabRarity[CardOf(r, EntryOf(r, p, e).card).rarity]]
        <5>1. Deals(snapshot, r, p, e)
          BY <2>1, <2>2, <2>3, <4>1, DealtIdentity
        <5> QED
          BY <5>1 DEF Deals
      <4> QED
        BY <4>2, <4>3 DEF EntryOf
    <3>7. 1 \in DOMAIN r.pools[p].entries
      BY <3>5, SMTT(30) DEF Listed
    <3> HIDE DEF given, entries
    <3>8. /\ dealt.weight = r.layouts[l].weight /\ Len(given) = Len(entries)
          /\ \A e \in DOMAIN entries :
                /\ given[e].weight = entries[e].weight
                /\ snapshot.identities[given[e].identity] =
                    [id |-> CardNamed(entries[e].card).number,
                     rarity |-> FabRarity[CardNamed(entries[e].card).rarity]]
      BY <3>3, <3>4, <3>6, <3>7, ZenonT(60)
    <3> QED
      BY <3>8 DEF given, entries, p, name, dealt
  <2> SUFFICES ASSUME NEW l \in DOMAIN r.layouts
               PROVE  /\ snapshot.layouts[l].weight = r.layouts[l].weight
                      /\ \A i \in 1 .. VisibleCardTotal :
                            LET given == snapshot.pools[snapshot.layouts[l].pools[i]].entries
                                entries == PoolNamed(r.pools, PositionsOf(r.layouts[l])[i]).entries
                            IN  /\ Len(given) = Len(entries)
                                /\ \A e \in DOMAIN entries :
                                    /\ given[e].weight = entries[e].weight
                                    /\ snapshot.identities[given[e].identity] =
                                        [id |-> CardNamed(entries[e].card).number,
                                         rarity |-> FabRarity[CardNamed(entries[e].card).rarity]]
    BY DEF SnapshotDealsTheRecipe
  <2>6. 1 \in 1 .. VisibleCardTotal
    BY VisibleCardsAssumption
  <2>7. snapshot.layouts[l].weight = r.layouts[l].weight
    BY <2>5, <2>6
  <2> QED
    BY <2>5, <2>7, ZenonT(60)
<1> QED
  BY <1>1, StagesFollow, PTL

-----------------------------------------------------------------------------
(* What is draftable is dealt.                                             *)

\* The places of entries in pools of some names.
LEMMA EntriesFacts ==
    ASSUME NEW r, RecipeShape(r), NEW names
    PROVE  /\ IsFiniteSet(EntriesOf(r.pools, names))
           /\ \A p, e : IsPlace(r, p, e) /\ r.pools[p].name \in names => <<p, e>> \in EntriesOf(r.pools, names)
           /\ \A at \in EntriesOf(r.pools, names) :
                at = <<at[1], at[2]>> /\ IsPlace(r, at[1], at[2]) /\ r.pools[at[1]].name \in names
<1> DEFINE N == Len(r.pools)
           n(p) == Len(r.pools[p].entries)
           B(p) == [e \in 1 .. n(p) |-> <<p, e>>]
           ss == [p \in 1 .. N |-> B(p)]
           F == FlattenSeq(ss)
           Q == {q \in DOMAIN r.pools : r.pools[q].name \in names}
           D(p) == {<<p, e>> : e \in DOMAIN r.pools[p].entries}
           ats == EntriesOf(r.pools, names)
<1>1. /\ DOMAIN r.pools = 1 .. N /\ N \in Nat
      /\ \A p \in 1 .. N : DOMAIN r.pools[p].entries = 1 .. n(p) /\ n(p) \in Nat
  BY PoolFacts
<1>2. ats = UNION {D(p) : p \in Q}
  BY DEF EntriesOf
<1>3. \A p, e : IsPlace(r, p, e) <=> p \in 1 .. N /\ e \in 1 .. n(p)
  BY DEF IsPlace
<1> HIDE DEF N, n, ats
<1>4. ASSUME NEW p, NEW e, IsPlace(r, p, e), r.pools[p].name \in names PROVE <<p, e>> \in ats
  <2>1. p \in Q /\ <<p, e>> \in D(p)
    BY <1>1, <1>3, <1>4
  <2> QED
    BY <1>2, <2>1
<1>5. ASSUME NEW at \in ats
      PROVE  at = <<at[1], at[2]>> /\ IsPlace(r, at[1], at[2]) /\ r.pools[at[1]].name \in names
  <2>1. PICK p \in Q : at \in D(p)
    BY <1>2
  <2>2. PICK e \in DOMAIN r.pools[p].entries : at = <<p, e>>
    BY <2>1
  <2> QED
    BY <1>1, <1>3, <2>1, <2>2
<1>6. ASSUME NEW p \in 1 .. N
      PROVE  Listed(B(p)) /\ Len(B(p)) = n(p) /\ \A e \in 1 .. n(p) : B(p)[e] = <<p, e>>
  <2> DEFINE s == B(p)
  <2>1. n(p) \in Nat /\ s = [e \in 1 .. n(p) |-> s[e]] /\ \A e \in 1 .. n(p) : s[e] = <<p, e>>
    BY <1>1
  <2> HIDE DEF s
  <2> QED
    BY <2>1, IndexedListed DEF s
<1>7. Listed(ss) /\ Len(ss) = N /\ \A p \in 1 .. N : ss[p] = B(p)
  <2>1. ss = [p \in 1 .. N |-> ss[p]] /\ \A p \in 1 .. N : ss[p] = B(p)
    OBVIOUS
  <2> HIDE DEF ss, B
  <2> QED
    BY <1>1, <2>1, IndexedListed
<1> HIDE DEF ss, B
<1>8. Lists(ss)
  BY <1>6, <1>7 DEF Lists
<1>13. FlatOf(F, ss)
  BY <1>7, <1>8, FlattenElements
<1>9. /\ Listed(F)
      /\ \A p \in 1 .. Len(ss) : \A e \in 1 .. Len(ss[p]) : \E x \in 1 .. Len(F) : F[x] = ss[p][e]
  BY <1>13 DEF FlatOf
<1> HIDE DEF F
<1>10. IsFiniteSet(ToSet(F)) /\ ToSet(F) = {F[x] : x \in 1 .. Len(F)}
  BY <1>9, FiniteList, IndexedSet
<1>11. ats \subseteq ToSet(F)
  <2> SUFFICES ASSUME NEW at \in ats PROVE \E x \in 1 .. Len(F) : F[x] = at
    BY <1>10
  <2> DEFINE p == at[1]
             e == at[2]
  <2>1. at = <<p, e>> /\ p \in 1 .. N /\ e \in 1 .. n(p)
    BY <1>3, <1>5
  <2> HIDE DEF p, e
  <2>2. p \in 1 .. Len(ss) /\ e \in 1 .. Len(ss[p]) /\ ss[p][e] = at
    BY <1>6, <1>7, <2>1
  <2>3. \E x \in 1 .. Len(F) : F[x] = ss[p][e]
    BY <1>9, <2>2
  <2> QED
    BY <2>2, <2>3
<1>12. IsFiniteSet(ats)
  BY <1>10, <1>11, FS_Subset
<1> QED
  BY <1>4, <1>5, <1>12 DEF ats

\* An entry at a place stands for one mapped card.
StandsFor(r, ids, elig, pls, at, m, f) ==
    /\ m \in ids.mapped /\ f \in elig /\ f.eligibility = "draftable" /\ f.card = m.record.card
    /\ pls[at[1]].entries[at[2]].key = m.record.card
    /\ NumberAt(r, at) = m.card.number /\ CardAt(r.pools, at) = m.card.name

LEMMA StandsForOne ==
    ASSUME NEW r, NEW ids, NEW elig, RecipeShape(r), Mapped(r.cards, ids), PoolsResolve(r, ids, elig),
           NEW pls, pls = ResolvedPools(r, ids, elig), NEW names, NEW at \in EntriesOf(r.pools, names)
    PROVE  \E m, f : StandsFor(r, ids, elig, pls, at, m, f)
<1> DEFINE p == at[1]
           e == at[2]
<1>1. IsPlace(r, p, e)
  BY EntriesFacts
<1>2. pls[p].entries[e] = ResolvedEntry(r, ids, elig, EntryOf(r, p, e))
      /\ \E m, f : Resolved(r, ids, elig, EntryOf(r, p, e), m, f)
  BY <1>1, ResolvedPoolFacts
<1>3. PICK m, f : Resolved(r, ids, elig, EntryOf(r, p, e), m, f)
  BY <1>2
<1>4. CardAt(r.pools, at) = EntryOf(r, p, e).card
      /\ NumberAt(r, at) = CardOf(r, EntryOf(r, p, e).card).number
  BY DEF CardAt, NumberAt, EntryOf, CardOf
<1>5. pls[p].entries[e].key = m.record.card
  BY <1>2, <1>3 DEF Resolved
<1>6. StandsFor(r, ids, elig, pls, at, m, f)
  BY <1>3, <1>4, <1>5 DEF Resolved, StandsFor
<1> QED
  BY <1>6

LEMMA SameEntries ==
    ASSUME NEW r, NEW ids, NEW elig, RecipeShape(r), Mapped(r.cards, ids), PoolsResolve(r, ids, elig),
           NEW pls, pls = ResolvedPools(r, ids, elig), NEW names
    PROVE  EntriesOf(pls, names) = EntriesOf(r.pools, names)
<1>1. /\ DOMAIN pls = DOMAIN r.pools
      /\ \A p \in DOMAIN pls : pls[p].name = r.pools[p].name /\ DOMAIN pls[p].entries = DOMAIN r.pools[p].entries
  BY ResolvedPoolFacts, PoolFacts
<1> DEFINE Q == {q \in DOMAIN pls : pls[q].name \in names}
<1>2. Q = {q \in DOMAIN r.pools : r.pools[q].name \in names}
  BY <1>1
<1>3. ASSUME NEW x
      PROVE  x \in EntriesOf(pls, names) <=>
                \E p \in DOMAIN pls : pls[p].name \in names /\ \E e \in DOMAIN pls[p].entries : x = <<p, e>>
  BY DEF EntriesOf
<1>4. ASSUME NEW x
      PROVE  x \in EntriesOf(r.pools, names) <=>
                \E p \in DOMAIN r.pools : r.pools[p].name \in names /\ \E e \in DOMAIN r.pools[p].entries : x = <<p, e>>
  BY DEF EntriesOf
<1>5. ASSUME NEW x PROVE x \in EntriesOf(pls, names) <=> x \in EntriesOf(r.pools, names)
  BY <1>1, <1>3, <1>4
<1> QED
  BY <1>5

\* What can be opened in a pack is what was classified as draftable, each card
\* once among the normal pools, and each entry is the official card of its
\* name (recipe-pool-identity-resolution.ts:82-105).
THEOREM DraftablesDealt == ReadingSpec => []DraftablesAreDealt
<1>1. ReadingInv => DraftablesAreDealt
  <2> SUFFICES ASSUME ReadingInv, phase = "resolve layouts" PROVE DraftablesAreDealt
    BY DEF DraftablesAreDealt
  <2> DEFINE r == recipe
             KeyAt(at) == pools[at[1]].entries[at[2]].key
             normal == EntriesOf(r.pools, NormalPools)
             cards == {f.card : f \in {g \in eligibility : g.eligibility = "draftable"}}
  <2>1. /\ RecipeShape(r) /\ PoolsResolve(r, identities, eligibility)
        /\ pools = ResolvedPools(r, identities, eligibility)
    BY ShapesAre DEF ReadingInv, Verified
  <2>2. Mapped(r.cards, identities)
    BY ReconcileFacts DEF ReadingInv
  <2>3. Classified(identities, eligibility)
    BY ClassifyFacts DEF ReadingInv
  <2>4. ASSUME NEW names PROVE EntriesOf(pools, names) = EntriesOf(r.pools, names)
    <3>1. RecipeShape(r) /\ Mapped(r.cards, identities) /\ PoolsResolve(r, identities, eligibility)
      BY <2>1, <2>2
    <3>2. PICK pls : pls = pools /\ pls = ResolvedPools(r, identities, eligibility)
      BY <2>1
    <3> HIDE DEF r
    <3>3. EntriesOf(pls, names) = EntriesOf(r.pools, names)
      BY <3>1, <3>2, SameEntries, ZenonT(60)
    <3> QED
      BY <3>2, <3>3
  <2>5. ASSUME NEW names, NEW at \in EntriesOf(r.pools, names)
        PROVE  \E m, f : StandsFor(r, identities, eligibility, pools, at, m, f)
    BY <2>1, <2>2, StandsForOne
  <2>6. /\ \A m, n \in identities.mapped : m # n =>
            m.card.number # n.card.number /\ m.record.card # n.record.card
        /\ \A m \in identities.mapped : Cardinality({at \in normal : NumberAt(r, at) = m.card.number}) = 1
        /\ {NumberAt(r, at) : at \in normal} = {m.card.number : m \in identities.mapped}
    BY <2>1 DEF PoolsResolve
  <2>7. IsFiniteSet(normal)
    BY <2>1, EntriesFacts
  <2> HIDE DEF normal
  <2>8. ASSUME NEW at \in normal PROVE KeyAt(at) \in cards
    <3>1. PICK m, f : StandsFor(r, identities, eligibility, pools, at, m, f)
      BY <2>5 DEF normal
    <3> QED
      BY <3>1 DEF StandsFor
  <2>9. ASSUME NEW f \in eligibility, f.eligibility = "draftable"
        PROVE  \E at \in normal : KeyAt(at) = f.card
    <3>1. PICK m \in identities.mapped : f.card = m.record.card
      BY <2>3, <2>9 DEF Classified
    <3>2. PICK at \in normal : NumberAt(r, at) = m.card.number
      BY <2>6
    <3>3. PICK n, g : StandsFor(r, identities, eligibility, pools, at, n, g)
      BY <2>5 DEF normal
    <3>4. n \in identities.mapped /\ n.card.number = m.card.number /\ KeyAt(at) = n.record.card
      BY <3>2, <3>3 DEF StandsFor
    <3>5. n = m
      BY <2>6, <3>4
    <3> QED
      BY <3>1, <3>4, <3>5
  <2>10. {KeyAt(at) : at \in normal} = cards
    BY <2>8, <2>9
  <2>11. ASSUME NEW a \in normal, NEW b \in normal, KeyAt(a) = KeyAt(b) PROVE a = b
    <3>1. PICK m, f : StandsFor(r, identities, eligibility, pools, a, m, f)
      BY <2>5 DEF normal
    <3>2. PICK n, g : StandsFor(r, identities, eligibility, pools, b, n, g)
      BY <2>5 DEF normal
    <3>3. /\ m \in identities.mapped /\ n \in identities.mapped /\ m.record.card = n.record.card
          /\ NumberAt(r, a) = m.card.number /\ NumberAt(r, b) = n.card.number
      BY <2>11, <3>1, <3>2 DEF StandsFor
    <3>4. m = n
      BY <2>6, <3>3
    <3> DEFINE S == {at \in normal : NumberAt(r, at) = m.card.number}
    <3>5. a \in S /\ b \in S /\ Cardinality(S) = 1 /\ IsFiniteSet(S)
      <4>1. S \in SUBSET normal
        OBVIOUS
      <4>2. IsFiniteSet(S)
        BY <2>7, <4>1, FS_Subset
      <4> QED
        BY <2>6, <3>3, <3>4, <4>2
    <3> HIDE DEF S
    <3>6. PICK x : S = {x}
      BY <3>5, FS_Singleton
    <3> QED
      BY <3>5, <3>6
  <2>12. ASSUME NEW at \in EntriesOf(r.pools, PinnedPools)
         PROVE  \E m \in identities.mapped :
                    m.record.name = CardAt(recipe.pools, at) /\ m.record.card = KeyAt(at)
    <3>1. PICK m, f : StandsFor(r, identities, eligibility, pools, at, m, f)
      BY <2>5
    <3> QED
      BY <2>2, <3>1 DEF StandsFor, Mapped
  <2>13. normal = EntriesOf(pools, NormalPools)
    BY <2>4 DEF normal
  <2>14. EntriesOf(pools, PinnedPools) = EntriesOf(r.pools, PinnedPools)
    BY <2>4
  <2> QED
    BY <2>10, <2>11, <2>12, <2>13, <2>14 DEF DraftablesAreDealt
<1> QED
  BY <1>1, StagesFollow, PTL

-----------------------------------------------------------------------------
(* What reading accepts is resolved: the pools.                            *)

LEMMA AtMostOne ==
    ASSUME NEW S, IsFiniteSet(S), Cardinality(S) <= 1, NEW x \in S, NEW y \in S
    PROVE  x = y
<1>1. Cardinality(S) \in Nat
  BY FS_CardinalityType
<1>2. CASE Cardinality(S) = 0
  BY <1>2, FS_EmptySet
<1>3. CASE Cardinality(S) = 1
  BY <1>3, FS_Singleton
<1> QED
  BY <1>1, <1>2, <1>3

\* Every card is mapped, to one record.
MappedOnce(cards, ids) ==
    /\ \A m, n \in ids.mapped : m.card.number = n.card.number => m = n
    /\ \A card \in ToSet(cards) : \E m \in ids.mapped : m.card = card

LEMMA ReconcileOnce ==
    ASSUME NEW cards, CardsRead(cards), NEW official, Listed(official), Reconcile(cards, official) # Refused
    PROVE  MappedOnce(cards, Reconcile(cards, official))
<1> DEFINE pairs == MappedPairs(cards, official)
           M(pair) == [card |-> cards[pair[1]], record |-> official[pair[2]]]
           mapped == {M(pair) : pair \in pairs}
           n == Len(cards)
           k == Len(official)
<1>1. /\ Reconcile(cards, official).mapped = mapped
      /\ \A card \in ToSet(cards) : Cardinality(MatchesOf(official, card)) <= 1
      /\ n = OfficialTotals.cards /\ Cardinality(pairs) = OfficialTotals.cards
  BY DEF Reconcile
<1>2. DOMAIN cards = 1 .. n /\ n \in Nat /\ DOMAIN official = 1 .. k /\ k \in Nat
      /\ ToSet(cards) = {cards[i] : i \in 1 .. n}
      /\ \A i, j \in 1 .. n : cards[i].number = cards[j].number => i = j
  BY ListFacts, IndexedSet DEF CardsRead
<1> HIDE DEF n, k
<1>3. /\ pairs \subseteq (1 .. n) \X (1 .. k)
      /\ \A pair \in pairs : pair[1] \in 1 .. n /\ pair[2] \in MatchesOf(official, cards[pair[1]])
  BY <1>2 DEF MappedPairs
<1>4. IsFiniteSet(1 .. n) /\ Cardinality(1 .. n) = n /\ IsFiniteSet(1 .. k)
  BY <1>2, UpTo
<1>5. ASSUME NEW p \in pairs, NEW q \in pairs, p[1] = q[1] PROVE p = q
  <2> DEFINE S == MatchesOf(official, cards[p[1]])
  <2>1. p[2] \in S /\ q[2] \in S /\ Cardinality(S) <= 1
    BY <1>1, <1>2, <1>3, <1>5
  <2>2. S \in SUBSET (1 .. k)
    BY <1>2 DEF MatchesOf
  <2>3. IsFiniteSet(S)
    BY <1>4, <2>2, FS_Subset
  <2> HIDE DEF S
  <2>4. p[2] = q[2]
    BY <2>1, <2>3, AtMostOne
  <2>5. p = <<p[1], p[2]>> /\ q = <<q[1], q[2]>>
    BY <1>3
  <2> QED
    BY <1>5, <2>4, <2>5
<1> HIDE DEF pairs
<1> DEFINE f == [pair \in pairs |-> pair[1]]
<1>6. f \in Injection(pairs, 1 .. n)
  <2>1. f \in [pairs -> 1 .. n] /\ \A p, q \in pairs : f[p] = f[q] => p = q
    BY <1>3, <1>5
  <2> HIDE DEF f
  <2> QED
    BY <2>1 DEF Injection, IsInjective
<1>7. f \in Surjection(pairs, 1 .. n)
  <2> HIDE DEF f
  <2>1. Cardinality(pairs) = Cardinality(1 .. n)
    BY <1>1, <1>4
  <2> QED
    BY <1>4, <1>6, <2>1, FS_Injection
<1>8. ASSUME NEW i \in 1 .. n PROVE \E pair \in pairs : pair[1] = i
  BY <1>7 DEF Surjection
<1>9. \A pair \in pairs : M(pair).card = cards[pair[1]]
  OBVIOUS
<1> HIDE DEF M
<1>10. ASSUME NEW a \in mapped, NEW b \in mapped, a.card.number = b.card.number PROVE a = b
  <2>1. PICK p \in pairs, q \in pairs : a = M(p) /\ b = M(q)
    OBVIOUS
  <2>2. p[1] = q[1]
    BY <1>2, <1>3, <1>9, <1>10, <2>1
  <2> QED
    BY <1>5, <2>1, <2>2
<1>11. ASSUME NEW card \in ToSet(cards) PROVE \E m \in mapped : m.card = card
  <2>1. PICK i \in 1 .. n : card = cards[i]
    BY <1>2
  <2>2. PICK pair \in pairs : pair[1] = i
    BY <1>8
  <2>3. M(pair) \in mapped /\ M(pair).card = card
    BY <1>9, <2>1, <2>2
  <2> QED
    BY <2>3
<1> QED
  BY <1>1, <1>10, <1>11 DEF MappedOnce

\* The references of an accepted recipe, whose pools are the pinned ones.
LEMMA ReferencesFacts ==
    ASSUME NEW r, RecipeShape(r), AcceptsPools(r.pools), AcceptsReferences(r)
    PROVE  /\ \A pool \in ToSet(r.pools) : pool.name \in PinnedPools
           /\ \A pool \in ToSet(r.pools) : \A e \in ToSet(pool.entries) :
                \E card \in ToSet(r.cards) : card.name = e.card
           /\ UNION {{s.pool : s \in ToSet(l.slots)} : l \in ToSet(r.layouts)} = {p.name : p \in ToSet(r.pools)}
           /\ PinnedPools = {p.name : p \in ToSet(r.pools)}
           /\ \A card \in ToSet(r.cards) : OwnedOnce(r.pools, card.name)
<1> DEFINE names == {p.name : p \in ToSet(r.pools)}
           used == UNION {{s.pool : s \in ToSet(l.slots)} : l \in ToSet(r.layouts)}
           pinned == Len(r.pools) = Cardinality(PinnedPools) /\ names \subseteq PinnedPools
<1>1. \A pool \in ToSet(r.pools) : pool.name \in PinnedPools
  BY PoolAggregatesAssumption DEF AcceptsPools
<1>2. Len(r.pools) = Cardinality(PinnedPools)
  BY PoolAggregatesAssumption DEF AcceptsPools
<1>3. names \subseteq PinnedPools
  BY <1>1
<1>4. used \subseteq names /\ PinnedPools \subseteq used
      /\ \A card \in ToSet(r.cards) : OwnedOnce(r.pools, card.name)
  BY <1>2, <1>3 DEF AcceptsReferences
<1>5. \A pool \in ToSet(r.pools) : \A e \in ToSet(pool.entries) :
                \E card \in ToSet(r.cards) : card.name = e.card
  BY DEF AcceptsReferences
<1> QED
  BY <1>1, <1>3, <1>4, <1>5

\* Every entry of the pools stands for a card, every card for one normal entry.
CountedByNumber(r) ==
    /\ \A names : \A at \in EntriesOf(r.pools, names) :
        \E card \in ToSet(r.cards) : CardAt(r.pools, at) = card.name /\ NumberAt(r, at) = card.number
    /\ \A card \in ToSet(r.cards) :
        Cardinality({at \in EntriesOf(r.pools, NormalPools) : NumberAt(r, at) = card.number}) = 1

LEMMA NumbersCount ==
    ASSUME NEW r, RecipeShape(r), AcceptsPools(r.pools), AcceptsReferences(r)
    PROVE  CountedByNumber(r)
<1>1. ASSUME NEW names, NEW at \in EntriesOf(r.pools, names)
      PROVE  \E card \in ToSet(r.cards) : CardAt(r.pools, at) = card.name /\ NumberAt(r, at) = card.number
  <2> DEFINE p == at[1]
             e == at[2]
  <2>1. IsPlace(r, p, e)
    BY EntriesFacts
  <2>2. r.pools[p] \in ToSet(r.pools) /\ EntryOf(r, p, e) \in ToSet(r.pools[p].entries)
    BY <2>1, PoolFacts DEF IsPlace
  <2>3. PICK card \in ToSet(r.cards) : card.name = EntryOf(r, p, e).card
    BY <2>2, ReferencesFacts
  <2>4. CardAt(r.pools, at) = card.name
    BY <2>3 DEF CardAt, EntryOf
  <2> DEFINE c == CHOOSE c \in ToSet(r.cards) : c.name = CardAt(r.pools, at)
  <2>5. c \in ToSet(r.cards) /\ c.name = card.name
    BY <2>4
  <2>6. NumberAt(r, at) = c.number
    BY DEF NumberAt
  <2> HIDE DEF c
  <2>7. c = card
    BY <2>5, OneCard
  <2> QED
    BY <2>4, <2>6, <2>7
<1>2. ASSUME NEW card \in ToSet(r.cards)
      PROVE  Cardinality({at \in EntriesOf(r.pools, NormalPools) : NumberAt(r, at) = card.number}) = 1
  <2> DEFINE E == EntriesOf(r.pools, NormalPools)
  <2>1. ASSUME NEW at \in E PROVE NumberAt(r, at) = card.number <=> CardAt(r.pools, at) = card.name
    <3>1. PICK c \in ToSet(r.cards) : CardAt(r.pools, at) = c.name /\ NumberAt(r, at) = c.number
      BY <1>1
    <3>2. (c.name = card.name => c = card) /\ (c.number = card.number => c = card)
      BY OneCard
    <3> QED
      BY <3>1, <3>2
  <2> HIDE DEF E
  <2>2. {at \in E : NumberAt(r, at) = card.number} = {at \in E : CardAt(r.pools, at) = card.name}
    BY <2>1
  <2>3. Cardinality({at \in E : CardAt(r.pools, at) = card.name}) = 1
    BY ReferencesFacts DEF OwnedOnce, E
  <2> QED
    BY <2>2, <2>3 DEF E
<1> QED
  BY <1>1, <1>2 DEF CountedByNumber

\* So the pools of an accepted recipe resolve.
LEMMA AcceptedPoolsResolve ==
    ASSUME NEW r, RecipeShape(r), AcceptsPools(r.pools), AcceptsReferences(r),
           NEW ids, NEW elig, Mapped(r.cards, ids), MappedOnce(r.cards, ids), Classified(ids, elig)
    PROVE  PoolsResolve(r, ids, elig)
<1> DEFINE numbers == {m.card.number : m \in ids.mapped}
           normal == EntriesOf(r.pools, NormalPools)
<1>1. CountedByNumber(r)
  BY NumbersCount
<1>2. ASSUME NEW m \in ids.mapped, NEW n \in ids.mapped, m # n
      PROVE  /\ m.card.number # n.card.number
             /\ m.record.base # n.record.base /\ m.record.card # n.record.card
  <2>1. m.card.number # n.card.number
    BY <1>2 DEF MappedOnce
  <2>2. m.record.base # n.record.base
    BY <2>1 DEF Mapped
  <2>3. m.record.card # n.record.card
    <3> SUFFICES ASSUME m.record.card = n.record.card PROVE FALSE
      OBVIOUS
    <3>1. m.record.print = n.record.print
      BY DEF Classified
    <3> QED
      BY <2>2, <3>1 DEF Mapped
  <2> QED
    BY <2>1, <2>2, <2>3
<1>3. \A m \in ids.mapped : m.record.print = m.record.base
  BY DEF Mapped
<1>4. ASSUME NEW pool \in ToSet(r.pools)
      PROVE  /\ pool.name \in PinnedPools /\ pool.entries # <<>>
             /\ \A e \in ToSet(pool.entries) : e.weight > 0 /\ FactsOf(r, ids, elig, e.card) # {}
  <2>0. ToSet(r.pools) = {r.pools[p] : p \in 1 .. Len(r.pools)}
    BY PoolFacts
  <2>1. PICK p \in 1 .. Len(r.pools) : pool = r.pools[p]
    BY <2>0
  <2>2. pool.name \in PinnedPools /\ pool.entries # <<>> /\ Listed(pool.entries)
        /\ \A e \in 1 .. Len(pool.entries) : EntryOf(r, p, e).weight \in Nat \ {0}
    BY <2>1, PoolFacts, ReferencesFacts
  <2>3. ASSUME NEW e \in ToSet(pool.entries) PROVE e.weight > 0
    <3>1. PICK i \in 1 .. Len(pool.entries) : e = pool.entries[i]
      BY <2>2, IndexedSet
    <3>2. EntryOf(r, p, i).weight \in Nat \ {0} /\ EntryOf(r, p, i) = e
      BY <2>1, <2>2, <3>1 DEF EntryOf
    <3> QED
      BY <3>2
  <2>4. ASSUME NEW e \in ToSet(pool.entries) PROVE FactsOf(r, ids, elig, e.card) # {}
    <3>1. PICK card \in ToSet(r.cards) : card.name = e.card
      BY ReferencesFacts
    <3>2. PICK m \in ids.mapped : m.card = card
      BY DEF MappedOnce
    <3>3. PICK f \in elig : /\ f.print = m.record.print /\ f.base = m.record.base
                            /\ f.card = m.record.card /\ f.eligibility = "draftable"
      BY DEF Classified
    <3>4. IsFact(r, e.card, m, f)
      BY <3>1, <3>2, <3>3 DEF IsFact
    <3>5. <<m, f>> \in FactsOf(r, ids, elig, e.card)
      BY <3>4 DEF FactsOf
    <3> QED
      BY <3>5
  <2> QED
    BY <2>2, <2>3, <2>4
<1>5. \A m \in ids.mapped : m.card \in ToSet(r.cards)
  BY DEF Mapped
<1>6. ASSUME NEW number \in numbers PROVE Cardinality({at \in normal : NumberAt(r, at) = number}) = 1
  BY <1>1, <1>5 DEF CountedByNumber
<1>7. ASSUME NEW at \in normal PROVE NumberAt(r, at) \in numbers
  <2>1. PICK card \in ToSet(r.cards) : NumberAt(r, at) = card.number
    BY <1>1 DEF CountedByNumber
  <2>2. PICK m \in ids.mapped : m.card = card
    BY DEF MappedOnce
  <2> QED
    BY <2>1, <2>2
<1>8. ASSUME NEW number \in numbers PROVE \E at \in normal : NumberAt(r, at) = number
  <2> DEFINE S == {at \in normal : NumberAt(r, at) = number}
  <2>1. Cardinality(S) = 1
    BY <1>6
  <2>2. S # {}
    <3> HIDE DEF S
    <3> QED
      BY <2>1, FS_EmptySet
  <2> QED
    BY <2>2
<1>9. {NumberAt(r, at) : at \in normal} = numbers
  BY <1>7, <1>8
<1> QED
  BY <1>2, <1>3, <1>4, <1>6, <1>9 DEF PoolsResolve

-----------------------------------------------------------------------------
(* What reading accepts is resolved: the positions of a layout.            *)

\* The positions that name one of some pools.
Positions(l, S) == {x \in 1 .. Len(PositionsOf(l)) : PositionsOf(l)[x] \in S}

\* What slot i has of them.
Part(l, S, i) == IF l.slots[i].pool \in S THEN l.slots[i].count ELSE 0
Counts(f, l, S) ==
    /\ f[0] = 0 /\ \A i \in 1 .. Len(l.slots) : f[i] = f[i-1] + Part(l, S, i)
    /\ \A i \in 0 .. Len(l.slots) : f[i] \in Nat

LEMMA VisibleFacts ==
    ASSUME NEW l, LayoutShape(l), NEW S
    PROVE  \E f : Counts(f, l, S) /\ Visible(l, S) = f[Len(l.slots)]
<1> DEFINE n == Len(l.slots)
           w == [i \in 1 .. n |-> Part(l, S, i)]
<1>1. n \in Nat /\ DOMAIN l.slots = 1 .. n /\ \A i \in 1 .. n : l.slots[i].count \in Nat
  BY ListFacts DEF LayoutShape
<1> HIDE DEF n
<1>2. Visible(l, S) = Total(w)
  BY <1>1 DEF Visible, Part
<1>3. w = [i \in 1 .. n |-> w[i]] /\ \A i \in 1 .. n : w[i] = Part(l, S, i)
  OBVIOUS
<1> HIDE DEF w
<1>4. Listed(w) /\ Len(w) = n
  BY <1>1, <1>3, IndexedListed
<1>5. \A i \in 1 .. n : w[i] \in Nat
  BY <1>1, <1>3 DEF Part
<1>6. PICK f : Running(f, w) /\ Total(w) = f[Len(w)]
  BY <1>4, <1>5, TotalFacts
<1>7. Counts(f, l, S)
  BY <1>3, <1>4, <1>6 DEF Running, Counts, n
<1> QED
  BY <1>2, <1>4, <1>6, <1>7 DEF n

\* How the positions are made up of the slots.
Laid(l, e) ==
    /\ e[0] = 0 /\ \A i \in 0 .. Len(l.slots) : e[i] \in Nat
    /\ \A i \in 1 .. Len(l.slots) : e[i] = e[i-1] + l.slots[i].count
    /\ Len(PositionsOf(l)) = e[Len(l.slots)]
    /\ \A i \in 1 .. Len(l.slots) : \A k \in 1 .. l.slots[i].count :
            PositionsOf(l)[e[i-1] + k] = l.slots[i].pool

LEMMA PositionsLaid ==
    ASSUME NEW l, LayoutShape(l)
    PROVE  \E e : Laid(l, e)
<1> DEFINE B(i) == [k \in 1 .. l.slots[i].count |-> l.slots[i].pool]
           ss == [i \in DOMAIN l.slots |-> B(i)]
           F == FlattenSeq(ss)
           N == Len(l.slots)
<1>1. PositionsOf(l) = F
  BY DEF PositionsOf
<1>2. DOMAIN l.slots = 1 .. N /\ N \in Nat /\ \A i \in 1 .. N : l.slots[i].count \in Nat
  BY ListFacts DEF LayoutShape
<1> HIDE DEF N
<1>3. Listed(ss) /\ Len(ss) = N /\ \A i \in 1 .. N : ss[i] = B(i)
  <2>1. ss = [i \in 1 .. N |-> ss[i]] /\ \A i \in 1 .. N : ss[i] = B(i)
    BY <1>2
  <2> HIDE DEF ss, B
  <2> QED
    BY <1>2, <2>1, IndexedListed
<1>4. ASSUME NEW i \in 1 .. N
      PROVE  Listed(B(i)) /\ Len(B(i)) = l.slots[i].count
             /\ \A k \in 1 .. l.slots[i].count : B(i)[k] = l.slots[i].pool
  <2> DEFINE s == B(i)
             n == l.slots[i].count
             o == l.slots[i].pool
  <2>1. n \in Nat /\ s = [k \in 1 .. n |-> s[k]] /\ \A k \in 1 .. n : s[k] = o
    BY <1>2
  <2> HIDE DEF s, n, o
  <2>2. Listed(s) /\ Len(s) = n
    BY <2>1, IndexedListed
  <2> QED
    BY <2>1, <2>2 DEF s, n, o
<1> HIDE DEF ss, B
<1>5. \A i \in 1 .. Len(ss) : Listed(ss[i])
  BY <1>3, <1>4
<1>6. PICK e : Joined(F, ss, e)
  BY <1>3, <1>5, FlattenFacts
<1> HIDE DEF F
<1>7. /\ e[0] = 0 /\ (\A i \in 0 .. N : e[i] \in Nat) /\ Len(F) = e[N]
      /\ \A i \in 1 .. N : e[i] = e[i-1] + Len(ss[i])
      /\ \A i \in 1 .. N : \A k \in 1 .. Len(ss[i]) : F[e[i-1] + k] = ss[i][k]
  BY <1>3, <1>6 DEF Joined, JoinedTo
<1>8. ASSUME NEW i \in 1 .. N
      PROVE  /\ e[i] = e[i-1] + l.slots[i].count
             /\ \A k \in 1 .. l.slots[i].count : F[e[i-1] + k] = l.slots[i].pool
  <2>1. Len(ss[i]) = l.slots[i].count /\ \A k \in 1 .. l.slots[i].count : ss[i][k] = l.slots[i].pool
    BY <1>3, <1>4
  <2>2. \A k \in 1 .. Len(ss[i]) : F[e[i-1] + k] = ss[i][k]
    BY <1>7
  <2> QED
    BY <1>7, <2>1, <2>2
<1>9. Laid(l, e)
  BY <1>1, <1>7, <1>8 DEF Laid, N
<1> QED
  BY <1>9

\* There are as many positions of some pools as their slots have cards.
LEMMA PositionsCount ==
    ASSUME NEW l, LayoutShape(l), NEW S
    PROVE  /\ IsFiniteSet(Positions(l, S)) /\ Cardinality(Positions(l, S)) = Visible(l, S)
<1> DEFINE N == Len(l.slots)
           F == PositionsOf(l)
<1>1. N \in Nat /\ \A i \in 1 .. N : l.slots[i].count \in Nat
  BY ListFacts DEF LayoutShape
<1>2. PICK e : Laid(l, e)
  BY PositionsLaid
<1>3. PICK f : Counts(f, l, S) /\ Visible(l, S) = f[N]
  BY VisibleFacts
<1> DEFINE C(i) == {x \in 1 .. e[i] : F[x] \in S}
           good == {i \in Nat : i <= N => IsFiniteSet(C(i)) /\ Cardinality(C(i)) = f[i]}
<1> HIDE DEF N, F
<1>4. /\ e[0] = 0 /\ (\A i \in 0 .. N : e[i] \in Nat) /\ Len(F) = e[N]
      /\ \A i \in 1 .. N : e[i] = e[i-1] + l.slots[i].count
      /\ \A i \in 1 .. N : \A k \in 1 .. l.slots[i].count : F[e[i-1] + k] = l.slots[i].pool
  BY <1>2 DEF Laid, N, F
<1>5. f[0] = 0 /\ (\A i \in 1 .. N : f[i] = f[i-1] + Part(l, S, i)) /\ \A i \in 0 .. N : f[i] \in Nat
  BY <1>3 DEF Counts, N
<1>6. 0 \in good
  <2>1. C(0) = {}
    BY <1>4
  <2> HIDE DEF C
  <2> QED
    BY <1>5, <2>1, FS_EmptySet
<1>7. ASSUME NEW i \in Nat, i \in good PROVE i + 1 \in good
  <2> SUFFICES ASSUME i + 1 <= N PROVE IsFiniteSet(C(i + 1)) /\ Cardinality(C(i + 1)) = f[i + 1]
    OBVIOUS
  <2> DEFINE a == e[i]
             c == l.slots[i + 1].count
             o == l.slots[i + 1].pool
             D == IF o \in S THEN a + 1 .. a + c ELSE {}
  <2>1. i + 1 \in 1 .. N /\ i \in 0 .. N /\ i + 1 - 1 = i
    BY <1>1
  <2>2. a \in Nat /\ c \in Nat /\ e[i + 1] = a + c /\ \A k \in 1 .. c : F[a + k] = o
    BY <1>1, <1>4, <2>1
  <2>3. IsFiniteSet(C(i)) /\ Cardinality(C(i)) = f[i] /\ f[i] \in Nat /\ f[i + 1] = f[i] + Part(l, S, i + 1)
    BY <1>5, <1>7, <2>1
  <2>4. Part(l, S, i + 1) = IF o \in S THEN c ELSE 0
    BY DEF Part
  <2> HIDE DEF o, c, a
  <2>5. e[i] = a
    BY DEF a
  <2>6. C(i + 1) = C(i) \cup D /\ C(i) \cap D = {}
    <3>1. ASSUME NEW x \in a + 1 .. a + c PROVE F[x] = o
      <4>1. x - a \in 1 .. c /\ a + (x - a) = x
        BY <2>2
      <4> QED
        BY <2>2, <4>1
    <3>2. 1 .. a + c = (1 .. a) \cup (a + 1 .. a + c) /\ (1 .. a) \cap (a + 1 .. a + c) = {}
      BY <2>2
    <3>3. C(i) = {x \in 1 .. a : F[x] \in S} /\ C(i + 1) = {x \in 1 .. a + c : F[x] \in S}
      BY <2>2, <2>5
    <3>4. {x \in a + 1 .. a + c : F[x] \in S} = D
      BY <3>1
    <3>5. C(i) \subseteq 1 .. a /\ D \subseteq a + 1 .. a + c
      BY <3>3
    <3> HIDE DEF C, D
    <3>6. C(i + 1) = C(i) \cup D
      BY <3>2, <3>3, <3>4
    <3> QED
      BY <3>2, <3>5, <3>6
  <2>7. IsFiniteSet(D) /\ Cardinality(D) = IF o \in S THEN c ELSE 0
    <3>1. CASE o \in S
      <4>1. PICK u \in Int, v \in Int : u = a + 1 /\ v = a + c
        BY <2>2
      <4>2. IsFiniteSet(u .. v) /\ Cardinality(u .. v) = IF u > v THEN 0 ELSE v - u + 1
        BY FS_Interval
      <4>3. (IF u > v THEN 0 ELSE v - u + 1) = c /\ D = u .. v
        BY <2>2, <3>1, <4>1
      <4> QED
        BY <3>1, <4>2, <4>3
    <3>2. CASE o \notin S
      BY <3>2, FS_EmptySet
    <3> QED
      BY <3>1, <3>2
  <2> HIDE DEF C, D
  <2>8. IsFiniteSet(C(i) \cup D) /\ Cardinality(C(i) \cup D) = Cardinality(C(i)) + Cardinality(D) - Cardinality(C(i) \cap D)
    BY <2>3, <2>7, FS_Union
  <2>9. Cardinality(C(i) \cap D) = 0
    BY <2>6, FS_EmptySet
  <2> QED
    BY <2>2, <2>3, <2>4, <2>6, <2>7, <2>8, <2>9
<1> HIDE DEF good
<1>8. \A i \in Nat : i \in good
  BY <1>6, <1>7, Ascent
<1>9. Positions(l, S) = C(N)
  BY <1>4 DEF Positions, F
<1>10. IsFiniteSet(C(N)) /\ Cardinality(C(N)) = f[N]
  <2>1. N \in good /\ N <= N
    BY <1>1, <1>8
  <2> QED
    BY <2>1 DEF good
<1> QED
  BY <1>3, <1>9, <1>10

\* A layout that is whole has as many positions as a pack has cards.
LEMMA WholePositions ==
    ASSUME NEW l, LayoutShape(l), Whole(l)
    PROVE  Len(PositionsOf(l)) = VisibleCardTotal
<1> DEFINE N == Len(l.slots)
           S == {l.slots[i].pool : i \in 1 .. N}
           F == PositionsOf(l)
<1>1. DOMAIN l.slots = 1 .. N
  BY ListFacts DEF LayoutShape
<1>2. Visible(l, S) = VisibleTotal(l.slots)
  BY <1>1 DEF Visible, VisibleTotal
<1>3. Len(F) \in Nat /\ \A x \in 1 .. Len(F) : \E i \in 1 .. N : F[x] = l.slots[i].pool
  BY PositionsFacts
<1>4. Positions(l, S) = 1 .. Len(F)
  BY <1>3 DEF Positions
<1> HIDE DEF S
<1>5. Cardinality(1 .. Len(F)) = VisibleCardTotal
  BY <1>2, <1>4, PositionsCount DEF Whole
<1> QED
  BY <1>3, <1>5, UpTo

\* The one rainbow slot has the one rainbow foil.
LEMMA OneRainbow ==
    ASSUME NEW l, LayoutShape(l), Len(RainbowSlots(l)) = 1, RainbowSlots(l)[1].count = 1
    PROVE  /\ Visible(l, RainbowPools) = 1
           /\ RainbowSlots(l)[1].pool \in RainbowPools
<1> DEFINE N == Len(l.slots)
           S == {i \in DOMAIN l.slots : l.slots[i].pool \in RainbowPools}
<1>1. DOMAIN l.slots = 1 .. N /\ N \in Nat /\ Listed(l.slots)
  BY ListFacts DEF LayoutShape
<1>2. RainbowSlots(l) = Kept(l.slots, S)
  BY DEF RainbowSlots, SlotsWith
<1>3. S \subseteq 1 .. N
  BY <1>1
<1> DEFINE i == InOrder(S)[1]
<1> HIDE DEF N
<1>4. /\ IsFiniteSet(S) /\ Cardinality(S) = 1
      /\ i \in S /\ RainbowSlots(l)[1] = l.slots[i]
  <2> HIDE DEF S
  <2>1. /\ IsFiniteSet(S) /\ Cardinality(S) \in Nat /\ Len(Kept(l.slots, S)) = Cardinality(S)
        /\ \A n \in 1 .. Cardinality(S) : InOrder(S)[n] \in S /\ Kept(l.slots, S)[n] = l.slots[InOrder(S)[n]]
    BY <1>1, <1>3, KeptFacts DEF N
  <2>2. Cardinality(S) = 1 /\ 1 \in 1 .. Cardinality(S)
    BY <1>2, <2>1
  <2> QED
    BY <1>2, <2>1, <2>2
<1> HIDE DEF i
<1>5. \A k \in S : k = i
  <2> HIDE DEF S
  <2> QED
    BY <1>4, FS_Singleton
<1>6. i \in 1 .. N /\ l.slots[i].pool \in RainbowPools /\ l.slots[i].count = 1
  BY <1>1, <1>4
<1>7. \A k \in 1 .. N : Part(l, RainbowPools, k) = IF k = i THEN 1 ELSE 0
  BY <1>1, <1>5, <1>6 DEF Part
<1>8. PICK f : Counts(f, l, RainbowPools) /\ Visible(l, RainbowPools) = f[N]
  BY VisibleFacts DEF N
<1>9. f[0] = 0 /\ \A k \in 1 .. N : f[k] = f[k-1] + (IF k = i THEN 1 ELSE 0)
  BY <1>7, <1>8 DEF Counts, N
<1> DEFINE good == {k \in Nat : k <= N => f[k] = IF k < i THEN 0 ELSE 1}
<1>10. 0 \in good
  BY <1>6, <1>9
<1>11. ASSUME NEW k \in Nat, k \in good PROVE k + 1 \in good
  <2> SUFFICES ASSUME k + 1 <= N PROVE f[k + 1] = IF k + 1 < i THEN 0 ELSE 1
    OBVIOUS
  <2>1. k + 1 \in 1 .. N /\ k + 1 - 1 = k /\ f[k] = IF k < i THEN 0 ELSE 1
    BY <1>1, <1>11
  <2>2. f[k + 1] = f[k] + (IF k + 1 = i THEN 1 ELSE 0)
    BY <1>9, <2>1
  <2> QED
    BY <1>6, <2>1, <2>2
<1> HIDE DEF good
<1>12. \A k \in Nat : k \in good
  BY <1>10, <1>11, Ascent
<1> QED
  BY <1>1, <1>4, <1>6, <1>8, <1>12 DEF good

\* Whom a resolved pool's positions belong to.
PoolRolesAre(pls) ==
    \A name \in PinnedPools :
        /\ Holds(pls, name, "normal", {"common"}) <=> name \in CommonPools
        /\ Holds(pls, name, "normal", {"rare"}) <=> name \in {"Rare"}
        /\ Holds(pls, name, "normal", {"majestic"}) <=> name \in {"Majestic"}
        /\ Holds(pls, name, "rainbow-foil", FabRarities) <=> name \in RainbowPools

LEMMA PoolRoles ==
    ASSUME NEW r, NEW ids, NEW elig, RecipeShape(r), Mapped(r.cards, ids), PoolsResolve(r, ids, elig),
           PinnedPools = {p.name : p \in ToSet(r.pools)}, NEW pls, pls = ResolvedPools(r, ids, elig)
    PROVE  PoolRolesAre(pls)
<1> DEFINE N == Len(r.pools)
<1>1. /\ DOMAIN pls = 1 .. N
      /\ \A p \in 1 .. N : pls[p].name = r.pools[p].name
      /\ \A p \in 1 .. N : pls[p] = ResolvedPool(r, ids, elig, r.pools[p])
  BY ResolvedPoolFacts
<1>2. /\ ToSet(r.pools) = {r.pools[p] : p \in 1 .. N}
      /\ \A p, q \in 1 .. N : r.pools[p].name = r.pools[q].name => p = q
  BY PoolFacts
<1> HIDE DEF N
<1>3. ToSet(pls) = {pls[p] : p \in 1 .. N}
  BY <1>1 DEF ToSet
<1>4. ASSUME NEW name \in PinnedPools
      PROVE  /\ PoolNamed(pls, name).rarity = PoolRarity[name]
             /\ PoolNamed(pls, name).category = IF name \in RainbowPools THEN "rainbow-foil" ELSE "normal"
  <2>1. PICK pool \in ToSet(r.pools) : pool.name = name
    OBVIOUS
  <2>2. PICK p \in 1 .. N : pool = r.pools[p]
    BY <1>2, <2>1
  <2> DEFINE c == PoolNamed(pls, name)
  <2>3. pls[p] \in ToSet(pls) /\ pls[p].name = name
    BY <1>1, <1>3, <2>1, <2>2
  <2>4. c \in ToSet(pls) /\ c.name = name
    BY <2>3 DEF PoolNamed
  <2> HIDE DEF c
  <2>5. PICK q \in 1 .. N : c = pls[q]
    BY <1>3, <2>4
  <2>6. c = pls[q] /\ r.pools[q].name = name
    BY <1>1, <2>4, <2>5
  <2> DEFINE own == r.pools[q]
  <2>7. c = ResolvedPool(r, ids, elig, own) /\ own.name = name
    BY <1>1, <2>6
  <2> HIDE DEF own
  <2>8. /\ c.rarity = PoolRarity[own.name]
        /\ c.category = IF own.name \in RainbowPools THEN "rainbow-foil" ELSE "normal"
    BY <2>7 DEF ResolvedPool
  <2> QED
    BY <2>7, <2>8 DEF c
<1>5. ASSUME NEW name \in PinnedPools
      PROVE  /\ name \in CommonPools => PoolRarity[name] = "common" /\ name \notin RainbowPools
             /\ name = "Rare" => PoolRarity[name] = "rare" /\ name \notin RainbowPools
             /\ name = "Majestic" => PoolRarity[name] = "majestic" /\ name \notin RainbowPools
             /\ name \in CommonPools \/ name = "Rare" \/ name = "Majestic" \/ name \in RainbowPools
             /\ name \in RainbowPools => PoolRarity[name] \in FabRarities
  BY DEF PinnedPools, NormalPools, CommonPools, RainbowPools, PoolRarity, FabRarities
<1> SUFFICES ASSUME NEW name \in PinnedPools
             PROVE  /\ Holds(pls, name, "normal", {"common"}) <=> name \in CommonPools
                    /\ Holds(pls, name, "normal", {"rare"}) <=> name \in {"Rare"}
                    /\ Holds(pls, name, "normal", {"majestic"}) <=> name \in {"Majestic"}
                    /\ Holds(pls, name, "rainbow-foil", FabRarities) <=> name \in RainbowPools
  BY DEF PoolRolesAre
<1>6. "Rare" \notin CommonPools /\ "Majestic" \notin CommonPools
  BY DEF CommonPools
<1> QED
  BY <1>4, <1>5, <1>6 DEF Holds

\* The positions that hold something are those of the pools that hold it.
LEMMA PositionsHeld ==
    ASSUME NEW pls, PoolRolesAre(pls), NEW l, LayoutShape(l),
           \A i \in 1 .. Len(l.slots) : l.slots[i].pool \in PinnedPools
    PROVE  /\ \A x \in 1 .. Len(PositionsOf(l)) : PositionsOf(l)[x] \in PinnedPools
           /\ Holding(pls, PositionsOf(l), "normal", {"common"}) = Positions(l, CommonPools)
           /\ Holding(pls, PositionsOf(l), "normal", {"rare"}) = Positions(l, {"Rare"})
           /\ Holding(pls, PositionsOf(l), "normal", {"majestic"}) = Positions(l, {"Majestic"})
           /\ Holding(pls, PositionsOf(l), "rainbow-foil", FabRarities) = Positions(l, RainbowPools)
<1> DEFINE F == PositionsOf(l)
<1>1. DOMAIN F = 1 .. Len(F) /\ \A x \in 1 .. Len(F) : \E i \in 1 .. Len(l.slots) : F[x] = l.slots[i].pool
  BY PositionsFacts
<1> HIDE DEF F
<1>2. \A x \in 1 .. Len(F) : F[x] \in PinnedPools
  BY <1>1
<1>3. \A c, R : Holding(pls, F, c, R) = {x \in 1 .. Len(F) : Holds(pls, F[x], c, R)}
  BY <1>1 DEF Holding
<1>4. \A S : Positions(l, S) = {x \in 1 .. Len(F) : F[x] \in S}
  BY DEF Positions, F
<1>5. ASSUME NEW x \in 1 .. Len(F)
      PROVE  /\ Holds(pls, F[x], "normal", {"common"}) <=> F[x] \in CommonPools
             /\ Holds(pls, F[x], "normal", {"rare"}) <=> F[x] \in {"Rare"}
             /\ Holds(pls, F[x], "normal", {"majestic"}) <=> F[x] \in {"Majestic"}
             /\ Holds(pls, F[x], "rainbow-foil", FabRarities) <=> F[x] \in RainbowPools
  BY <1>2 DEF PoolRolesAre
<1>6. Holding(pls, F, "normal", {"common"}) = Positions(l, CommonPools)
  <2>1. Holding(pls, F, "normal", {"common"}) = {x \in 1 .. Len(F) : Holds(pls, F[x], "normal", {"common"})}
    BY <1>3
  <2>2. Positions(l, CommonPools) = {x \in 1 .. Len(F) : F[x] \in CommonPools}
    BY <1>4
  <2> QED
    BY <1>5, <2>1, <2>2
<1>7. Holding(pls, F, "normal", {"rare"}) = Positions(l, {"Rare"})
  <2>1. Holding(pls, F, "normal", {"rare"}) = {x \in 1 .. Len(F) : Holds(pls, F[x], "normal", {"rare"})}
    BY <1>3
  <2>2. Positions(l, {"Rare"}) = {x \in 1 .. Len(F) : F[x] \in {"Rare"}}
    BY <1>4
  <2> QED
    BY <1>5, <2>1, <2>2
<1>8. Holding(pls, F, "normal", {"majestic"}) = Positions(l, {"Majestic"})
  <2>1. Holding(pls, F, "normal", {"majestic"}) = {x \in 1 .. Len(F) : Holds(pls, F[x], "normal", {"majestic"})}
    BY <1>3
  <2>2. Positions(l, {"Majestic"}) = {x \in 1 .. Len(F) : F[x] \in {"Majestic"}}
    BY <1>4
  <2> QED
    BY <1>5, <2>1, <2>2
<1>9. Holding(pls, F, "rainbow-foil", FabRarities) = Positions(l, RainbowPools)
  <2>1. Holding(pls, F, "rainbow-foil", FabRarities) = {x \in 1 .. Len(F) : Holds(pls, F[x], "rainbow-foil", FabRarities)}
    BY <1>3
  <2>2. Positions(l, RainbowPools) = {x \in 1 .. Len(F) : F[x] \in RainbowPools}
    BY <1>4
  <2> QED
    BY <1>5, <2>1, <2>2
<1> QED
  BY <1>2, <1>6, <1>7, <1>8, <1>9 DEF F

\* How many positions of an accepted layout belong to which pools.
Counted(l) ==
    /\ \A S : IsFiniteSet(Positions(l, S))
    /\ Cardinality(Positions(l, CommonPools)) = 11
    /\ Cardinality(Positions(l, RainbowPools)) = 1
    /\ <<Cardinality(Positions(l, {"Rare"})), Cardinality(Positions(l, {"Majestic"}))>> \in {<<2, 0>>, <<1, 1>>}
    /\ OutcomeOf(l)[1] = IF Cardinality(Positions(l, {"Majestic"})) = 0 THEN "Rare" ELSE "Majestic"
    /\ \A i \in 1 .. Len(l.slots) : l.slots[i].pool \in PinnedPools

LEMMA OutcomeCounted ==
    ASSUME NEW l, LayoutShape(l), HasOutcome(l)
    PROVE  Counted(l)
<1>1. \A S : IsFiniteSet(Positions(l, S)) /\ Cardinality(Positions(l, S)) = Visible(l, S)
  BY PositionsCount
<1>2. /\ Visible(l, CommonPools) = 11
      /\ <<Visible(l, {"Rare"}), Visible(l, {"Majestic"})>> \in {<<2, 0>>, <<1, 1>>}
      /\ Len(RainbowSlots(l)) = 1 /\ RainbowSlots(l)[1].count = 1
      /\ \A slot \in ToSet(l.slots) : slot.pool \in PinnedPools
  BY DEF HasOutcome
<1>3. Visible(l, RainbowPools) = 1
  BY <1>2, OneRainbow
<1>4. OutcomeOf(l)[1] = IF Visible(l, {"Rare"}) = 2 THEN "Rare" ELSE "Majestic"
  BY DEF OutcomeOf
<1>5. \A i \in 1 .. Len(l.slots) : l.slots[i].pool \in PinnedPools
  BY <1>2, ListFacts DEF LayoutShape
<1> QED
  BY <1>1, <1>2, <1>3, <1>4, <1>5 DEF Counted

\* So an accepted layout resolves.
LEMMA LayoutResolves ==
    ASSUME NEW pls, PoolRolesAre(pls), NEW l, LayoutShape(l), Whole(l), Counted(l)
    PROVE  Resolves(pls, l)
<1>1. l.weight > 0 /\ Listed(l.slots) /\ \A i \in 1 .. Len(l.slots) : l.slots[i].count > 0
  <2>1. /\ l.weight \in Nat \ {0} /\ Listed(l.slots)
        /\ \A i \in 1 .. Len(l.slots) : l.slots[i].count \in Nat \ {0}
    BY DEF LayoutShape
  <2>2. \A x \in Nat \ {0} : x > 0
    OBVIOUS
  <2> QED
    BY <2>1, <2>2
<1>2. \A s \in ToSet(l.slots) : s.count > 0
  BY <1>1, IndexedSet
<1>3. Len(PositionsOf(l)) = VisibleCardTotal
  BY WholePositions
<1>4. \A i \in 1 .. Len(l.slots) : l.slots[i].pool \in PinnedPools
  BY DEF Counted
<1>5. /\ Cardinality(Holding(pls, PositionsOf(l), "normal", {"common"})) = 11
      /\ Cardinality(Holding(pls, PositionsOf(l), "rainbow-foil", FabRarities)) = 1
      /\ << Cardinality(Holding(pls, PositionsOf(l), "normal", {"rare"})),
            Cardinality(Holding(pls, PositionsOf(l), "normal", {"majestic"})) >> \in {<<2, 0>>, <<1, 1>>}
  <2>1. /\ Holding(pls, PositionsOf(l), "normal", {"common"}) = Positions(l, CommonPools)
        /\ Holding(pls, PositionsOf(l), "normal", {"rare"}) = Positions(l, {"Rare"})
        /\ Holding(pls, PositionsOf(l), "normal", {"majestic"}) = Positions(l, {"Majestic"})
        /\ Holding(pls, PositionsOf(l), "rainbow-foil", FabRarities) = Positions(l, RainbowPools)
    BY <1>4, PositionsHeld
  <2> QED
    BY <2>1 DEF Counted
<1> QED
  BY <1>1, <1>2, <1>3, <1>5 DEF Resolves

\* And it fills the slots the rules name.
LEMMA RolesFilled ==
    ASSUME NEW pls, PoolRolesAre(pls), NEW l, LayoutShape(l), Counted(l)
    PROVE  HasRulesSlots(ResolvedLayout(pls, l), l)
<1> DEFINE F == PositionsOf(l)
           n == Len(F)
           roles == [x \in DOMAIN F |-> RoleAt(pls, F, x)]
           With(role) == {x \in DOMAIN roles : roles[x] = role}
           C == Positions(l, CommonPools)
           R == Positions(l, {"Rare"})
           M == Positions(l, {"Majestic"})
           W == Positions(l, RainbowPools)
<1>1. ResolvedLayout(pls, l).slots = F /\ ResolvedLayout(pls, l).roles = roles
  BY DEF ResolvedLayout
<1>2. DOMAIN F = 1 .. n /\ n \in Nat
  BY PositionsFacts
<1>3. /\ IsFiniteSet(R) /\ Cardinality(C) = 11 /\ Cardinality(W) = 1
      /\ <<Cardinality(R), Cardinality(M)>> \in {<<2, 0>>, <<1, 1>>} /\ IsFiniteSet(M)
      /\ OutcomeOf(l)[1] = IF Cardinality(M) = 0 THEN "Rare" ELSE "Majestic"
      /\ \A i \in 1 .. Len(l.slots) : l.slots[i].pool \in PinnedPools
  BY DEF Counted
<1>4. \A x \in 1 .. n : F[x] \in PinnedPools
  BY <1>3, PositionsHeld
<1>5. Holding(pls, F, "normal", {"rare"}) = R
  BY <1>3, PositionsHeld
<1>6. R \subseteq Nat /\ R # {} /\ R \subseteq 1 .. n
  <2>1. Cardinality(R) # 0
    BY <1>3
  <2>2. R # {}
    <3> HIDE DEF R
    <3> QED
      BY <2>1, FS_EmptySet
  <2> QED
    BY <1>2, <2>2 DEF Positions
<1>7. First(R) \in R
  BY <1>6, FirstFacts
<1>8. /\ C = {x \in 1 .. n : F[x] \in CommonPools} /\ R = {x \in 1 .. n : F[x] \in {"Rare"}}
      /\ W = {x \in 1 .. n : F[x] \in RainbowPools} /\ M = {x \in 1 .. n : F[x] \in {"Majestic"}}
  BY DEF Positions
<1> HIDE DEF F, n, C, R, M, W
<1>9. ASSUME NEW x \in 1 .. n
      PROVE  RoleAt(pls, F, x) = CASE F[x] \in RainbowPools -> "rainbow-foil"
                                   [] F[x] \in CommonPools -> "common-rarity"
                                   [] x \in R /\ x = First(R) -> "fixed-rare"
                                   [] OTHER -> "rare-or-majestic"
  <2>1. /\ Holds(pls, F[x], "rainbow-foil", FabRarities) <=> F[x] \in RainbowPools
        /\ Holds(pls, F[x], "normal", {"common"}) <=> F[x] \in CommonPools
    BY <1>4 DEF PoolRolesAre
  <2> QED
    BY <1>5, <2>1 DEF RoleAt
<1>10. RainbowPools \cap CommonPools = {} /\ "Rare" \notin RainbowPools /\ "Rare" \notin CommonPools
  BY DEF RainbowPools, CommonPools
<1>11. ASSUME NEW x \in 1 .. n
       PROVE  /\ RoleAt(pls, F, x) = "common-rarity" <=> x \in C
              /\ RoleAt(pls, F, x) = "rainbow-foil" <=> x \in W
              /\ RoleAt(pls, F, x) = "fixed-rare" <=> x = First(R)
  <2>1. CASE F[x] \in RainbowPools
    BY <1>7, <1>8, <1>9, <1>10, <2>1
  <2>2. CASE F[x] \in CommonPools
    BY <1>7, <1>8, <1>9, <1>10, <2>2
  <2>3. CASE F[x] \notin RainbowPools /\ F[x] \notin CommonPools /\ x = First(R)
    BY <1>7, <1>8, <1>9, <1>10, <2>3
  <2>4. CASE F[x] \notin RainbowPools /\ F[x] \notin CommonPools /\ x # First(R)
    BY <1>8, <1>9, <1>10, <2>4
  <2> QED
    BY <2>1, <2>2, <2>3, <2>4
<1>12. With("common-rarity") = C /\ With("rainbow-foil") = W /\ With("fixed-rare") = {First(R)}
  <2>1. C \subseteq 1 .. n /\ W \subseteq 1 .. n /\ First(R) \in 1 .. n
    BY <1>6, <1>7, <1>8
  <2>2. With("common-rarity") = {x \in 1 .. n : RoleAt(pls, F, x) = "common-rarity"}
        /\ With("rainbow-foil") = {x \in 1 .. n : RoleAt(pls, F, x) = "rainbow-foil"}
        /\ With("fixed-rare") = {x \in 1 .. n : RoleAt(pls, F, x) = "fixed-rare"}
    BY <1>2
  <2> HIDE DEF With
  <2> QED
    BY <1>11, <2>1, <2>2
<1>13. Cardinality(With("common-rarity")) = 11 /\ Cardinality(With("rainbow-foil")) = 1
       /\ Cardinality(With("fixed-rare")) = 1
  BY <1>3, <1>12, FS_Singleton
<1>14. "Majestic" \in ToSet(F) <=> M # {}
  BY <1>2, <1>8 DEF ToSet
<1>15. M # {} <=> Cardinality(M) # 0
  BY <1>3, FS_EmptySet
<1>16. "Majestic" \in ToSet(F) <=> OutcomeOf(l)[1] = "Majestic"
  BY <1>3, <1>14, <1>15
<1> QED
  BY <1>1, <1>13, <1>16 DEF HasRulesSlots

-----------------------------------------------------------------------------
(* What reading accepts is resolved: the layouts.                          *)

\* The group a layout is in.
Group(i) == (i - 1) \div 6

\* In each group every outcome is that of one layout.
OutcomesGrouped(layouts) ==
    /\ \A i \in 1 .. Len(layouts) :
        HasOutcome(layouts[i]) /\ OutcomeOf(layouts[i]) \in DOMAIN Coefficient
    /\ \A i, j \in 1 .. Len(layouts) :
        Group(i) = Group(j) /\ OutcomeOf(layouts[i]) = OutcomeOf(layouts[j]) => i = j
    /\ \A i \in 1 .. Len(layouts) : \A o \in DOMAIN Coefficient :
        \E j \in 1 .. Len(layouts) : Group(j) = Group(i) /\ OutcomeOf(layouts[j]) = o

LEMMA Grouped ==
    ASSUME NEW layouts, Listed(layouts), AcceptsLayouts(layouts)
    PROVE  OutcomesGrouped(layouts)
<1> DEFINE L == Len(layouts)
           G == L \div 6
<1>1. L = LayoutCount /\ LayoutCount \in Nat /\ LayoutCount % 6 = 0
  BY LayoutCountAssumption DEF AcceptsLayouts, GroupSize
<1>2. G \in Nat /\ L = 6 * G
  BY <1>1
<1>3. ASSUME NEW g \in 1 .. G
      PROVE  AcceptsGroup(SubSeq(layouts, 6 * (g - 1) + 1, 6 * g))
  <2>1. DOMAIN GroupsOf(layouts) = 1 .. G
    BY DEF GroupsOf, GroupSize
  <2>2. GroupsOf(layouts)[g] = SubSeq(layouts, 6 * (g - 1) + 1, 6 * g)
    BY DEF GroupsOf, GroupSize
  <2> QED
    BY <2>1, <2>2 DEF AcceptsLayouts
<1> HIDE DEF L, G
<1>4. ASSUME NEW i \in 1 .. L
      PROVE  /\ Group(i) \in Nat /\ Group(i) + 1 \in 1 .. G /\ 6 * Group(i) + 6 <= L
             /\ i - 6 * Group(i) \in 1 .. 6 /\ 6 * Group(i) + (i - 6 * Group(i)) = i
  BY <1>1, <1>2 DEF Group
<1>5. ASSUME NEW b \in Nat, NEW k \in 1 .. 6 PROVE Group(6 * b + k) = b
  BY DEF Group
<1> DEFINE T(b) == SubSeq(layouts, 6 * b + 1, 6 * b + 6)
<1>6. ASSUME NEW b \in Nat, b + 1 \in 1 .. G, 6 * b + 6 <= L
      PROVE  /\ \A k \in 1 .. 6 : T(b)[k] = layouts[6 * b + k]
             /\ \A k \in 1 .. 6 : HasOutcome(T(b)[k]) /\ OutcomeOf(T(b)[k]) \in DOMAIN Coefficient
             /\ \A k, m \in 1 .. 6 : OutcomeOf(T(b)[k]) = OutcomeOf(T(b)[m]) => k = m
             /\ \A o \in DOMAIN Coefficient : \E k \in 1 .. 6 : OutcomeOf(T(b)[k]) = o
  <2> DEFINE t == T(b)
  <2>1. PICK g \in 1 .. G : g = b + 1
    BY <1>6
  <2>2. PICK c \in Nat : c = 6 * b
    OBVIOUS
  <2>3. 6 * (g - 1) + 1 = c + 1 /\ 6 * g = c + 6 /\ c + 6 <= L
    BY <1>6, <2>1, <2>2
  <2>4. t = SubSeq(layouts, c + 1, c + 6)
    BY <2>2
  <2>5. AcceptsGroup(t)
    BY <1>3, <2>3, <2>4
  <2> HIDE DEF T
  <2>6. Stretch(layouts, c, 6, t)
    BY <2>3, <2>4, PartFacts DEF L
  <2>7. Listed(t) /\ Len(t) = 6 /\ \A k \in 1 .. 6 : t[k] = layouts[c + k]
    BY <2>6 DEF Stretch
  <2>8. DOMAIN t = 1 .. 6
    BY <2>7, ListFacts
  <2>9. {OutcomeOf(l) : l \in ToSet(t)} = DOMAIN Coefficient /\ \A k \in 1 .. 6 : HasOutcome(t[k])
    BY <2>5, <2>8 DEF AcceptsGroup
  <2> HIDE DEF t
  <2>10. /\ \A k \in 1 .. 6 : OutcomeOf(t[k]) \in DOMAIN Coefficient
         /\ \A k, m \in 1 .. 6 : OutcomeOf(t[k]) = OutcomeOf(t[m]) => k = m
         /\ \A o \in DOMAIN Coefficient : \E k \in 1 .. 6 : OutcomeOf(t[k]) = o
    BY <2>7, <2>9, OneForEach
  <2> QED
    BY <2>2, <2>7, <2>9, <2>10 DEF t
<1> HIDE DEF T
<1>7. ASSUME NEW i \in 1 .. L
      PROVE  HasOutcome(layouts[i]) /\ OutcomeOf(layouts[i]) \in DOMAIN Coefficient
  <2> DEFINE b == Group(i)
             k == i - 6 * b
  <2>1. b \in Nat /\ b + 1 \in 1 .. G /\ 6 * b + 6 <= L /\ k \in 1 .. 6 /\ 6 * b + k = i
    BY <1>4
  <2> HIDE DEF b, k
  <2>2. T(b)[k] = layouts[i]
    BY <1>6, <2>1
  <2>3. HasOutcome(T(b)[k]) /\ OutcomeOf(T(b)[k]) \in DOMAIN Coefficient
    BY <1>6, <2>1
  <2> QED
    BY <2>2, <2>3
<1>8. ASSUME NEW i \in 1 .. L, NEW j \in 1 .. L, Group(i) = Group(j),
             OutcomeOf(layouts[i]) = OutcomeOf(layouts[j])
      PROVE  i = j
  <2> DEFINE b == Group(i)
             k == i - 6 * b
             m == j - 6 * b
  <2>1. b \in Nat /\ b + 1 \in 1 .. G /\ 6 * b + 6 <= L /\ k \in 1 .. 6 /\ 6 * b + k = i
    BY <1>4
  <2>2. m \in 1 .. 6 /\ 6 * b + m = j
    BY <1>4, <1>8
  <2> HIDE DEF b, k, m
  <2>3. T(b)[k] = layouts[i] /\ T(b)[m] = layouts[j]
    BY <1>6, <2>1, <2>2
  <2>4. k = m
    BY <1>6, <1>8, <2>1, <2>2, <2>3
  <2> QED
    BY <2>1, <2>2, <2>4
<1>9. ASSUME NEW i \in 1 .. L, NEW o \in DOMAIN Coefficient
      PROVE  \E j \in 1 .. L : Group(j) = Group(i) /\ OutcomeOf(layouts[j]) = o
  <2> DEFINE b == Group(i)
  <2>1. b \in Nat /\ b + 1 \in 1 .. G /\ 6 * b + 6 <= L
    BY <1>4
  <2> HIDE DEF b
  <2>2. PICK k \in 1 .. 6 : OutcomeOf(T(b)[k]) = o
    BY <1>6, <2>1
  <2>3. OutcomeOf(layouts[6 * b + k]) = o
    BY <1>6, <2>1, <2>2
  <2>4. 6 * b + k \in 1 .. L
    <3>1. PICK c \in Nat : c = 6 * b
      BY <2>1
    <3>2. c + 6 <= L /\ L \in Nat
      BY <1>1, <2>1, <3>1
    <3>3. c + k \in 1 .. L
      BY <3>2
    <3> QED
      BY <3>1, <3>3
  <2>5. Group(6 * b + k) = b
    BY <1>5, <2>1
  <2> QED
    BY <2>3, <2>4, <2>5 DEF b
<1> QED
  BY <1>7, <1>8, <1>9 DEF OutcomesGrouped, L

\* Half of the layouts have a majestic.
LEMMA HalfMajestic ==
    ASSUME NEW layouts, Listed(layouts), OutcomesGrouped(layouts)
    PROVE  2 * Cardinality({i \in 1 .. Len(layouts) : OutcomeOf(layouts[i])[1] = "Majestic"}) = Len(layouts)
<1> DEFINE L == Len(layouts)
           O(i) == OutcomeOf(layouts[i])
           M == {i \in 1 .. L : O(i)[1] = "Majestic"}
           R == {i \in 1 .. L : O(i)[1] = "Rare"}
           Other(i) == CHOOSE k \in R : Group(k) = Group(i) /\ O(k)[2] = O(i)[2]
           f == [i \in M |-> Other(i)]
<1>1. L \in Nat
  BY ListFacts
<1>2. /\ \A i \in 1 .. L : O(i) \in {"Rare", "Majestic"} \X RainbowPools
      /\ \A i, j \in 1 .. L : Group(i) = Group(j) /\ O(i) = O(j) => i = j
      /\ \A i \in 1 .. L : \A o \in {"Rare", "Majestic"} \X RainbowPools :
            \E j \in 1 .. L : Group(j) = Group(i) /\ O(j) = o
  BY SixOutcomes DEF OutcomesGrouped
<1> HIDE DEF L, O
<1>3. ASSUME NEW i \in 1 .. L PROVE O(i) = <<O(i)[1], O(i)[2]>> /\ O(i)[2] \in RainbowPools
                                  /\ (O(i)[1] = "Rare" \/ O(i)[1] = "Majestic")
  BY <1>2
<1>4. ASSUME NEW i \in 1 .. L, NEW j \in 1 .. L, Group(i) = Group(j), O(i)[1] = O(j)[1], O(i)[2] = O(j)[2]
      PROVE  i = j
  BY <1>2, <1>3, <1>4
<1>5. ASSUME NEW i \in 1 .. L, NEW s \in {"Rare", "Majestic"}
      PROVE  \E j \in 1 .. L : Group(j) = Group(i) /\ O(j)[1] = s /\ O(j)[2] = O(i)[2]
  <2>1. <<s, O(i)[2]>> \in {"Rare", "Majestic"} \X RainbowPools
    BY <1>3
  <2>2. PICK j \in 1 .. L : Group(j) = Group(i) /\ O(j) = <<s, O(i)[2]>>
    BY <1>2, <2>1
  <2> QED
    BY <2>2
<1>6. ASSUME NEW i \in M PROVE Other(i) \in R /\ Group(Other(i)) = Group(i) /\ O(Other(i))[2] = O(i)[2]
  <2>1. \E k \in R : Group(k) = Group(i) /\ O(k)[2] = O(i)[2]
    BY <1>5
  <2> QED
    BY <2>1
<1> HIDE DEF Other
<1>7. \A i \in M : i \in 1 .. L /\ O(i)[1] = "Majestic"
  OBVIOUS
<1>8. \A i \in R : i \in 1 .. L /\ O(i)[1] = "Rare"
  OBVIOUS
<1>9. /\ f \in [M -> R] /\ \A i \in M : f[i] = Other(i)
  BY <1>6
<1>10. ASSUME NEW i \in M, NEW j \in M, f[i] = f[j] PROVE i = j
  <2>1. Other(i) = Other(j)
    BY <1>9, <1>10
  <2>2. Group(i) = Group(j) /\ O(i)[2] = O(j)[2]
    BY <1>6, <2>1
  <2> QED
    BY <1>4, <1>7, <2>2
<1>11. ASSUME NEW k \in R PROVE \E i \in M : f[i] = k
  <2>1. PICK i \in 1 .. L : Group(i) = Group(k) /\ O(i)[1] = "Majestic" /\ O(i)[2] = O(k)[2]
    BY <1>5, <1>8
  <2>2. i \in M
    BY <2>1
  <2>3. Other(i) \in R /\ Group(Other(i)) = Group(k) /\ O(Other(i))[2] = O(k)[2]
    BY <1>6, <2>1, <2>2
  <2>4. Other(i) = k
    BY <1>4, <1>8, <2>3
  <2> QED
    BY <1>9, <2>2, <2>4
<1>12. f \in Bijection(M, R)
  <2> HIDE DEF f, M, R
  <2> QED
    BY <1>9, <1>10, <1>11 DEF Bijection, Injection, Surjection, IsInjective
<1>13. M \cup R = 1 .. L /\ M \cap R = {}
  BY <1>3
<1>14. IsFiniteSet(1 .. L) /\ Cardinality(1 .. L) = L
  BY <1>1, UpTo
<1>15. IsFiniteSet(M) /\ IsFiniteSet(R)
  <2>1. M \in SUBSET (1 .. L) /\ R \in SUBSET (1 .. L)
    OBVIOUS
  <2> HIDE DEF M, R
  <2> QED
    BY <1>14, <2>1, FS_Subset
<1> HIDE DEF f, M, R
<1>16. Cardinality(M) = Cardinality(R)
  BY <1>12, <1>15, FS_Bijection DEF ExistsBijection
<1>17. Cardinality(M \cup R) = Cardinality(M) + Cardinality(R) - Cardinality(M \cap R)
  BY <1>15, FS_Union
<1>18. Cardinality(M \cap R) = 0 /\ Cardinality(M) \in Nat
  BY <1>13, <1>15, FS_EmptySet, FS_CardinalityType
<1>19. 2 * Cardinality(M) = L
  <2>1. Cardinality(M \cup R) = L
    BY <1>13, <1>14
  <2> QED
    BY <1>16, <1>17, <1>18, <2>1
<1> QED
  BY <1>19 DEF M, L, O

\* The pools that the positions of a layout name are those of its slots.
LEMMA NamedBySlots ==
    ASSUME NEW l, LayoutShape(l)
    PROVE  ToSet(PositionsOf(l)) = {s.pool : s \in ToSet(l.slots)}
<1> DEFINE F == PositionsOf(l)
<1>1. /\ Listed(F) /\ \A x \in 1 .. Len(F) : \E i \in 1 .. Len(l.slots) : F[x] = l.slots[i].pool
      /\ \A i \in 1 .. Len(l.slots) : \E x \in 1 .. Len(F) : F[x] = l.slots[i].pool
  BY PositionsFacts
<1> HIDE DEF F
<1>2. ToSet(F) = {F[x] : x \in 1 .. Len(F)}
  BY <1>1, IndexedSet
<1>3. ToSet(l.slots) = {l.slots[i] : i \in 1 .. Len(l.slots)}
  BY IndexedSet DEF LayoutShape
<1>4. \A pool : pool \in {s.pool : s \in ToSet(l.slots)} <=> \E i \in 1 .. Len(l.slots) : pool = l.slots[i].pool
  BY <1>3
<1>5. ASSUME NEW pool PROVE pool \in ToSet(F) <=> \E i \in 1 .. Len(l.slots) : pool = l.slots[i].pool
  <2>1. ASSUME pool \in ToSet(F) PROVE \E i \in 1 .. Len(l.slots) : pool = l.slots[i].pool
    <3>1. PICK x \in 1 .. Len(F) : pool = F[x]
      BY <1>2, <2>1
    <3> QED
      BY <1>1, <3>1
  <2>2. ASSUME NEW i \in 1 .. Len(l.slots), pool = l.slots[i].pool PROVE pool \in ToSet(F)
    <3>1. PICK x \in 1 .. Len(F) : F[x] = l.slots[i].pool
      BY <1>1
    <3> QED
      BY <1>2, <2>2, <3>1
  <2> QED
    BY <2>1, <2>2
<1> QED
  BY <1>4, <1>5 DEF F

\* So the layouts of an accepted recipe resolve and fill the rules' slots.
LEMMA AcceptedLayoutsResolve ==
    ASSUME NEW r, RecipeShape(r), Accepts(r), NEW ids, NEW elig, Mapped(r.cards, ids),
           PoolsResolve(r, ids, elig), NEW pls, pls = ResolvedPools(r, ids, elig)
    PROVE  /\ LayoutsResolve(r.layouts, pls)
           /\ \A layout \in ToSet(r.layouts) : HasRulesSlots(ResolvedLayout(pls, layout), layout)
<1> DEFINE layouts == r.layouts
           L == Len(layouts)
<1>1. AcceptsPools(r.pools) /\ AcceptsReferences(r) /\ AcceptsLayouts(layouts)
  BY DEF Accepts
<1>2. /\ PinnedPools = {p.name : p \in ToSet(r.pools)}
      /\ UNION {{s.pool : s \in ToSet(l.slots)} : l \in ToSet(layouts)} = {p.name : p \in ToSet(r.pools)}
  BY <1>1, ReferencesFacts
<1>3. PoolRolesAre(pls)
  BY <1>2, PoolRoles
<1>4. /\ Listed(layouts) /\ \A i \in 1 .. L : LayoutShape(layouts[i]) /\ Whole(layouts[i])
      /\ \A i, j \in 1 .. L : layouts[i].id = layouts[j].id => i = j
  BY DEF RecipeShape, LayoutsRead
<1>5. DOMAIN layouts = 1 .. L /\ L \in Nat /\ ToSet(layouts) = {layouts[i] : i \in 1 .. L}
  BY <1>4, ListFacts, IndexedSet
<1>6. OutcomesGrouped(layouts)
  BY <1>1, <1>4, Grouped
<1>7. \A i \in 1 .. L : Counted(layouts[i])
  BY <1>4, <1>6, OutcomeCounted DEF OutcomesGrouped
<1> HIDE DEF layouts, L
<1>8. \A l \in ToSet(layouts) : LayoutShape(l) /\ Whole(l) /\ Counted(l)
  BY <1>4, <1>5, <1>7
<1>9. \A l \in ToSet(layouts) : Resolves(pls, l) /\ HasRulesSlots(ResolvedLayout(pls, l), l)
  BY <1>3, <1>8, LayoutResolves, RolesFilled
<1>10. /\ DOMAIN pls = 1 .. Len(r.pools) /\ \A p \in 1 .. Len(r.pools) : pls[p].name = r.pools[p].name
  BY ResolvedPoolFacts
<1>11. /\ ToSet(r.pools) = {r.pools[p] : p \in 1 .. Len(r.pools)}
       /\ \A p, q \in 1 .. Len(r.pools) : r.pools[p].name = r.pools[q].name => p = q
  BY PoolFacts
<1>12. {pool.name : pool \in ToSet(pls)} = {pool.name : pool \in ToSet(r.pools)}
  <2>1. ToSet(pls) = {pls[p] : p \in 1 .. Len(r.pools)}
    BY <1>10 DEF ToSet
  <2>2. \A n : n \in {pool.name : pool \in ToSet(pls)} <=> \E p \in 1 .. Len(r.pools) : n = r.pools[p].name
    BY <1>10, <2>1
  <2>3. \A n : n \in {pool.name : pool \in ToSet(r.pools)} <=> \E p \in 1 .. Len(r.pools) : n = r.pools[p].name
    BY <1>11
  <2> QED
    BY <2>2, <2>3
<1>13. Distinct([p \in DOMAIN pls |-> pls[p].name])
  BY <1>10, <1>11 DEF Distinct
<1>14. Distinct([l \in DOMAIN layouts |-> layouts[l].id])
  BY <1>4, <1>5 DEF Distinct
<1>15. UNION {ToSet(PositionsOf(l)) : l \in ToSet(layouts)} = {pool.name : pool \in ToSet(pls)}
  <2>1. \A l \in ToSet(layouts) : ToSet(PositionsOf(l)) = {s.pool : s \in ToSet(l.slots)}
    BY <1>8, NamedBySlots
  <2>2. {ToSet(PositionsOf(l)) : l \in ToSet(layouts)} = {{s.pool : s \in ToSet(l.slots)} : l \in ToSet(layouts)}
    BY <2>1
  <2> QED
    BY <1>2, <1>12, <2>2 DEF layouts
<1>16. 2 * Cardinality(WithMajestic(pls, layouts)) = L
  <2>1. ASSUME NEW i \in 1 .. L
        PROVE  Holding(pls, PositionsOf(layouts[i]), "normal", {"majestic"}) # {}
                    <=> OutcomeOf(layouts[i])[1] = "Majestic"
    <3> DEFINE l == layouts[i]
               M == Positions(l, {"Majestic"})
    <3>1. LayoutShape(l) /\ Counted(l)
      BY <1>4, <1>7
    <3> HIDE DEF l
    <3>2. Holding(pls, PositionsOf(l), "normal", {"majestic"}) = M
      BY <1>3, <3>1, PositionsHeld DEF Counted
    <3>3. IsFiniteSet(M) /\ (OutcomeOf(l)[1] = IF Cardinality(M) = 0 THEN "Rare" ELSE "Majestic")
      BY <3>1 DEF Counted
    <3> HIDE DEF M
    <3>4. M # {} <=> Cardinality(M) # 0
      BY <3>3, FS_EmptySet
    <3> QED
      BY <3>2, <3>3, <3>4 DEF l
  <2>2. WithMajestic(pls, layouts) = {i \in 1 .. L : OutcomeOf(layouts[i])[1] = "Majestic"}
    BY <1>5, <2>1 DEF WithMajestic
  <2> QED
    BY <1>4, <1>6, <2>2, HalfMajestic DEF L
<1>17. L = LayoutCount
  BY <1>1 DEF AcceptsLayouts, L, layouts
<1>18. LayoutsResolve(layouts, pls)
  BY <1>9, <1>13, <1>14, <1>15, <1>16, <1>17 DEF LayoutsResolve, L
<1> QED
  BY <1>9, <1>18 DEF layouts

\* What an accepted recipe has at each stage it reaches, nothing unresolved.
AcceptedInv ==
    /\ ReadingInv /\ phase # "unresolved"
    /\ phase \in {"classify", "resolve pools", "resolve layouts"} => MappedOnce(recipe.cards, identities)

LEMMA AcceptedStep == AcceptedInv /\ [ReadingNext]_reading => AcceptedInv'
<1> SUFFICES ASSUME AcceptedInv, [ReadingNext]_reading PROVE AcceptedInv'
  OBVIOUS
<1>1. ReadingInv'
  BY ReadingInvStep DEF AcceptedInv
<1>2. CASE ReadText \/ VerifyRecipe \/ GenerateSnapshot
  BY <1>1, <1>2 DEF ReadText, VerifyRecipe, GenerateSnapshot, AcceptedInv
<1>3. CASE ReconcileIdentities
  <2>1. phase = "reconcile" /\ Verified(recipe) /\ recipe' = recipe
    BY <1>3 DEF ReconcileIdentities, AcceptedInv, ReadingInv
  <2>2. PICK official \in Officials : identities' = Reconcile(recipe.cards, official)
    BY <1>3 DEF ReconcileIdentities
  <2>3. phase' = IF identities' = Refused THEN "refused" ELSE "classify"
    BY <1>3 DEF ReconcileIdentities
  <2>4. ASSUME identities' # Refused PROVE MappedOnce(recipe.cards, identities')
    <3>1. CardsRead(recipe.cards)
      BY <2>1, ShapesAre DEF Verified, RecipeShape
    <3>2. Listed(official)
      BY OfficialsAssumption DEF Listing, Listed
    <3> QED
      BY <2>2, <2>4, <3>1, <3>2, ReconcileOnce
  <2> QED
    BY <1>1, <2>1, <2>3, <2>4 DEF AcceptedInv
<1>4. CASE ClassifyOfficial
  BY <1>1, <1>4 DEF ClassifyOfficial, AcceptedInv
<1>5. CASE ResolveRecipePools
  <2>1. /\ phase = "resolve pools" /\ Verified(recipe) /\ MappedOnce(recipe.cards, identities)
        /\ UNCHANGED <<recipe, identities>>
    BY <1>5 DEF ResolveRecipePools, AcceptedInv, ReadingInv
  <2>2. Mapped(recipe.cards, identities) /\ Classified(identities, eligibility)
    BY <2>1, ReconcileFacts, ClassifyFacts DEF AcceptedInv, ReadingInv
  <2>3. RecipeShape(recipe) /\ AcceptsPools(recipe.pools) /\ AcceptsReferences(recipe)
    BY <2>1, ShapesAre DEF Verified, Accepts
  <2>4. PoolsResolve(recipe, identities, eligibility)
    BY <2>1, <2>2, <2>3, AcceptedPoolsResolve
  <2>5. phase' = "resolve layouts"
    BY <1>5, <2>4 DEF ResolveRecipePools
  <2> QED
    BY <1>1, <2>1, <2>5 DEF AcceptedInv
<1>6. CASE ResolveRecipeLayouts
  <2>1. /\ phase = "resolve layouts" /\ Verified(recipe)
        /\ PoolsResolve(recipe, identities, eligibility) /\ pools = ResolvedPools(recipe, identities, eligibility)
    BY <1>6 DEF ResolveRecipeLayouts, AcceptedInv, ReadingInv
  <2>2. Mapped(recipe.cards, identities)
    BY <2>1, ReconcileFacts DEF AcceptedInv, ReadingInv
  <2>3. RecipeShape(recipe) /\ Accepts(recipe)
    BY <2>1, ShapesAre DEF Verified
  <2>4. LayoutsResolve(recipe.layouts, pools)
    BY <2>1, <2>2, <2>3, AcceptedLayoutsResolve
  <2>5. phase' = "compiled"
    BY <1>6, <2>4 DEF ResolveRecipeLayouts
  <2> QED
    BY <1>1, <2>5 DEF AcceptedInv
<1>7. CASE UNCHANGED reading
  BY <1>1, <1>7 DEF reading, AcceptedInv
<1> QED
  BY <1>2, <1>3, <1>4, <1>5, <1>6, <1>7 DEF ReadingNext

\* A recipe that reading accepts is never refused by the resolution behind it,
\* which counts by collector number and by rarity what the first stages counted
\* by name; and its packs have the slots of the rules
\* (rules-and-collation.md:222).
THEOREM AcceptedResolve == ReadingSpec => []AcceptedRecipesResolve
<1>1. ReadingInit => AcceptedInv
  BY ReadingInvInit DEF ReadingInit, AcceptedInv
<1>2. AcceptedInv => AcceptedRecipesResolve
  <2> SUFFICES ASSUME AcceptedInv, phase = "resolve layouts"
               PROVE  /\ LayoutsResolve(recipe.layouts, pools)
                      /\ \A layout \in ToSet(recipe.layouts) :
                            HasRulesSlots(ResolvedLayout(pools, layout), layout)
    BY DEF AcceptedRecipesResolve, AcceptedInv
  <2>1. /\ RecipeShape(recipe) /\ Accepts(recipe)
        /\ PoolsResolve(recipe, identities, eligibility) /\ pools = ResolvedPools(recipe, identities, eligibility)
    BY ShapesAre DEF AcceptedInv, ReadingInv, Verified
  <2>2. Mapped(recipe.cards, identities)
    BY ReconcileFacts DEF AcceptedInv, ReadingInv
  <2> QED
    BY <2>1, <2>2, AcceptedLayoutsResolve
<1> QED
  BY <1>1, <1>2, AcceptedStep, PTL DEF ReadingSpec
=============================================================================

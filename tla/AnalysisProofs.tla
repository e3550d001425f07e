---------------------------- MODULE AnalysisProofs ----------------------------
(***************************************************************************)
(* What the filters of msgmv guarantee for any account and any archive:    *)
(* any number of folders and mails, any configuration of the ids.          *)
(***************************************************************************)
EXTENDS Analysis, FiniteSetTheorems, SequenceTheorems, TLAPS

-----------------------------------------------------------------------------
\* Induction and its uses: recursive functions, sequences, orders.

\* Induction on the natural numbers, for a set instead of a predicate.
LEMMA NatSetInduction ==
    ASSUME NEW S, 0 \in S, \A n \in Nat : n \in S => n + 1 \in S
    PROVE  Nat \subseteq S
<1> SUFFICES ASSUME NEW z \in Nat, z \notin S
             PROVE  FALSE
  OBVIOUS
<1> DEFINE T == {n \in Nat : n \notin S}
           R == OpToRel(<, Nat)
<1>1. T \subseteq Nat /\ T # {}
  OBVIOUS
<1>2. IsWellFoundedOn(R, Nat)
  BY NatLessThanWellFounded
<1>3. PICK x \in T : \A y \in T : ~(<<y, x>> \in R)
  <2> HIDE DEF T, R
  <2> QED BY <1>1, <1>2, WFMin
<1>4. x \in Nat /\ x # 0
  OBVIOUS
<1>5. x - 1 \in Nat /\ x = (x - 1) + 1 /\ x - 1 < x
  BY <1>4
<1>6. x - 1 \in T
  BY <1>4, <1>5
<1>7. <<x - 1, x>> \in R
  BY <1>4, <1>5 DEF OpToRel
<1> QED BY <1>3, <1>6, <1>7

\* A set of numbers that is not empty has a least and, if bounded, a greatest.
LEMMA LeastNumber ==
    ASSUME NEW S \in SUBSET Nat, S # {}
    PROVE  \E x \in S : \A y \in S : x <= y
<1> DEFINE T == {n \in Nat : \A m \in 0 .. n : m \notin S}
<1>1. SUFFICES ASSUME \A x \in S : \E y \in S : ~(x <= y)
               PROVE  FALSE
  OBVIOUS
<1>2. 0 \in T
  <2>1. 0 \notin S
    BY <1>1
  <2>2. \A m \in 0 .. 0 : m = 0
    OBVIOUS
  <2> QED BY <2>1, <2>2
<1>3. ASSUME NEW n \in Nat, n \in T
      PROVE  n + 1 \in T
  <2>1. n + 1 \notin S
    <3> SUFFICES ASSUME n + 1 \in S
                 PROVE  FALSE
      OBVIOUS
    <3>1. PICK y \in S : ~(n + 1 <= y)
      BY <1>1
    <3>2. y \in 0 .. n
      BY <3>1
    <3> QED BY <1>3, <3>2
  <2>2. \A m \in 0 .. n + 1 : m = n + 1 \/ m \in 0 .. n
    OBVIOUS
  <2> QED BY <1>3, <2>1, <2>2
<1>4. Nat \subseteq T
  <2> HIDE DEF T
  <2> QED BY <1>2, <1>3, NatSetInduction
<1>5. PICK x : x \in S
  OBVIOUS
<1>6. x \in Nat /\ x \in 0 .. x
  BY <1>5
<1> QED BY <1>4, <1>5, <1>6

LEMMA GreatestNumber ==
    ASSUME NEW N \in Nat, NEW S \in SUBSET (0 .. N), S # {}
    PROVE  \E x \in S : \A y \in S : y <= x
<1> DEFINE T == {N - y : y \in S}
<1>1. T \in SUBSET Nat /\ T # {}
  <2>1. \A y \in S : N - y \in Nat
    OBVIOUS
  <2>2. PICK y : y \in S
    OBVIOUS
  <2>3. N - y \in T
    BY <2>2
  <2> QED BY <2>1, <2>3
<1>2. PICK t \in T : \A u \in T : t <= u
  <2> HIDE DEF T
  <2> QED BY <1>1, LeastNumber
<1>3. PICK x \in S : t = N - x
  <2>1. t \in T
    BY <1>2
  <2> QED BY <2>1
<1>4. ASSUME NEW y \in S
      PROVE  y <= x
  <2>1. N - y \in T
    OBVIOUS
  <2>2. N - x <= N - y
    BY <1>2, <1>3, <2>1
  <2> QED BY <2>2
<1> QED BY <1>4

-----------------------------------------------------------------------------
\* The recursive functions of Only and of the sort.

\* Only builds its result from s one element at a time.
Keeps(s, S, N, kept) == kept = [n \in 0 .. N |-> IF n = 0 THEN <<>>
                                   ELSE IF s[n] \in S THEN Append(kept[n - 1], s[n]) ELSE kept[n - 1]]

LEMMA KeepsExists ==
    ASSUME NEW s, NEW S, NEW N \in Nat
    PROVE  \E kept : Keeps(s, S, N, kept)
<1> DEFINE I == {m \in Nat : \E kept : Keeps(s, S, m, kept)}
<1>1. 0 \in I
  <2> DEFINE g == [n \in 0 .. 0 |-> <<>>]
  <2>1. \A n \in 0 .. 0 : n = 0
    OBVIOUS
  <2>2. g = [n \in 0 .. 0 |-> IF n = 0 THEN <<>>
                              ELSE IF s[n] \in S THEN Append(g[n - 1], s[n]) ELSE g[n - 1]]
    BY <2>1, Zenon
  <2> HIDE DEF g
  <2> QED BY <2>2 DEF Keeps
<1>2. ASSUME NEW m \in Nat, m \in I
      PROVE  m + 1 \in I
  <2>1. PICK f : Keeps(s, S, m, f)
    BY <1>2
  <2> DEFINE x == IF s[m + 1] \in S THEN Append(f[m], s[m + 1]) ELSE f[m]
             g == [n \in 0 .. m + 1 |-> IF n = m + 1 THEN x ELSE f[n]]
  <2>2. ASSUME NEW n \in 0 .. m + 1
        PROVE  g[n] = IF n = 0 THEN <<>>
                      ELSE IF s[n] \in S THEN Append(g[n - 1], s[n]) ELSE g[n - 1]
    <3>1. CASE n = m + 1
      <4>1. n # 0 /\ n - 1 = m /\ m \in 0 .. m + 1 /\ m # m + 1
        BY <3>1
      <4>2. g[n] = x /\ g[n - 1] = f[m]
        BY <3>1, <4>1
      <4> HIDE DEF g
      <4> QED BY <3>1, <4>1, <4>2
    <3>2. CASE n # m + 1
      <4>1. n \in 0 .. m /\ (n # 0 => n - 1 \in 0 .. m + 1 /\ n - 1 # m + 1)
        BY <3>2
      <4>2. g[n] = f[n] /\ (n # 0 => g[n - 1] = f[n - 1])
        BY <3>2, <4>1
      <4>3. f[n] = IF n = 0 THEN <<>> ELSE IF s[n] \in S THEN Append(f[n - 1], s[n]) ELSE f[n - 1]
        BY <2>1, <4>1 DEF Keeps
      <4> HIDE DEF g
      <4> QED BY <4>2, <4>3
    <3> QED BY <3>1, <3>2
  <2>3. g = [n \in 0 .. m + 1 |-> g[n]]
    OBVIOUS
  <2> HIDE DEF g
  <2>4. g = [n \in 0 .. m + 1 |-> IF n = 0 THEN <<>>
                                  ELSE IF s[n] \in S THEN Append(g[n - 1], s[n]) ELSE g[n - 1]]
    BY <2>2, <2>3
  <2>5. Keeps(s, S, m + 1, g)
    BY <2>4 DEF Keeps
  <2> QED BY <2>5
<1>3. Nat \subseteq I
  <2> HIDE DEF I
  <2> QED BY <1>1, <1>2, NatSetInduction
<1> QED BY <1>3

\* What erasing leaves: the elements in S and no others; the last one is the last
\* of what was there, if it stays.
LEMMA OnlyFacts ==
    ASSUME NEW E, NEW s \in Seq(E), NEW S
    PROVE  /\ Only(s, S) \in Seq(E)
           /\ ToSet(Only(s, S)) = ToSet(s) \cap S
           /\ s # <<>> /\ s[Len(s)] \in S =>
                  Only(s, S) # <<>> /\ Only(s, S)[Len(Only(s, S))] = s[Len(s)]
<1>0. Len(s) \in Nat /\ \A n \in 1 .. Len(s) : s[n] \in E
  BY LenProperties
<1>1. PICK kept : Keeps(s, S, Len(s), kept) /\ Only(s, S) = kept[Len(s)]
  <2> DEFINE k == CHOOSE k : k = [n \in 0 .. Len(s) |-> IF n = 0 THEN <<>>
                                     ELSE IF s[n] \in S THEN Append(k[n - 1], s[n]) ELSE k[n - 1]]
  <2>1. PICK w : Keeps(s, S, Len(s), w)
    BY <1>0, KeepsExists
  <2>2. w = [n \in 0 .. Len(s) |-> IF n = 0 THEN <<>>
                ELSE IF s[n] \in S THEN Append(w[n - 1], s[n]) ELSE w[n - 1]]
    BY <2>1 DEF Keeps
  <2>3. k = [n \in 0 .. Len(s) |-> IF n = 0 THEN <<>>
                ELSE IF s[n] \in S THEN Append(k[n - 1], s[n]) ELSE k[n - 1]]
    BY <2>2, Zenon
  <2>4. Only(s, S) = k[Len(s)]
    BY DEF Only
  <2> HIDE DEF k
  <2> QED BY <2>3, <2>4 DEF Keeps
<1>2. /\ kept[0] = <<>>
      /\ \A n \in 1 .. Len(s) : kept[n] = IF s[n] \in S THEN Append(kept[n - 1], s[n]) ELSE kept[n - 1]
  <2>1. 0 \in 0 .. Len(s) /\ \A n \in 1 .. Len(s) : n \in 0 .. Len(s) /\ n # 0
    BY <1>0
  <2>2. \A n \in 0 .. Len(s) : kept[n] = IF n = 0 THEN <<>>
            ELSE IF s[n] \in S THEN Append(kept[n - 1], s[n]) ELSE kept[n - 1]
    BY <1>1 DEF Keeps
  <2> QED BY <2>1, <2>2
<1> DEFINE Right(n) == /\ kept[n] \in Seq(E)
                       /\ ToSet(kept[n]) = {s[i] : i \in 1 .. n} \cap S
                       /\ n # 0 /\ s[n] \in S => kept[n] # <<>> /\ kept[n][Len(kept[n])] = s[n]
           I == {n \in Nat : n <= Len(s) => Right(n)}
<1>3. 0 \in I
  <2>1. <<>> \in Seq(E) /\ ToSet(<<>>) = {} /\ {s[i] : i \in 1 .. 0} = {}
    BY DEF ToSet
  <2> QED BY <1>2, <2>1
<1>4. ASSUME NEW n \in Nat, n \in I
      PROVE  n + 1 \in I
  <2> SUFFICES ASSUME n + 1 <= Len(s)
               PROVE  Right(n + 1)
    OBVIOUS
  <2>1. n <= Len(s) /\ n + 1 \in 1 .. Len(s) /\ (n + 1) - 1 = n
    BY <1>0
  <2>2. Right(n)
    BY <1>4, <2>1
  <2>3. {s[i] : i \in 1 .. n + 1} = {s[i] : i \in 1 .. n} \cup {s[n + 1]}
    <3>1. \A i : i \in 1 .. n + 1 <=> i \in 1 .. n \/ i = n + 1
      OBVIOUS
    <3> QED BY <3>1
  <2>4. s[n + 1] \in E
    BY <1>0, <2>1
  <2>5. CASE s[n + 1] \in S
    <3>1. PICK t, e : t = kept[n] /\ e = s[n + 1]
      OBVIOUS
    <3>2. kept[n + 1] = Append(t, e)
      BY <1>2, <2>1, <2>5, <3>1
    <3>3. t \in Seq(E) /\ e \in E
      BY <2>2, <2>4, <3>1
    <3>4. /\ Append(t, e) \in Seq(E) /\ Len(Append(t, e)) = Len(t) + 1 /\ Len(t) \in Nat
          /\ \A i \in 1 .. Len(t) : Append(t, e)[i] = t[i]
          /\ Append(t, e)[Len(t) + 1] = e
      BY <3>3, AppendProperties, LenProperties
    <3>5. ToSet(Append(t, e)) = ToSet(t) \cup {e}
      <4>1. DOMAIN t = 1 .. Len(t) /\ DOMAIN Append(t, e) = 1 .. Len(t) + 1
        BY <3>3, <3>4, LenProperties
      <4>2. \A i : i \in 1 .. Len(t) + 1 <=> i \in 1 .. Len(t) \/ i = Len(t) + 1
        BY <3>4
      <4> QED BY <3>4, <4>1, <4>2 DEF ToSet
    <3>6. Append(t, e) # <<>>
      BY <3>4
    <3>7. ToSet(t) = {s[i] : i \in 1 .. n} \cap S
      BY <2>2, <3>1
    <3>8. ToSet(kept[n + 1]) = {s[i] : i \in 1 .. n + 1} \cap S
      BY <2>3, <2>5, <3>1, <3>2, <3>5, <3>7
    <3> QED BY <3>1, <3>2, <3>4, <3>6, <3>8
  <2>6. CASE s[n + 1] \notin S
    <3>1. kept[n + 1] = kept[n]
      BY <1>2, <2>1, <2>6
    <3> QED BY <2>2, <2>3, <2>6, <3>1
  <2> QED BY <2>5, <2>6
<1>5. Right(Len(s))
  <2>1. Nat \subseteq I
    <3> HIDE DEF I
    <3> QED BY <1>3, <1>4, NatSetInduction
  <2> QED BY <1>0, <2>1
<1>6. {s[i] : i \in 1 .. Len(s)} = ToSet(s)
  BY LenProperties DEF ToSet
<1>7. s # <<>> => Len(s) # 0
  BY EmptySeq
<1> QED BY <1>1, <1>5, <1>6, <1>7

\* PrioritySort inserts the entries one by one.
Sorts(s, N, sorted) == sorted = [n \in 0 .. N |-> IF n = 0 THEN <<>>
                                                  ELSE SortInsert(sorted[n - 1], s[n])]

LEMMA SortsExists ==
    ASSUME NEW s, NEW N \in Nat
    PROVE  \E sorted : Sorts(s, N, sorted)
<1> DEFINE I == {m \in Nat : \E sorted : Sorts(s, m, sorted)}
<1>1. 0 \in I
  <2> DEFINE g == [n \in 0 .. 0 |-> <<>>]
  <2>1. \A n \in 0 .. 0 : n = 0
    OBVIOUS
  <2>2. g = [n \in 0 .. 0 |-> IF n = 0 THEN <<>> ELSE SortInsert(g[n - 1], s[n])]
    BY <2>1, Zenon
  <2> HIDE DEF g
  <2> QED BY <2>2 DEF Sorts
<1>2. ASSUME NEW m \in Nat, m \in I
      PROVE  m + 1 \in I
  <2>1. PICK f : Sorts(s, m, f)
    BY <1>2
  <2>2. PICK x : x = SortInsert(f[m], s[m + 1])
    OBVIOUS
  <2> DEFINE g == [n \in 0 .. m + 1 |-> IF n = m + 1 THEN x ELSE f[n]]
  <2>3. ASSUME NEW n \in 0 .. m + 1
        PROVE  g[n] = IF n = 0 THEN <<>> ELSE SortInsert(g[n - 1], s[n])
    <3>1. CASE n = m + 1
      <4>1. n # 0 /\ n - 1 = m /\ m \in 0 .. m + 1 /\ m # m + 1
        BY <3>1
      <4>2. g[n] = x /\ g[n - 1] = f[m]
        BY <3>1, <4>1
      <4> HIDE DEF g
      <4> QED BY <2>2, <3>1, <4>1, <4>2
    <3>2. CASE n # m + 1
      <4>1. n \in 0 .. m /\ (n # 0 => n - 1 \in 0 .. m + 1 /\ n - 1 # m + 1)
        BY <3>2
      <4>2. g[n] = f[n] /\ (n # 0 => g[n - 1] = f[n - 1])
        BY <3>2, <4>1
      <4>3. f[n] = IF n = 0 THEN <<>> ELSE SortInsert(f[n - 1], s[n])
        BY <2>1, <4>1 DEF Sorts
      <4> HIDE DEF g
      <4> QED BY <4>2, <4>3
    <3> QED BY <3>1, <3>2
  <2>4. g = [n \in 0 .. m + 1 |-> g[n]]
    OBVIOUS
  <2> HIDE DEF g
  <2>5. g = [n \in 0 .. m + 1 |-> IF n = 0 THEN <<>> ELSE SortInsert(g[n - 1], s[n])]
    BY <2>3, <2>4
  <2>6. Sorts(s, m + 1, g)
    BY <2>5 DEF Sorts
  <2> QED BY <2>6
<1>3. Nat \subseteq I
  <2> HIDE DEF I
  <2> QED BY <1>1, <1>2, NatSetInduction
<1> QED BY <1>3

\* An element put behind the k-th one.
LEMMA InsertFacts ==
    ASSUME NEW E, NEW s \in Seq(E), NEW x \in E, NEW k \in 0 .. Len(s)
    PROVE  /\ InsertAt(s, k + 1, x) \in Seq(E)
           /\ ToSet(InsertAt(s, k + 1, x)) = ToSet(s) \cup {x}
           /\ Len(InsertAt(s, k + 1, x)) = Len(s) + 1
           /\ InsertAt(s, k + 1, x)[k + 1] = x
<1> DEFINE a == SubSeq(s, 1, k)
           b == SubSeq(s, k + 1, Len(s))
           t == InsertAt(s, k + 1, x)
<1>0. Len(s) \in Nat /\ k \in Nat /\ (k + 1) - 1 = k /\ \A i \in 1 .. Len(s) : s[i] \in E
  BY LenProperties
<1>1. a \in Seq(E) /\ Len(a) = k /\ \A i \in 1 .. k : a[i] = s[i]
  <2>1. 1 \in Int /\ k \in Int /\ (\A i \in 1 .. k : s[i] \in E) /\ k - 1 + 1 = k /\ (~(1 <= k) => k = 0)
        /\ \A i \in 1 .. k : 1 + i - 1 = i
    BY <1>0
  <2>2. /\ a \in Seq(E) /\ Len(a) = IF 1 <= k THEN k - 1 + 1 ELSE 0
        /\ \A i \in 1 .. k - 1 + 1 : a[i] = s[1 + i - 1]
    BY <2>1, SubSeqProperties
  <2> QED BY <2>1, <2>2
<1>2. b \in Seq(E) /\ Len(b) = Len(s) - k /\ \A i \in 1 .. Len(s) - k : b[i] = s[k + i]
  <2>0. PICK m, n : m = k + 1 /\ n = Len(s)
    OBVIOUS
  <2>1. /\ m \in Int /\ n \in Int /\ (\A i \in m .. n : s[i] \in E)
        /\ n - m + 1 = n - k /\ (~(m <= n) => n - k = 0)
        /\ \A i \in 1 .. n - k : m + i - 1 = k + i
    BY <1>0, <2>0
  <2>2. /\ SubSeq(s, m, n) \in Seq(E) /\ Len(SubSeq(s, m, n)) = IF m <= n THEN n - m + 1 ELSE 0
        /\ \A i \in 1 .. n - m + 1 : SubSeq(s, m, n)[i] = s[m + i - 1]
    BY <2>1, SubSeqProperties
  <2> QED BY <2>0, <2>1, <2>2
<1>3. t = a \o <<x>> \o b
  BY <1>0 DEF InsertAt
<1> HIDE DEF a, b, t
<1>4. <<x>> \in Seq(E) /\ Len(<<x>>) = 1 /\ <<x>>[1] = x
  OBVIOUS
<1>5. /\ a \o <<x>> \in Seq(E) /\ Len(a \o <<x>>) = k + 1
      /\ \A i \in 1 .. k : (a \o <<x>>)[i] = s[i]
      /\ (a \o <<x>>)[k + 1] = x
  <2>1. \A i \in 1 .. k + 1 : (a \o <<x>>)[i] = IF i <= k THEN a[i] ELSE <<x>>[i - k]
    BY <1>1, <1>4, ConcatProperties
  <2>2. k + 1 \in 1 .. k + 1 /\ ~(k + 1 <= k) /\ (k + 1) - k = 1
    BY <1>0
  <2>3. \A i \in 1 .. k : i \in 1 .. k + 1 /\ i <= k
    BY <1>0
  <2>4. a \o <<x>> \in Seq(E) /\ Len(a \o <<x>>) = k + 1
    BY <1>1, <1>4, ConcatProperties
  <2> QED BY <1>1, <1>4, <2>1, <2>2, <2>3, <2>4
<1>6. /\ t \in Seq(E) /\ Len(t) = Len(s) + 1
      /\ \A i \in 1 .. k : t[i] = s[i]
      /\ t[k + 1] = x
      /\ \A i \in k + 1 .. Len(s) : t[i + 1] = s[i]
  <2>1. PICK c : c = a \o <<x>>
    OBVIOUS
  <2>2. /\ t \in Seq(E) /\ Len(t) = (k + 1) + (Len(s) - k)
        /\ \A i \in 1 .. (k + 1) + (Len(s) - k) : t[i] = IF i <= k + 1 THEN c[i] ELSE b[i - (k + 1)]
    <3>1. c \in Seq(E) /\ Len(c) = k + 1 /\ b \in Seq(E) /\ Len(b) = Len(s) - k /\ t = c \o b
      BY <1>2, <1>3, <1>5, <2>1
    <3>2. /\ c \o b \in Seq(E) /\ Len(c \o b) = Len(c) + Len(b)
          /\ \A i \in 1 .. Len(c) + Len(b) : (c \o b)[i] = IF i <= Len(c) THEN c[i] ELSE b[i - Len(c)]
      BY <3>1, ConcatProperties
    <3> QED BY <3>1, <3>2
  <2>3. (k + 1) + (Len(s) - k) = Len(s) + 1
    BY <1>0
  <2>4. \A i \in 1 .. k : i \in 1 .. Len(s) + 1 /\ i <= k + 1
    BY <1>0
  <2>5. k + 1 \in 1 .. Len(s) + 1 /\ k + 1 <= k + 1
    BY <1>0
  <2>6. \A i \in k + 1 .. Len(s) : /\ i + 1 \in 1 .. Len(s) + 1 /\ ~(i + 1 <= k + 1)
                                   /\ (i + 1) - (k + 1) \in 1 .. Len(s) - k
                                   /\ k + ((i + 1) - (k + 1)) = i
    BY <1>0
  <2>7. \A i \in 1 .. k : t[i] = s[i]
    BY <1>5, <2>1, <2>2, <2>3, <2>4
  <2>8. t[k + 1] = x
    BY <1>5, <2>1, <2>2, <2>3, <2>5
  <2>9. ASSUME NEW i \in k + 1 .. Len(s) PROVE t[i + 1] = s[i]
    <3>1. t[i + 1] = b[(i + 1) - (k + 1)]
      BY <2>2, <2>3, <2>6
    <3>2. b[(i + 1) - (k + 1)] = s[k + ((i + 1) - (k + 1))]
      BY <1>2, <2>6
    <3> QED BY <2>6, <3>1, <3>2
  <2> QED BY <2>2, <2>3, <2>7, <2>8, <2>9
<1>7. ToSet(t) = ToSet(s) \cup {x}
  <2>1. ToSet(t) = {t[i] : i \in 1 .. Len(s) + 1} /\ ToSet(s) = {s[i] : i \in 1 .. Len(s)}
    BY <1>6, LenProperties DEF ToSet
  <2>2. ASSUME NEW i \in 1 .. Len(s) + 1 PROVE t[i] \in ToSet(s) \cup {x}
    <3>1. CASE i \in 1 .. k
      BY <1>0, <1>6, <2>1, <3>1
    <3>2. CASE i = k + 1
      BY <1>6, <3>2
    <3>3. CASE i > k + 1
      <4>1. i - 1 \in k + 1 .. Len(s) /\ (i - 1) + 1 = i /\ i - 1 \in 1 .. Len(s)
        BY <1>0, <3>3
      <4>2. t[i] = s[i - 1]
        BY <1>6, <4>1
      <4> QED BY <2>1, <4>1, <4>2
    <3> QED BY <1>0, <3>1, <3>2, <3>3
  <2>3. ASSUME NEW i \in 1 .. Len(s) PROVE s[i] \in ToSet(t)
    <3>1. CASE i \in 1 .. k
      <4>1. t[i] = s[i] /\ i \in 1 .. Len(s) + 1
        BY <1>0, <1>6, <3>1
      <4> QED BY <2>1, <4>1
    <3>2. CASE i \in k + 1 .. Len(s)
      <4>1. t[i + 1] = s[i] /\ i + 1 \in 1 .. Len(s) + 1
        BY <1>0, <1>6, <3>2
      <4> QED BY <2>1, <4>1
    <3> QED BY <1>0, <3>1, <3>2
  <2>4. x \in ToSet(t)
    <3>1. k + 1 \in 1 .. Len(s) + 1
      BY <1>0
    <3> QED BY <1>6, <2>1, <3>1
  <2> QED BY <2>1, <2>2, <2>3, <2>4
<1> QED BY <1>6, <1>7 DEF t

\* SortInsert puts an entry somewhere; the backup folder, which comes before no
\* other entry, at the end.
LEMMA SortInsertFacts ==
    ASSUME NEW E, NEW s \in Seq(E), NEW x \in E
    PROVE  /\ SortInsert(s, x) \in Seq(E)
           /\ ToSet(SortInsert(s, x)) = ToSet(s) \cup {x}
           /\ SortInsert(s, x) # <<>>
           /\ x.id = BackupId => SortInsert(s, x)[Len(SortInsert(s, x))] = x
<1>0. Len(s) \in Nat /\ (s # <<>> => Len(s) # 0) /\ (s = <<>> => Len(s) = 0)
  BY LenProperties, EmptySeq
<1>1. x.id = BackupId => \A y : ~PriorityLess(x, y)
  BY DEF PriorityLess
<1>2. CASE s = <<>> \/ PriorityLess(x, s[1])
  <2>1. SortInsert(s, x) = <<x>> \o s
    BY <1>2 DEF SortInsert
  <2>2. PICK z : z = <<x>>
    OBVIOUS
  <2>3. z \in Seq(E) /\ Len(z) = 1 /\ z[1] = x
    BY <2>2
  <2>4. PICK t : t = z \o s
    OBVIOUS
  <2>5. /\ t \in Seq(E) /\ Len(t) = 1 + Len(s)
        /\ \A i \in 1 .. 1 + Len(s) : t[i] = IF i <= 1 THEN z[i] ELSE s[i - 1]
    <3>1. /\ z \o s \in Seq(E) /\ Len(z \o s) = Len(z) + Len(s)
          /\ \A i \in 1 .. Len(z) + Len(s) : (z \o s)[i] = IF i <= Len(z) THEN z[i] ELSE s[i - Len(z)]
      BY <2>3, ConcatProperties
    <3> QED BY <2>3, <2>4, <3>1
  <2>6. ToSet(t) = {t[i] : i \in 1 .. 1 + Len(s)} /\ ToSet(s) = {s[i] : i \in 1 .. Len(s)}
    BY <2>5, LenProperties DEF ToSet
  <2>7. ASSUME NEW i \in 1 .. 1 + Len(s) PROVE t[i] \in ToSet(s) \cup {x}
    <3>1. CASE i = 1
      BY <1>0, <2>3, <2>5, <3>1
    <3>2. CASE i # 1
      <4>1. i - 1 \in 1 .. Len(s) /\ t[i] = s[i - 1]
        BY <1>0, <2>5, <3>2
      <4> QED BY <2>6, <4>1
    <3> QED BY <3>1, <3>2
  <2>8. ASSUME NEW i \in 1 .. Len(s) PROVE s[i] \in ToSet(t)
    <3>1. i + 1 \in 1 .. 1 + Len(s) /\ ~(i + 1 <= 1) /\ (i + 1) - 1 = i
      BY <1>0
    <3>2. t[i + 1] = s[i]
      BY <2>5, <3>1
    <3> QED BY <2>6, <3>1, <3>2
  <2>9. 1 \in 1 .. 1 + Len(s) /\ t[1] = x
    BY <1>0, <2>3, <2>5
  <2>10. ToSet(t) = ToSet(s) \cup {x} /\ t # <<>>
    <3>1. x \in ToSet(t)
      BY <2>6, <2>9
    <3>2. t # <<>>
      BY <1>0, <2>5
    <3> QED BY <2>6, <2>7, <2>8, <3>1, <3>2
  <2>11. x.id = BackupId => t[Len(t)] = x
    <3>1. x.id = BackupId => Len(s) = 0
      BY <1>0, <1>1, <1>2
    <3> QED BY <1>0, <2>5, <2>9, <3>1
  <2> QED BY <2>1, <2>2, <2>4, <2>5, <2>10, <2>11
<1>3. CASE ~(s = <<>> \/ PriorityLess(x, s[1]))
  <2> DEFINE Stop(i) == /\ ~PriorityLess(x, s[i])
                        /\ \A j \in DOMAIN s : j > i => PriorityLess(x, s[j])
             k == CHOOSE i \in DOMAIN s : Stop(i)
  <2>1. SortInsert(s, x) = InsertAt(s, k + 1, x)
    BY <1>3 DEF SortInsert
  <2>2. DOMAIN s = 1 .. Len(s) /\ 1 \in 1 .. Len(s)
    BY <1>0, <1>3, LenProperties
  <2>3. \E i \in DOMAIN s : Stop(i)
    <3> DEFINE B == {i \in 1 .. Len(s) : ~PriorityLess(x, s[i])}
    <3>1. B \in SUBSET (0 .. Len(s)) /\ B # {}
      BY <1>3, <2>2
    <3>2. PICK i \in B : \A j \in B : j <= i
      <4> HIDE DEF B
      <4> QED BY <1>0, <3>1, GreatestNumber
    <3>3. ASSUME NEW j \in 1 .. Len(s), j > i
          PROVE  PriorityLess(x, s[j])
      BY <3>2, <3>3
    <3>4. i \in 1 .. Len(s) /\ ~PriorityLess(x, s[i])
      BY <3>2
    <3> QED BY <2>2, <3>3, <3>4
  <2>4. k \in DOMAIN s /\ Stop(k)
    BY <2>3
  <2>5. x.id = BackupId => k = Len(s)
    <3> SUFFICES ASSUME x.id = BackupId, k # Len(s)
                 PROVE  FALSE
      OBVIOUS
    <3>1. Len(s) \in DOMAIN s /\ Len(s) > k
      BY <1>0, <2>2, <2>4
    <3>2. PriorityLess(x, s[Len(s)])
      BY <2>4, <3>1
    <3> QED BY <1>1, <3>2
  <2> HIDE DEF k
  <2>6. PICK t : t = InsertAt(s, k + 1, x)
    OBVIOUS
  <2>7. k \in 0 .. Len(s)
    BY <2>2, <2>4
  <2>8. t \in Seq(E) /\ ToSet(t) = ToSet(s) \cup {x} /\ Len(t) = Len(s) + 1 /\ t[k + 1] = x
    <3>1. PICK i : i = k
      OBVIOUS
    <3>2. i \in 0 .. Len(s)
      BY <2>7, <3>1
    <3>3. InsertAt(s, i + 1, x) \in Seq(E)
      BY <3>2, InsertFacts
    <3>4. ToSet(InsertAt(s, i + 1, x)) = ToSet(s) \cup {x}
      BY <3>2, InsertFacts
    <3>5. Len(InsertAt(s, i + 1, x)) = Len(s) + 1
      BY <3>2, InsertFacts
    <3>6. InsertAt(s, i + 1, x)[i + 1] = x
      BY <3>2, InsertFacts
    <3> QED BY <2>6, <3>1, <3>3, <3>4, <3>5, <3>6
  <2>9. t # <<>>
    BY <1>0, <2>8
  <2> QED BY <2>1, <2>5, <2>6, <2>8, <2>9
<1> QED BY <1>2, <1>3

\* The sort loses nothing, adds nothing, and leaves the backup folder at the end.
LEMMA SortFacts ==
    ASSUME NEW E, NEW s \in Seq(E), NEW sorted, Sorts(s, Len(s), sorted)
    PROVE  /\ sorted[Len(s)] \in Seq(E) /\ ToSet(sorted[Len(s)]) = ToSet(s)
           /\ s # <<>> /\ s[Len(s)].id = BackupId =>
                  /\ sorted[Len(s)] # <<>>
                  /\ sorted[Len(s)][Len(sorted[Len(s)])] = s[Len(s)]
<1>0. Len(s) \in Nat /\ \A n \in 1 .. Len(s) : s[n] \in E
  BY LenProperties
<1>1. /\ sorted[0] = <<>>
      /\ \A n \in 1 .. Len(s) : sorted[n] = SortInsert(sorted[n - 1], s[n])
  <2>1. 0 \in 0 .. Len(s) /\ \A n \in 1 .. Len(s) : n \in 0 .. Len(s) /\ n # 0
    BY <1>0
  <2>2. \A n \in 0 .. Len(s) : sorted[n] = IF n = 0 THEN <<>> ELSE SortInsert(sorted[n - 1], s[n])
    BY DEF Sorts
  <2> QED BY <2>1, <2>2
<1> DEFINE Right(n) == /\ sorted[n] \in Seq(E)
                       /\ ToSet(sorted[n]) = {s[i] : i \in 1 .. n}
                       /\ n # 0 /\ s[n].id = BackupId =>
                             sorted[n] # <<>> /\ sorted[n][Len(sorted[n])] = s[n]
           I == {n \in Nat : n <= Len(s) => Right(n)}
<1>2. 0 \in I
  <2>1. <<>> \in Seq(E) /\ ToSet(<<>>) = {} /\ {s[i] : i \in 1 .. 0} = {}
    BY DEF ToSet
  <2> QED BY <1>1, <2>1
<1>3. ASSUME NEW n \in Nat, n \in I
      PROVE  n + 1 \in I
  <2> SUFFICES ASSUME n + 1 <= Len(s)
               PROVE  Right(n + 1)
    OBVIOUS
  <2>1. n <= Len(s) /\ n + 1 \in 1 .. Len(s) /\ (n + 1) - 1 = n
    BY <1>0
  <2>2. Right(n)
    BY <1>3, <2>1
  <2>3. {s[i] : i \in 1 .. n + 1} = {s[i] : i \in 1 .. n} \cup {s[n + 1]}
    <3>1. \A i : i \in 1 .. n + 1 <=> i \in 1 .. n \/ i = n + 1
      OBVIOUS
    <3> QED BY <3>1
  <2>4. PICK t, e, r : t = sorted[n] /\ e = s[n + 1] /\ r = SortInsert(t, e)
    OBVIOUS
  <2>5. t \in Seq(E) /\ e \in E
    BY <1>0, <2>1, <2>2, <2>4
  <2>6. /\ r \in Seq(E) /\ ToSet(r) = ToSet(t) \cup {e} /\ r # <<>>
        /\ e.id = BackupId => r[Len(r)] = e
    <3>1. /\ SortInsert(t, e) \in Seq(E)
          /\ ToSet(SortInsert(t, e)) = ToSet(t) \cup {e}
          /\ SortInsert(t, e) # <<>>
          /\ e.id = BackupId => SortInsert(t, e)[Len(SortInsert(t, e))] = e
      BY <2>5, SortInsertFacts
    <3> QED BY <2>4, <3>1
  <2>7. sorted[n + 1] = r
    BY <1>1, <2>1, <2>4
  <2>8. ToSet(t) = {s[i] : i \in 1 .. n}
    BY <2>2, <2>4
  <2> QED BY <2>3, <2>4, <2>6, <2>7, <2>8
<1>4. Right(Len(s))
  <2>1. Nat \subseteq I
    <3> HIDE DEF I
    <3> QED BY <1>2, <1>3, NatSetInduction
  <2>2. Len(s) \in I
    BY <1>0, <2>1
  <2>3. Len(s) <= Len(s)
    BY <1>0
  <2> QED BY <2>2, <2>3
<1>5. {s[i] : i \in 1 .. Len(s)} = ToSet(s)
  BY LenProperties DEF ToSet
<1>6. s # <<>> => Len(s) # 0
  BY EmptySeq
<1> QED BY <1>4, <1>5, <1>6

-----------------------------------------------------------------------------
\* The operators of the filters.

\* Folders with different ids have different places in the order of the ids, and
\* so every place is taken: the list holds the folders of the set.
LEMMA ByIdFacts ==
    ASSUME NEW fs, IsFiniteSet(fs), \A f \in fs : f.id \in Nat,
           \A f, g \in fs : f.id = g.id => f = g
    PROVE  /\ ToSet(ById(fs)) = fs
           /\ \A E : fs \subseteq E => ById(fs) \in Seq(E)
<1> DEFINE n == Cardinality(fs)
           Lower(f) == {g \in fs : g.id < f.id}
           r == [f \in fs |-> Cardinality(Lower(f)) + 1]
<1>1. n \in Nat
  BY FS_CardinalityType
<1>2. ASSUME NEW f \in fs
      PROVE  /\ IsFiniteSet(Lower(f)) /\ Cardinality(Lower(f)) \in Nat
             /\ Cardinality(Lower(f)) < n
  <2>1. Lower(f) \in SUBSET (fs \ {f})
    OBVIOUS
  <2>2. IsFiniteSet(fs \ {f}) /\ Cardinality(fs \ {f}) = n - 1
    BY FS_RemoveElement
  <2> HIDE DEF Lower
  <2>3. IsFiniteSet(Lower(f)) /\ Cardinality(Lower(f)) <= n - 1
    BY <2>1, <2>2, FS_Subset
  <2>4. Cardinality(Lower(f)) \in Nat
    BY <2>3, FS_CardinalityType
  <2> QED BY <1>1, <2>3, <2>4
<1>3. ASSUME NEW f \in fs, NEW g \in fs, f.id < g.id
      PROVE  Cardinality(Lower(f)) < Cardinality(Lower(g))
  <2>1. Lower(f) \cup {f} \in SUBSET Lower(g) /\ f \notin Lower(f)
    BY <1>3
  <2>2. /\ IsFiniteSet(Lower(f)) /\ IsFiniteSet(Lower(g))
        /\ Cardinality(Lower(f)) \in Nat /\ Cardinality(Lower(g)) \in Nat
    BY <1>2
  <2> HIDE DEF Lower
  <2>3. Cardinality(Lower(f) \cup {f}) = Cardinality(Lower(f)) + 1
    BY <2>1, <2>2, FS_AddElement
  <2>4. Cardinality(Lower(f) \cup {f}) <= Cardinality(Lower(g))
    BY <2>1, <2>2, FS_Subset
  <2> QED BY <2>2, <2>3, <2>4
<1>4. ASSUME NEW f \in fs, NEW g \in fs, Cardinality(Lower(f)) = Cardinality(Lower(g))
      PROVE  f = g
  <2>1. Cardinality(Lower(f)) \in Nat /\ Cardinality(Lower(g)) \in Nat
    BY <1>2
  <2>2. ~(f.id < g.id) /\ ~(g.id < f.id)
    <3> HIDE DEF Lower
    <3> QED BY <1>3, <1>4, <2>1
  <2>3. f.id = g.id
    BY <2>2
  <2> QED BY <2>3
<1>5. r \in Injection(fs, 1 .. n)
  <2>1. ASSUME NEW f \in fs PROVE r[f] = Cardinality(Lower(f)) + 1 /\ r[f] \in 1 .. n
    <3>1. Cardinality(Lower(f)) + 1 \in 1 .. n
      <4> HIDE DEF Lower
      <4> QED BY <1>1, <1>2
    <3> QED BY <3>1
  <2>2. r \in [fs -> 1 .. n]
    <3> HIDE DEF Lower
    <3> QED BY <2>1
  <2>3. ASSUME NEW f \in fs, NEW g \in fs, r[f] = r[g] PROVE f = g
    <3>1. Cardinality(Lower(f)) = Cardinality(Lower(g))
      <4>1. Cardinality(Lower(f)) \in Nat /\ Cardinality(Lower(g)) \in Nat
        BY <1>2
      <4>2. r[f] = Cardinality(Lower(f)) + 1 /\ r[g] = Cardinality(Lower(g)) + 1
        BY <2>1
      <4>3. Cardinality(Lower(f)) + 1 = Cardinality(Lower(g)) + 1
        <5> HIDE DEF r, Lower
        <5> QED BY <2>3, <4>2
      <4> HIDE DEF r, Lower
      <4> QED BY <4>1, <4>3
    <3> HIDE DEF Lower
    <3> QED BY <1>4, <3>1
  <2> HIDE DEF r
  <2> QED BY <2>2, <2>3 DEF Injection, IsInjective
<1>6. r \in Surjection(fs, 1 .. n)
  <2>1. IsFiniteSet(1 .. n) /\ Cardinality(1 .. n) = n
    <3>1. 1 \in Int /\ n \in Int /\ (IF 1 > n THEN 0 ELSE n - 1 + 1) = n
      BY <1>1
    <3> HIDE DEF n
    <3> QED BY <3>1, FS_Interval
  <2> HIDE DEF r
  <2> QED BY <1>5, <2>1, FS_Injection
<1>7. ASSUME NEW i \in 1 .. n
      PROVE  ById(fs)[i] \in fs /\ Cardinality(Lower(ById(fs)[i])) = i - 1
  <2>1. PICK f \in fs : r[f] = i
    <3> HIDE DEF r
    <3> QED BY <1>6 DEF Surjection
  <2>2. Cardinality(Lower(f)) = i - 1
    <3>1. r[f] = Cardinality(Lower(f)) + 1 /\ Cardinality(Lower(f)) \in Nat
      BY <1>2
    <3> HIDE DEF r, Lower
    <3> QED BY <2>1, <3>1
  <2>3. ById(fs)[i] = CHOOSE g \in fs : Cardinality(Lower(g)) = i - 1
    BY DEF ById
  <2> HIDE DEF Lower
  <2> QED BY <2>2, <2>3
<1>8. DOMAIN ById(fs) = 1 .. n
  BY DEF ById
<1>9. ASSUME NEW f \in fs
      PROVE  \E i \in 1 .. n : ById(fs)[i] = f
  <2>1. PICK i : i = Cardinality(Lower(f)) + 1
    OBVIOUS
  <2>2. i \in 1 .. n /\ i - 1 = Cardinality(Lower(f))
    <3>1. Cardinality(Lower(f)) \in Nat /\ Cardinality(Lower(f)) < n
      BY <1>2
    <3> HIDE DEF Lower
    <3> QED BY <1>1, <2>1, <3>1
  <2>3. ById(fs)[i] \in fs /\ Cardinality(Lower(ById(fs)[i])) = Cardinality(Lower(f))
    BY <1>7, <2>2
  <2>4. ById(fs)[i] = f
    <3> HIDE DEF Lower
    <3> QED BY <1>4, <2>3
  <2> QED BY <2>2, <2>4
<1>10. ToSet(ById(fs)) = fs
  <2> HIDE DEF n, Lower, r
  <2> QED BY <1>7, <1>8, <1>9 DEF ToSet
<1>11. ASSUME NEW E, fs \subseteq E
       PROVE  ById(fs) \in Seq(E)
  <2>1. \A i \in 1 .. n : ById(fs)[i] \in E
    BY <1>7, <1>11
  <2>2. PICK b : b = ById(fs)
    OBVIOUS
  <2>3. b = [i \in 1 .. n |-> b[i]]
    <3>1. ById(fs) = [i \in 1 .. n |-> CHOOSE f \in fs : Cardinality(Lower(f)) = i - 1]
      BY DEF ById
    <3> HIDE DEF n, Lower
    <3> QED BY <2>2, <3>1
  <2>4. b \in [1 .. n -> E]
    <3> HIDE DEF n
    <3> QED BY <2>1, <2>2, <2>3
  <2> HIDE DEF n
  <2> QED BY <1>1, <2>2, <2>4, SeqDef
<1> QED BY <1>10, <1>11

\* The first entry with an id, or with a name, is one of the list.
LEMMA FirstFacts ==
    ASSUME NEW E, folders \in Seq(E)
    PROVE  /\ \A id : HasId(id) => InfoById(id) \in Entries /\ InfoById(id).id = id
           /\ \A p : HasName(p) => InfoByName(p) \in Entries /\ InfoByName(p).name = p
<1>0. Len(folders) \in Nat /\ DOMAIN folders = 1 .. Len(folders) /\ Entries = {folders[i] : i \in 1 .. Len(folders)}
  BY LenProperties DEF Entries, ToSet
<1>1. ASSUME NEW I \in SUBSET (1 .. Len(folders)), I # {}
      PROVE  Min(I) \in I
  <2>1. I \in SUBSET Nat
    BY <1>0
  <2>2. \E x \in I : \A y \in I : x <= y
    BY <1>1, <2>1, LeastNumber
  <2> QED BY <2>2 DEF Min
<1>2. ASSUME NEW id, HasId(id)
      PROVE  InfoById(id) \in Entries /\ InfoById(id).id = id
  <2> DEFINE I == {i \in 1 .. Len(folders) : folders[i].id = id}
  <2>1. I \in SUBSET (1 .. Len(folders)) /\ I # {}
    BY <1>0, <1>2 DEF HasId
  <2>2. InfoById(id) = folders[Min(I)]
    BY <2>1 DEF InfoById, SelectInSeq
  <2>3. Min(I) \in I
    <3> HIDE DEF I
    <3> QED BY <1>1, <2>1
  <2> QED BY <1>0, <2>2, <2>3
<1>3. ASSUME NEW p, HasName(p)
      PROVE  InfoByName(p) \in Entries /\ InfoByName(p).name = p
  <2> DEFINE I == {i \in 1 .. Len(folders) : folders[i].name = p}
  <2>1. I \in SUBSET (1 .. Len(folders)) /\ I # {}
    BY <1>0, <1>3 DEF HasName
  <2>2. InfoByName(p) = folders[Min(I)]
    BY <2>1 DEF InfoByName, SelectInSeq
  <2>3. Min(I) \in I
    <3> HIDE DEF I
    <3> QED BY <1>1, <2>1
  <2> QED BY <1>0, <2>2, <2>3
<1> QED BY <1>2, <1>3

-----------------------------------------------------------------------------
\* The inductive invariant: what the list and the mails are before each filter,
\* in terms of the folder tree and the archive the analysis started from.
Paths == Seq(DOMAIN Utf7) \ {<<>>}
Entry == [id : Nat, name : Paths, utf7name : Seq({Utf7[n] : n \in DOMAIN Utf7})]

\* A folder as it is listed, renamed and encoded.
Listed(f)  == [id |-> f.id, name |-> f.path, utf7name |-> <<>>]
Renamed(f) == [id |-> f.id, name |-> SentMessages(f.path), utf7name |-> <<>>]
Ready(f)   == [id |-> f.id, name |-> SentMessages(f.path),
               utf7name |-> Encoded(SentMessages(f.path))]

\* The folders that are kept, and those of them that can be encoded.
Kept == {f \in tree : Necessary(f)}
Fine == {f \in Kept : Encodable(Renamed(f))}

TreeInv == tree \subseteq Pool /\ IsTree(tree)

FolderInv ==
    /\ folders \in Seq(Entry)
    /\ phase = "remove" => Entries = {Listed(f) : f \in tree}
    /\ phase \in {"limit", "rename"} => Entries = {Listed(f) : f \in Kept}
    /\ phase = "encode" => Entries = {Renamed(f) : f \in Kept}
    /\ phase \in {"replace", "fill"} =>
           /\ replaced = Ids(Kept \ Fine)
           /\ Entries = {Ready(f) : f \in Fine} \cup (IF replaced = {} THEN {} ELSE {Backup})
    /\ phase \in {"sort", "done"} => Entries \subseteq {Ready(f) : f \in Fine} \cup {Backup}

BackupInv ==
    phase \in {"replace", "fill", "sort", "done"} =>
        IF replaced = {} THEN \A e \in Entries : e.id # BackupId
        ELSE folders # <<>> /\ folders[Len(folders)] = Backup

MailInv ==
    /\ archive \in [DOMAIN archive -> [folder_id : Ids(tree), date : Dates]]
    /\ DOMAIN mails \subseteq DOMAIN archive
    /\ phase \in {"remove", "limit", "rename", "encode", "replace"} =>
           mails = [m \in DOMAIN mails |-> archive[m]]
    /\ phase = "fill" =>
           /\ counted = {mails[m].folder_id : m \in DOMAIN mails}
           /\ \A m \in DOMAIN mails :
                  mails[m].folder_id = IF archive[m].folder_id \in replaced
                                       THEN BackupId ELSE archive[m].folder_id

\* The folder of a mail is listed with all the folders above it, and what is
\* counted is not removed.
TargetInv ==
    phase \in {"sort", "done"} =>
        \A m \in DOMAIN mails : \E e \in Entries :
            /\ e.id = mails[m].folder_id /\ e.id \in counted
            /\ \A p \in Ancestors(e.name) : \E g \in Entries : g.name = p /\ g.id \in counted

FilterInv ==
    /\ phase \in {"remove", "limit", "rename", "encode", "replace", "fill", "sort", "done", "dead"}
    /\ TreeInv /\ FolderInv /\ BackupInv /\ MailInv /\ TargetInv /\ DiesOnlyForRemovedFolder

-----------------------------------------------------------------------------
\* The names of the folders.

\* Renaming /Sent keeps the depth, and whatever is above a renamed folder is the
\* renaming of what was above it.
LEMMA SentFacts ==
    ASSUME NEW p \in Paths
    PROVE  /\ SentMessages(p) \in Paths /\ Len(SentMessages(p)) = Len(p)
           /\ \A n \in 1 .. Len(p) : /\ SubSeq(p, 1, n) \in Paths
                                     /\ Len(SubSeq(p, 1, n)) = n
                                     /\ SubSeq(SentMessages(p), 1, n) = SentMessages(SubSeq(p, 1, n))
<1> DEFINE D == DOMAIN Utf7
<1>0. /\ p \in Seq(D) /\ Len(p) \in Nat /\ Len(p) >= 1 /\ DOMAIN p = 1 .. Len(p)
      /\ 1 \in 1 .. Len(p) /\ \A i \in 1 .. Len(p) : p[i] \in D
  BY EmptySeq, LenProperties DEF Paths
<1>1. "Sent Messages" \in D
  BY AnalysisAssumption
<1> HIDE DEF D
<1>2. PICK q : q = SentMessages(p)
  OBVIOUS
<1>3. \A i \in 1 .. Len(p) : q[i] = IF i = 1 /\ p[1] = "Sent" THEN "Sent Messages" ELSE p[i]
  BY <1>0, <1>2 DEF SentMessages
<1>4. q \in Seq(D) /\ Len(q) = Len(p) /\ DOMAIN q = 1 .. Len(p) /\ q # <<>>
  <2>1. p[1] = "Sent" => q = [p EXCEPT ![1] = "Sent Messages"]
    BY <1>2 DEF SentMessages
  <2>2. p[1] # "Sent" => q = p
    BY <1>2 DEF SentMessages
  <2>3. q \in Seq(D) /\ Len(q) = Len(p)
    <3>1. [p EXCEPT ![1] = "Sent Messages"] \in Seq(D)
      BY <1>0, <1>1, ExceptSeq
    <3>2. Len([p EXCEPT ![1] = "Sent Messages"]) = Len(p)
      <4>1. PICK w : w = [p EXCEPT ![1] = "Sent Messages"]
        OBVIOUS
      <4>2. DOMAIN w = 1 .. Len(p) /\ DOMAIN w = 1 .. Len(w) /\ Len(w) \in Nat
        BY <1>0, <3>1, <4>1, LenProperties
      <4>3. PICK l, m : l = Len(p) /\ m = Len(w)
        OBVIOUS
      <4>4. l \in Nat /\ l >= 1 /\ m \in Nat /\ 1 .. l = 1 .. m
        BY <1>0, <4>2, <4>3
      <4>5. l \in 1 .. m /\ (m >= 1 => m \in 1 .. l)
        BY <4>4
      <4>6. l = m
        BY <4>4, <4>5
      <4> QED BY <4>1, <4>3, <4>6
    <3> QED BY <1>0, <2>1, <2>2, <3>1, <3>2
  <2> QED BY <1>0, <2>3, LenProperties, EmptySeq
<1>5. ASSUME NEW n \in 1 .. Len(p)
      PROVE  /\ SubSeq(p, 1, n) \in Paths /\ Len(SubSeq(p, 1, n)) = n
             /\ SubSeq(q, 1, n) = SentMessages(SubSeq(p, 1, n))
  <2>1. /\ 1 \in Int /\ n \in Int /\ n - 1 + 1 = n /\ 1 <= n /\ 1 \in 1 .. n
        /\ \A i \in 1 .. n : i \in 1 .. Len(p) /\ 1 + i - 1 = i
    BY <1>0
  <2>2. PICK a, b : a = SubSeq(p, 1, n) /\ b = SubSeq(q, 1, n)
    OBVIOUS
  <2>3. a \in Seq(D) /\ Len(a) = n /\ DOMAIN a = 1 .. n /\ \A i \in 1 .. n : a[i] = p[i]
    <3>1. \A i \in 1 .. n : p[i] \in D
      BY <1>0, <2>1
    <3>2. /\ SubSeq(p, 1, n) \in Seq(D) /\ Len(SubSeq(p, 1, n)) = IF 1 <= n THEN n - 1 + 1 ELSE 0
          /\ \A i \in 1 .. n - 1 + 1 : SubSeq(p, 1, n)[i] = p[1 + i - 1]
      BY <2>1, <3>1, SubSeqProperties
    <3> QED BY <2>1, <2>2, <3>2, LenProperties
  <2>4. b \in Seq(D) /\ Len(b) = n /\ DOMAIN b = 1 .. n /\ \A i \in 1 .. n : b[i] = q[i]
    <3>1. \A i \in 1 .. n : q[i] \in D
      BY <1>4, <2>1, ElementOfSeq
    <3>2. /\ SubSeq(q, 1, n) \in Seq(D) /\ Len(SubSeq(q, 1, n)) = IF 1 <= n THEN n - 1 + 1 ELSE 0
          /\ \A i \in 1 .. n - 1 + 1 : SubSeq(q, 1, n)[i] = q[1 + i - 1]
      BY <2>1, <3>1, SubSeqProperties
    <3> QED BY <2>1, <2>2, <3>2, LenProperties
  <2>5. PICK c : c = SentMessages(a)
    OBVIOUS
  <2>6. c \in Seq(D) /\ Len(c) = n
    <3>1. a[1] = "Sent" => c = [a EXCEPT ![1] = "Sent Messages"]
      BY <2>5 DEF SentMessages
    <3>2. a[1] # "Sent" => c = a
      BY <2>5 DEF SentMessages
    <3>3. 1 \in 1 .. Len(a)
      BY <2>1, <2>3
    <3>4. [a EXCEPT ![1] = "Sent Messages"] \in Seq(D)
      BY <1>1, <2>3, <3>3, ExceptSeq
    <3>5. Len([a EXCEPT ![1] = "Sent Messages"]) = Len(a)
      <4>1. PICK w : w = [a EXCEPT ![1] = "Sent Messages"]
        OBVIOUS
      <4>2. DOMAIN w = 1 .. n /\ DOMAIN w = 1 .. Len(w) /\ Len(w) \in Nat
        BY <2>3, <3>4, <4>1, LenProperties
      <4>3. PICK m : m = Len(w)
        OBVIOUS
      <4>4. n \in Nat /\ n >= 1 /\ m \in Nat /\ 1 .. n = 1 .. m
        BY <4>2, <4>3
      <4>5. n \in 1 .. m /\ (m >= 1 => m \in 1 .. n)
        BY <4>4
      <4>6. n = m
        BY <4>4, <4>5
      <4> QED BY <2>3, <4>1, <4>3, <4>6
    <3> QED BY <2>3, <3>1, <3>2, <3>4, <3>5
  <2>7. \A i \in 1 .. n : c[i] = IF i = 1 /\ a[1] = "Sent" THEN "Sent Messages" ELSE a[i]
    BY <2>3, <2>5 DEF SentMessages
  <2>8. \A i \in 1 .. n : b[i] = c[i]
    BY <1>3, <2>1, <2>3, <2>4, <2>7
  <2>9. b = c
    BY <2>4, <2>6, <2>8, SeqEqual
  <2>10. a # <<>>
    BY <2>1, <2>3, EmptySeq
  <2> QED BY <2>2, <2>3, <2>5, <2>9, <2>10 DEF Paths, D
<1> QED BY <1>2, <1>4, <1>5 DEF Paths, D

\* Every folder above one that can be encoded can be encoded.
LEMMA AboveFacts ==
    ASSUME NEW f \in Pool, NEW p \in Ancestors(SentMessages(f.path))
    PROVE  \E a \in Ancestors(f.path) :
              /\ a \in Paths /\ p = SentMessages(a)
              /\ \A g \in Pool : g.path = a /\ Encodable(Renamed(f)) => Encodable(Renamed(g))
<1>1. f.path \in Paths
  BY AnalysisAssumption DEF Paths
<1>2. PICK s, q : s = f.path /\ q = SentMessages(s)
  OBVIOUS
<1>3. q \in Paths /\ Len(q) = Len(s) /\ Len(s) \in Nat /\ q \in Seq(DOMAIN Utf7) /\ DOMAIN q = 1 .. Len(s)
  BY <1>1, <1>2, SentFacts, LenProperties DEF Paths
<1>4. PICK n \in 1 .. Len(q) - 1 : p = SubSeq(q, 1, n)
  BY <1>2 DEF Ancestors
<1>5. n \in 1 .. Len(s) /\ n \in 1 .. Len(s) - 1
  BY <1>3, <1>4
<1>6. PICK a : a = SubSeq(s, 1, n)
  OBVIOUS
<1>7. a \in Paths /\ Len(a) = n /\ p = SentMessages(a)
  BY <1>1, <1>2, <1>4, <1>5, <1>6, SentFacts
<1>8. a \in Ancestors(f.path)
  BY <1>2, <1>5, <1>6 DEF Ancestors
<1>9. Len(p) = n /\ DOMAIN p = 1 .. n
  <2>1. p \in Paths /\ Len(p) = n
    BY <1>7, SentFacts
  <2> QED BY <2>1, LenProperties DEF Paths
<1>10. \A i \in 1 .. n : p[i] = q[i] /\ i \in 1 .. Len(s)
  <2>1. /\ 1 \in Int /\ n \in Int /\ \A i \in 1 .. n : i \in 1 .. Len(s) /\ 1 + i - 1 = i
        /\ n - 1 + 1 = n
    BY <1>3, <1>5
  <2>2. \A i \in 1 .. n : q[i] \in DOMAIN Utf7
    BY <1>3, <2>1, ElementOfSeq
  <2>3. \A i \in 1 .. n - 1 + 1 : SubSeq(q, 1, n)[i] = q[1 + i - 1]
    BY <2>1, <2>2, SubSeqProperties
  <2> QED BY <1>4, <2>1, <2>3
<1>11. ASSUME NEW g \in Pool, g.path = a, Encodable(Renamed(f))
       PROVE  Encodable(Renamed(g))
  <2>1. Len(q) <= MaxDepth /\ \A i \in DOMAIN q : q[i] \notin Unencodable
    BY <1>2, <1>11 DEF Encodable, Renamed
  <2>2. Len(p) <= MaxDepth
    <3>1. MaxDepth \in Nat
      BY AnalysisAssumption
    <3>2. PICK lp, lq : lp = Len(p) /\ lq = Len(q)
      OBVIOUS
    <3>3. lq \in Nat /\ lp \in 1 .. lq - 1 /\ lq <= MaxDepth
      BY <1>3, <1>4, <1>9, <2>1, <3>2
    <3> QED BY <3>1, <3>2, <3>3
  <2>3. \A i \in DOMAIN p : p[i] \notin Unencodable
    BY <1>3, <1>9, <1>10, <2>1
  <2>4. Renamed(g).name = p
    BY <1>7, <1>11 DEF Renamed
  <2> QED BY <2>2, <2>3, <2>4 DEF Encodable
<1> QED BY <1>7, <1>8, <1>11

\* Every form of a folder of the pool, and the backup folder, is an entry.
LEMMA EntryFacts ==
    /\ \A f \in Pool : /\ f.id \in Nat /\ f.path \in Paths
                       /\ Listed(f) \in Entry /\ Renamed(f) \in Entry /\ Ready(f) \in Entry
    /\ Backup \in Entry /\ Backup.id = BackupId /\ Ancestors(Backup.name) = {}
<1>1. ASSUME NEW p \in Paths
      PROVE  Encoded(p) \in Seq({Utf7[n] : n \in DOMAIN Utf7})
  <2> DEFINE T == {Utf7[n] : n \in DOMAIN Utf7}
  <2>1. Len(p) \in Nat /\ DOMAIN p = 1 .. Len(p) /\ \A i \in 1 .. Len(p) : p[i] \in DOMAIN Utf7
    BY LenProperties, ElementOfSeq DEF Paths
  <2>2. Encoded(p) = [i \in 1 .. Len(p) |-> Utf7[p[i]]] /\ \A i \in 1 .. Len(p) : Utf7[p[i]] \in T
    BY <2>1 DEF Encoded
  <2>3. Encoded(p) \in [1 .. Len(p) -> T]
    <3> HIDE DEF T
    <3> QED BY <2>2
  <2> HIDE DEF T
  <2>4. Encoded(p) \in Seq(T)
    BY <2>1, <2>3, SeqDef
  <2> QED BY <2>4 DEF T
<1>2. ASSUME NEW f \in Pool
      PROVE  /\ f.id \in Nat /\ f.path \in Paths
             /\ Listed(f) \in Entry /\ Renamed(f) \in Entry /\ Ready(f) \in Entry
  <2>1. f.id \in Nat /\ f.path \in Paths
    BY AnalysisAssumption DEF Paths
  <2>2. PICK q : q = SentMessages(f.path)
    OBVIOUS
  <2>3. q \in Paths /\ Encoded(q) \in Seq({Utf7[n] : n \in DOMAIN Utf7})
    BY <1>1, <2>1, <2>2, SentFacts
  <2>4. <<>> \in Seq({Utf7[n] : n \in DOMAIN Utf7})
    OBVIOUS
  <2>5. Listed(f) \in Entry /\ Renamed(f) \in Entry
    BY <2>1, <2>2, <2>3, <2>4 DEF Listed, Renamed, Entry
  <2>6. Ready(f) \in Entry
    BY <2>1, <2>2, <2>3 DEF Ready, Entry
  <2> QED BY <2>1, <2>5, <2>6
<1>3. Backup \in Entry /\ Backup.id = BackupId /\ Ancestors(Backup.name) = {}
  <2>1. BackupName \in DOMAIN Utf7 /\ BackupId \in Nat
    BY AnalysisAssumption
  <2>2. PICK q : q = <<BackupName>>
    OBVIOUS
  <2>3. q \in Paths /\ Len(q) = 1
    BY <2>1, <2>2 DEF Paths
  <2>4. Encoded(q) \in Seq({Utf7[n] : n \in DOMAIN Utf7})
    BY <1>1, <2>3
  <2>5. Ancestors(q) = {}
    <3>1. 1 .. Len(q) - 1 = {}
      BY <2>3
    <3> QED BY <3>1 DEF Ancestors
  <2>6. Backup.name = q /\ Backup.id = BackupId
    BY <2>2 DEF Backup
  <2> QED BY <2>1, <2>2, <2>3, <2>4, <2>5, <2>6 DEF Backup, Entry
<1> QED BY <1>2, <1>3

-----------------------------------------------------------------------------
\* The lists between the filters.

\* A list changed element by element.
LEMMA MapFacts ==
    ASSUME NEW E, NEW F, NEW s \in Seq(E), NEW t, t = [i \in DOMAIN s |-> t[i]],
           \A i \in DOMAIN s : t[i] \in F
    PROVE  /\ t \in Seq(F) /\ Len(t) = Len(s)
           /\ DOMAIN t = 1 .. Len(s) /\ DOMAIN s = 1 .. Len(s) /\ Len(s) \in Nat
           /\ ToSet(t) = {t[i] : i \in DOMAIN s}
<1>1. Len(s) \in Nat /\ DOMAIN s = 1 .. Len(s)
  BY LenProperties
<1>2. DOMAIN t = DOMAIN s
  <2>1. DOMAIN [i \in DOMAIN s |-> t[i]] = DOMAIN s
    OBVIOUS
  <2> QED BY <2>1
<1>3. t \in [1 .. Len(s) -> F]
  BY <1>1
<1>4. t \in Seq(F)
  BY <1>1, <1>3, SeqDef
<1>5. Len(t) = Len(s)
  <2>1. PICK l, m : l = Len(s) /\ m = Len(t)
    OBVIOUS
  <2>2. m \in Nat /\ DOMAIN t = 1 .. m
    BY <1>4, <2>1, LenProperties
  <2>3. l \in Nat /\ 1 .. l = 1 .. m
    BY <1>1, <1>2, <2>1, <2>2
  <2>4. (l >= 1 => l \in 1 .. m) /\ (m >= 1 => m \in 1 .. l)
    BY <2>2, <2>3
  <2> QED BY <2>1, <2>2, <2>3, <2>4
<1> QED BY <1>1, <1>2, <1>4, <1>5 DEF ToSet

\* The folders zn_xml found make a finite set of entries with ids of their own.
LEMMA ListedFacts ==
    ASSUME NEW T \in SUBSET Pool
    PROVE  LET L == {Listed(f) : f \in T}
           IN  /\ IsFiniteSet(L) /\ L \subseteq Entry
               /\ \A e \in L : e.id \in Nat
               /\ \A e, g \in L : e.id = g.id => e = g
<1> DEFINE L == {Listed(f) : f \in T}
           F == [f \in T |-> Listed(f)]
<1>1. IsFiniteSet(T)
  <2>1. IsFiniteSet(Pool)
    BY AnalysisAssumption
  <2> QED BY <2>1, FS_Subset
<1>2. F \in Surjection(T, L)
  <2>1. F \in [T -> L] /\ \A e \in L : \E f \in T : F[f] = e
    OBVIOUS
  <2> QED BY <2>1 DEF Surjection
<1>3. IsFiniteSet(L)
  <2> HIDE DEF L, F
  <2> QED BY <1>1, <1>2, FS_Surjection
<1>4. L \subseteq Entry /\ \A e \in L : e.id \in Nat
  BY EntryFacts DEF Listed
<1>5. ASSUME NEW f \in T, NEW g \in T, Listed(f).id = Listed(g).id
      PROVE  f = g
  <2>1. f \in Pool /\ g \in Pool /\ f.id = g.id
    BY <1>5 DEF Listed
  <2> QED BY <2>1, AnalysisAssumption
<1>6. \A e, g \in L : e.id = g.id => e = g
  BY <1>5
<1> QED BY <1>3, <1>4, <1>6

\* The kept folders are none with the id of the backup folder, and the entries
\* that come of them have ids of their own.
LEMMA KeptFacts ==
    ASSUME TreeInv
    PROVE  /\ Fine \subseteq Kept /\ Kept \subseteq tree /\ tree \subseteq Pool
           /\ \A f \in Kept : f.id # BackupId
           /\ \A f, g \in tree : f.id = g.id => f = g
<1>1. tree \subseteq Pool /\ Kept \subseteq tree /\ Fine \subseteq Kept
  BY DEF TreeInv, Kept, Fine
<1>2. ASSUME NEW f \in Kept PROVE f.id # BackupId
  <2>1. f.id \in Nat
    BY <1>1, EntryFacts
  <2>2. f.id >= CustomId \/ f.id \in DefaultIds
    BY DEF Kept, Necessary
  <2>3. CustomId \in Nat /\ BackupId \in Nat /\ BackupId < CustomId /\ BackupId \notin DefaultIds
    BY AnalysisAssumption
  <2> QED BY <2>1, <2>2, <2>3
<1>3. \A f, g \in tree : f.id = g.id => f = g
  BY <1>1, AnalysisAssumption
<1> QED BY <1>1, <1>2, <1>3

LEMMA UniqueIds ==
    ASSUME TreeInv, Entries \subseteq {Ready(f) : f \in Fine} \cup {Backup}
    PROVE  \A e, g \in Entries : e.id = g.id => e = g
<1>1. \A f \in Fine : Ready(f).id = f.id
  BY DEF Ready
<1>2. Backup.id = BackupId
  BY EntryFacts
<1>3. ASSUME NEW e \in Entries, NEW g \in Entries, e.id = g.id PROVE e = g
  <2>1. CASE e = Backup /\ g = Backup
    BY <2>1
  <2>2. CASE e = Backup /\ g \in {Ready(f) : f \in Fine}
    BY <1>1, <1>2, <1>3, <2>2, KeptFacts
  <2>3. CASE g = Backup /\ e \in {Ready(f) : f \in Fine}
    BY <1>1, <1>2, <1>3, <2>3, KeptFacts
  <2>4. CASE e \in {Ready(f) : f \in Fine} /\ g \in {Ready(f) : f \in Fine}
    <3>1. PICK h \in Fine : e = Ready(h)
      BY <2>4
    <3>2. PICK k \in Fine : g = Ready(k)
      BY <2>4
    <3>3. h.id = k.id /\ h \in tree /\ k \in tree
      BY <1>1, <1>3, <3>1, <3>2, KeptFacts
    <3>4. h = k
      BY <3>3, KeptFacts
    <3> QED BY <3>1, <3>2, <3>4
  <2> QED BY <2>1, <2>2, <2>3, <2>4
<1> QED BY <1>3

LEMMA FilterStart == Init => FilterInv
<1> SUFFICES ASSUME Init PROVE FilterInv
  OBVIOUS
<1>0. phase = "remove"
  BY DEF Init
<1>1. TreeInv
  BY DEF Init, TreeInv
<1>2. FolderInv
  <2> DEFINE L == {Listed(f) : f \in tree}
  <2>1. folders = ById(L)
    BY DEF Init, AsEntries, Listed
  <2>2. tree \in SUBSET Pool
    BY <1>1 DEF TreeInv
  <2>3. /\ IsFiniteSet(L) /\ L \subseteq Entry /\ \A e \in L : e.id \in Nat
        /\ \A e, g \in L : e.id = g.id => e = g
    BY <2>2, ListedFacts
  <2>4. ToSet(ById(L)) = L /\ ById(L) \in Seq(Entry)
    <3> HIDE DEF L
    <3> QED BY <2>3, ByIdFacts
  <2> QED BY <1>0, <2>1, <2>4 DEF FolderInv, Entries
<1>3. MailInv
  <2>1. PICK ms \in SUBSET MailIds : archive \in [ms -> [folder_id : Ids(tree), date : Dates]]
    BY DEF Init
  <2>2. DOMAIN archive = ms /\ mails = archive
    BY <2>1 DEF Init
  <2>3. archive \in [DOMAIN archive -> [folder_id : Ids(tree), date : Dates]]
    BY <2>1, <2>2
  <2>4. mails = [m \in DOMAIN mails |-> archive[m]]
    BY <2>1, <2>2
  <2> QED BY <1>0, <2>2, <2>3, <2>4 DEF MailInv
<1>4. BackupInv /\ TargetInv /\ DiesOnlyForRemovedFolder
  BY <1>0 DEF BackupInv, TargetInv, DiesOnlyForRemovedFolder
<1> QED BY <1>0, <1>1, <1>2, <1>3, <1>4 DEF FilterInv

\* The folders that are neither default nor custom ones go.
LEMMA RemoveStep == FilterInv /\ RemoveUnnecessary => FilterInv'
<1> SUFFICES ASSUME FilterInv, RemoveUnnecessary PROVE FilterInv'
  OBVIOUS
<1>0. /\ phase = "remove" /\ phase' = "limit"
      /\ UNCHANGED <<tree, archive, mails, replaced, counted>>
      /\ folders' = ById({f \in Entries : Necessary(f)})
      /\ TreeInv /\ FolderInv /\ MailInv
  BY DEF RemoveUnnecessary, FilterInv
<1>1. TreeInv'
  BY <1>0 DEF TreeInv
<1>2. FolderInv'
  <2> DEFINE L == {Listed(f) : f \in Kept}
  <2>1. Entries = {Listed(f) : f \in tree}
    BY <1>0 DEF FolderInv
  <2>2. {f \in Entries : Necessary(f)} = L
    <3>1. \A f : Listed(f).id = f.id
      BY DEF Listed
    <3>2. \A f : Necessary(Listed(f)) <=> Necessary(f)
      BY <3>1 DEF Necessary
    <3> QED BY <2>1, <3>2 DEF Kept
  <2>3. Kept \in SUBSET Pool
    BY <1>0, KeptFacts
  <2>4. /\ IsFiniteSet(L) /\ L \subseteq Entry /\ \A e \in L : e.id \in Nat
        /\ \A e, g \in L : e.id = g.id => e = g
    BY <2>3, ListedFacts
  <2>5. ToSet(ById(L)) = L /\ ById(L) \in Seq(Entry)
    <3> HIDE DEF L
    <3> QED BY <2>4, ByIdFacts
  <2>6. folders' \in Seq(Entry) /\ Entries' = L
    BY <1>0, <2>2, <2>5 DEF Entries
  <2>7. Kept' = Kept
    BY <1>0 DEF Kept
  <2> QED BY <1>0, <2>6, <2>7 DEF FolderInv
<1>3. MailInv'
  BY <1>0 DEF MailInv
<1>4. BackupInv' /\ TargetInv' /\ DiesOnlyForRemovedFolder'
  BY <1>0 DEF BackupInv, TargetInv, DiesOnlyForRemovedFolder
<1> QED BY <1>0, <1>1, <1>2, <1>3, <1>4 DEF FilterInv

\* Whatever mails are kept, they are as they were.
LEMMA LimitStep == FilterInv /\ LimitMails => FilterInv'
<1> SUFFICES ASSUME FilterInv, LimitMails PROVE FilterInv'
  OBVIOUS
<1>0. /\ phase = "limit" /\ phase' = "rename"
      /\ UNCHANGED <<tree, archive, folders, replaced, counted>>
      /\ TreeInv /\ FolderInv /\ MailInv
  BY DEF LimitMails, FilterInv
<1>1. TreeInv'
  BY <1>0 DEF TreeInv
<1>2. FolderInv'
  <2>1. Entries' = Entries /\ Kept' = Kept
    BY <1>0 DEF Entries, Kept
  <2> QED BY <1>0, <2>1 DEF FolderInv
<1>3. MailInv'
  <2>1. PICK kept \in SUBSET DOMAIN mails : mails' = [m \in kept |-> mails[m]]
    BY DEF LimitMails
  <2>2. mails = [m \in DOMAIN mails |-> archive[m]] /\ DOMAIN mails \subseteq DOMAIN archive
    BY <1>0 DEF MailInv
  <2>3. \A m \in kept : mails[m] = archive[m]
    BY <2>2
  <2>4. DOMAIN mails' = kept /\ mails' = [m \in kept |-> archive[m]]
    BY <2>1, <2>3
  <2> QED BY <1>0, <2>2, <2>4 DEF MailInv
<1>4. BackupInv' /\ TargetInv' /\ DiesOnlyForRemovedFolder'
  BY <1>0 DEF BackupInv, TargetInv, DiesOnlyForRemovedFolder
<1> QED BY <1>0, <1>1, <1>2, <1>3, <1>4 DEF FilterInv

\* Every kept folder gets its new name.
LEMMA RenameStep == FilterInv /\ ChangeNames => FilterInv'
<1> SUFFICES ASSUME FilterInv, ChangeNames PROVE FilterInv'
  OBVIOUS
<1>0. /\ phase = "rename" /\ phase' = "encode"
      /\ UNCHANGED <<tree, archive, mails, replaced, counted>>
      /\ folders' = [i \in DOMAIN folders |-> [folders[i] EXCEPT !.name = SentMessages(@)]]
      /\ TreeInv /\ FolderInv /\ MailInv
  BY DEF ChangeNames, FilterInv
<1>1. TreeInv'
  BY <1>0 DEF TreeInv
<1>2. FolderInv'
  <2>1. folders \in Seq(Entry) /\ Entries = {Listed(f) : f \in Kept}
    BY <1>0 DEF FolderInv
  <2>2. \A f : [Listed(f) EXCEPT !.name = SentMessages(@)] = Renamed(f)
    BY DEF Listed, Renamed
  <2>3. \A i \in DOMAIN folders : folders[i] \in Entries
    BY DEF Entries, ToSet
  <2>4. \A i \in DOMAIN folders : \E f \in Kept : folders[i] = Listed(f) /\ folders'[i] = Renamed(f)
    <3> SUFFICES ASSUME NEW i \in DOMAIN folders
                 PROVE  \E f \in Kept : folders[i] = Listed(f) /\ folders'[i] = Renamed(f)
      OBVIOUS
    <3>1. PICK f \in Kept : folders[i] = Listed(f)
      BY <2>1, <2>3
    <3>2. folders'[i] = [folders[i] EXCEPT !.name = SentMessages(@)]
      BY <1>0
    <3> QED BY <2>2, <3>1, <3>2
  <2>5. \A i \in DOMAIN folders : folders'[i] \in Entry
    BY <1>0, <2>4, KeptFacts, EntryFacts
  <2>6. folders' = [i \in DOMAIN folders |-> folders'[i]]
    BY <1>0
  <2>7. folders' \in Seq(Entry) /\ ToSet(folders') = {folders'[i] : i \in DOMAIN folders}
    <3>1. PICK t : t = folders'
      OBVIOUS
    <3>2. t = [i \in DOMAIN folders |-> t[i]] /\ \A i \in DOMAIN folders : t[i] \in Entry
      BY <2>5, <2>6, <3>1
    <3>3. t \in Seq(Entry) /\ ToSet(t) = {t[i] : i \in DOMAIN folders}
      BY <2>1, <3>2, MapFacts
    <3> QED BY <3>1, <3>3
  <2>8. {folders'[i] : i \in DOMAIN folders} = {Renamed(f) : f \in Kept}
    <3>1. ASSUME NEW f \in Kept PROVE \E i \in DOMAIN folders : folders'[i] = Renamed(f)
      <4>1. PICK i \in DOMAIN folders : folders[i] = Listed(f)
        BY <2>1 DEF Entries, ToSet
      <4>2. folders'[i] = [folders[i] EXCEPT !.name = SentMessages(@)]
        BY <1>0
      <4> QED BY <2>2, <4>1, <4>2
    <3> QED BY <2>4, <3>1
  <2>9. Entries' = {Renamed(f) : f \in Kept} /\ Kept' = Kept
    BY <1>0, <2>7, <2>8 DEF Entries, Kept
  <2> QED BY <1>0, <2>7, <2>9 DEF FolderInv
<1>3. MailInv'
  BY <1>0 DEF MailInv
<1>4. BackupInv' /\ TargetInv' /\ DiesOnlyForRemovedFolder'
  BY <1>0 DEF BackupInv, TargetInv, DiesOnlyForRemovedFolder
<1> QED BY <1>0, <1>1, <1>2, <1>3, <1>4 DEF FilterInv

\* What can be encoded stays; for what cannot, the backup folder comes, last.
LEMMA EncodeStep == FilterInv /\ EncodeNames => FilterInv'
<1> SUFFICES ASSUME FilterInv, EncodeNames PROVE FilterInv'
  OBVIOUS
<1> DEFINE bad  == {f \in Entries : ~Encodable(f)}
           good == Only(folders, Entries \ bad)
           enc  == [i \in DOMAIN good |-> [good[i] EXCEPT !.utf7name = Encoded(good[i].name)]]
<1>0. /\ phase = "encode" /\ phase' = "replace"
      /\ UNCHANGED <<tree, archive, mails, counted>>
      /\ folders' = (IF bad = {} THEN enc ELSE Append(enc, Backup))
      /\ replaced' = Ids(bad)
      /\ TreeInv /\ FolderInv /\ MailInv
  BY DEF EncodeNames, FilterInv
<1>1. TreeInv'
  BY <1>0 DEF TreeInv
<1>2. folders \in Seq(Entry) /\ Entries = {Renamed(f) : f \in Kept}
  BY <1>0 DEF FolderInv
<1>3. bad = {Renamed(f) : f \in Kept \ Fine} /\ Entries \ bad = {Renamed(f) : f \in Fine}
  BY <1>2 DEF Fine
<1>4. Ids(bad) = Ids(Kept \ Fine)
  <2>1. \A f : Renamed(f).id = f.id
    BY DEF Renamed
  <2> HIDE DEF bad
  <2> QED BY <1>3, <2>1 DEF Ids
<1>5. Ids(bad) = {} <=> bad = {}
  BY DEF Ids
<1>6. good \in Seq(Entry) /\ ToSet(good) = {Renamed(f) : f \in Fine}
  <2>1. PICK S : S = Entries \ bad
    OBVIOUS
  <2>2. Only(folders, S) \in Seq(Entry)
    BY <1>2, OnlyFacts
  <2>3. ToSet(Only(folders, S)) = Entries \cap S
    BY <1>2, OnlyFacts DEF Entries
  <2> QED BY <1>3, <2>1, <2>2, <2>3
<1>7. enc \in Seq(Entry) /\ ToSet(enc) = {Ready(f) : f \in Fine}
  <2>1. PICK s : s = good
    OBVIOUS
  <2>2. PICK t : t = enc
    OBVIOUS
  <2>3. s \in Seq(Entry) /\ ToSet(s) = {Renamed(f) : f \in Fine}
    BY <1>6, <2>1
  <2>4. t = [i \in DOMAIN s |-> [s[i] EXCEPT !.utf7name = Encoded(s[i].name)]]
    BY <2>1, <2>2
  <2> HIDE DEF good, enc, bad
  <2>5. \A f : [Renamed(f) EXCEPT !.utf7name = Encoded(Renamed(f).name)] = Ready(f)
    BY DEF Renamed, Ready
  <2>6. \A i \in DOMAIN s : \E f \in Fine : s[i] = Renamed(f) /\ t[i] = Ready(f)
    <3> SUFFICES ASSUME NEW i \in DOMAIN s
                 PROVE  \E f \in Fine : s[i] = Renamed(f) /\ t[i] = Ready(f)
      OBVIOUS
    <3>1. s[i] \in ToSet(s)
      BY DEF ToSet
    <3>2. PICK f \in Fine : s[i] = Renamed(f)
      BY <2>3, <3>1
    <3>3. t[i] = [s[i] EXCEPT !.utf7name = Encoded(s[i].name)]
      BY <2>4
    <3> QED BY <2>5, <3>2, <3>3
  <2>7. \A i \in DOMAIN s : t[i] \in Entry
    BY <1>0, <2>6, KeptFacts, EntryFacts
  <2>8. t = [i \in DOMAIN s |-> t[i]]
    BY <2>4
  <2>9. t \in Seq(Entry) /\ ToSet(t) = {t[i] : i \in DOMAIN s}
    BY <2>3, <2>7, <2>8, MapFacts
  <2>10. {t[i] : i \in DOMAIN s} = {Ready(f) : f \in Fine}
    <3>1. ASSUME NEW f \in Fine PROVE \E i \in DOMAIN s : t[i] = Ready(f)
      <4>1. Renamed(f) \in ToSet(s)
        BY <2>3
      <4>2. PICK i \in DOMAIN s : s[i] = Renamed(f)
        BY <4>1 DEF ToSet
      <4>3. t[i] = [s[i] EXCEPT !.utf7name = Encoded(s[i].name)]
        BY <2>4
      <4> QED BY <2>5, <4>2, <4>3
    <3> QED BY <2>6, <3>1
  <2> QED BY <2>2, <2>9, <2>10
<1> DEFINE R == {Ready(f) : f \in Fine}
<1>8. /\ folders' \in Seq(Entry)
      /\ Entries' = R \cup (IF replaced' = {} THEN {} ELSE {Backup})
      /\ replaced' # {} => folders' # <<>> /\ folders'[Len(folders')] = Backup
  <2>1. CASE bad = {}
    <3>1. folders' = enc /\ replaced' = {}
      BY <1>0, <1>5, <2>1
    <3> HIDE DEF bad, enc, R
    <3>2. ToSet(folders') = R
      BY <1>7, <3>1 DEF R
    <3> QED BY <1>7, <3>1, <3>2 DEF Entries
  <2>2. CASE bad # {}
    <3>1. replaced' # {}
      BY <1>0, <1>5, <2>2
    <3>2. PICK t : t = enc
      OBVIOUS
    <3>3. PICK u : u = folders'
      OBVIOUS
    <3>4. u = Append(t, Backup) /\ t \in Seq(Entry) /\ Backup \in Entry /\ ToSet(t) = R
      BY <1>0, <1>7, <2>2, <3>2, <3>3, EntryFacts
    <3> HIDE DEF bad, enc, R
    <3>5. /\ Append(t, Backup) \in Seq(Entry) /\ Len(Append(t, Backup)) = Len(t) + 1 /\ Len(t) \in Nat
          /\ \A i \in 1 .. Len(t) : Append(t, Backup)[i] = t[i]
          /\ Append(t, Backup)[Len(t) + 1] = Backup
      BY <3>4, AppendProperties, LenProperties
    <3>6. u \in Seq(Entry) /\ u # <<>> /\ u[Len(u)] = Backup
      BY <3>4, <3>5
    <3>7. ToSet(u) = ToSet(t) \cup {Backup}
      <4>1. DOMAIN t = 1 .. Len(t) /\ DOMAIN u = 1 .. Len(t) + 1
        BY <3>4, <3>5, LenProperties
      <4>2. \A i : i \in 1 .. Len(t) + 1 <=> i \in 1 .. Len(t) \/ i = Len(t) + 1
        BY <3>5
      <4>3. \A i \in 1 .. Len(t) : u[i] = t[i]
        BY <3>4, <3>5
      <4>4. u[Len(t) + 1] = Backup
        BY <3>4, <3>5
      <4> QED BY <4>1, <4>2, <4>3, <4>4 DEF ToSet
    <3>8. Entries' = R \cup {Backup}
      BY <3>3, <3>4, <3>7 DEF Entries
    <3> QED BY <3>1, <3>3, <3>6, <3>8
  <2> QED BY <2>1, <2>2
<1>9. Kept' = Kept /\ Fine' = Fine /\ (Ids(Kept \ Fine))' = Ids(Kept \ Fine)
  BY <1>0 DEF Kept, Fine, Ids
<1>10. FolderInv'
  <2> HIDE DEF bad, good, enc
  <2> QED BY <1>0, <1>4, <1>8, <1>9 DEF FolderInv
<1>11. BackupInv'
  <2>1. \A e \in R : e.id # BackupId
    BY <1>0, KeptFacts DEF Ready
  <2>2. replaced' = {} => \A e \in Entries' : e.id # BackupId
    BY <1>8, <2>1
  <2> QED BY <1>8, <2>2 DEF BackupInv
<1>12. MailInv'
  <2> HIDE DEF bad, good, enc
  <2> QED BY <1>0 DEF MailInv
<1>13. TargetInv' /\ DiesOnlyForRemovedFolder'
  BY <1>0 DEF TargetInv, DiesOnlyForRemovedFolder
<1> QED BY <1>0, <1>1, <1>10, <1>11, <1>12, <1>13 DEF FilterInv

\* The mails of a replaced folder go to the backup folder.
LEMMA ReplaceStep == FilterInv /\ ReplaceAndCount => FilterInv'
<1> SUFFICES ASSUME FilterInv, ReplaceAndCount PROVE FilterInv'
  OBVIOUS
<1>0. /\ phase = "replace" /\ phase' = "fill"
      /\ UNCHANGED <<tree, archive, folders, replaced>>
      /\ mails' = [m \in DOMAIN mails |->
                      IF mails[m].folder_id \in replaced
                      THEN [mails[m] EXCEPT !.folder_id = BackupId] ELSE mails[m]]
      /\ counted' = {mails'[m].folder_id : m \in DOMAIN mails}
      /\ TreeInv /\ FolderInv /\ BackupInv /\ MailInv
  BY DEF ReplaceAndCount, FilterInv
<1>1. TreeInv'
  BY <1>0 DEF TreeInv
<1>2. FolderInv' /\ BackupInv'
  <2>1. Entries' = Entries /\ Kept' = Kept /\ Fine' = Fine /\ (Ids(Kept \ Fine))' = Ids(Kept \ Fine)
    BY <1>0 DEF Entries, Kept, Fine, Ids
  <2>2. FolderInv'
    BY <1>0, <2>1 DEF FolderInv
  <2>3. BackupInv'
    BY <1>0, <2>1 DEF BackupInv
  <2> QED BY <2>2, <2>3
<1>3. MailInv'
  <2>1. /\ mails = [m \in DOMAIN mails |-> archive[m]] /\ DOMAIN mails \subseteq DOMAIN archive
        /\ archive \in [DOMAIN archive -> [folder_id : Ids(tree), date : Dates]]
    BY <1>0 DEF MailInv
  <2>2. DOMAIN mails' = DOMAIN mails
    BY <1>0
  <2>3. ASSUME NEW m \in DOMAIN mails
        PROVE  mails'[m].folder_id = IF archive[m].folder_id \in replaced
                                     THEN BackupId ELSE archive[m].folder_id
    <3>1. mails[m] = archive[m] /\ mails[m] \in [folder_id : Ids(tree), date : Dates]
      BY <2>1
    <3>2. [mails[m] EXCEPT !.folder_id = BackupId].folder_id = BackupId
      BY <3>1
    <3>3. mails'[m] = IF mails[m].folder_id \in replaced
                      THEN [mails[m] EXCEPT !.folder_id = BackupId] ELSE mails[m]
      BY <1>0
    <3> QED BY <3>1, <3>2, <3>3
  <2>4. archive' \in [DOMAIN archive' -> [folder_id : Ids(tree)', date : Dates]]
    BY <1>0, <2>1 DEF Ids
  <2> QED BY <1>0, <2>1, <2>2, <2>3, <2>4 DEF MailInv
<1>4. TargetInv' /\ DiesOnlyForRemovedFolder'
  BY <1>0 DEF TargetInv, DiesOnlyForRemovedFolder
<1> QED BY <1>0, <1>1, <1>2, <1>3, <1>4 DEF FilterInv

\* If every folder of a mail and all above it are necessary ones, every lookup
\* finds its folder: the renaming keeps the parents of what it renames, and a
\* folder that can be encoded has only parents that can be.
LEMMA LookupsFind ==
    ASSUME TreeInv, FolderInv, MailInv, phase = "fill",
           \A m \in DOMAIN archive : \A f, g \in tree :
               f.id = archive[m].folder_id /\ (g = f \/ g.path \in Ancestors(f.path)) => Necessary(g)
    PROVE  Lookups
<1>1. /\ folders \in Seq(Entry) /\ replaced = Ids(Kept \ Fine)
      /\ Entries = {Ready(f) : f \in Fine} \cup (IF replaced = {} THEN {} ELSE {Backup})
  BY DEF FolderInv
<1>2. Entries \subseteq {Ready(f) : f \in Fine} \cup {Backup}
  BY <1>1
<1>3. SUFFICES ASSUME NEW id \in counted
               PROVE  HasId(id) /\ \A p \in Ancestors(InfoById(id).name) : HasName(p)
  BY DEF Lookups
<1>4. PICK m \in DOMAIN mails : id = mails[m].folder_id
  BY DEF MailInv
<1>5. /\ m \in DOMAIN archive /\ archive[m].folder_id \in Ids(tree)
      /\ id = IF archive[m].folder_id \in replaced THEN BackupId ELSE archive[m].folder_id
  BY <1>4 DEF MailInv
<1>6. PICK f \in tree : f.id = archive[m].folder_id
  BY <1>5 DEF Ids
<1>7. f \in Kept
  BY <1>5, <1>6 DEF Kept
<1>8. CASE f.id \in replaced
  <2>1. id = BackupId /\ Backup \in Entries /\ Backup.id = BackupId /\ Ancestors(Backup.name) = {}
    BY <1>1, <1>5, <1>6, <1>8, EntryFacts
  <2>2. HasId(id)
    BY <2>1 DEF HasId
  <2>3. InfoById(id) \in Entries /\ InfoById(id).id = id
    BY <1>1, <2>2, FirstFacts
  <2>4. InfoById(id) = Backup
    BY <1>2, <2>1, <2>3, UniqueIds
  <2>5. Ancestors(InfoById(id).name) = {}
    BY <2>1, <2>4
  <2> QED BY <2>2, <2>5
<1>9. CASE f.id \notin replaced
  <2>1. f \in Fine
    BY <1>1, <1>7, <1>9 DEF Ids
  <2>2. Ready(f) \in Entries /\ Ready(f).id = id /\ Ready(f).name = SentMessages(f.path)
    BY <1>1, <1>5, <1>6, <1>9, <2>1 DEF Ready
  <2>3. HasId(id)
    BY <2>2 DEF HasId
  <2>4. InfoById(id) \in Entries /\ InfoById(id).id = id
    BY <1>1, <2>3, FirstFacts
  <2>5. InfoById(id) = Ready(f)
    BY <1>2, <2>2, <2>4, UniqueIds
  <2>6. ASSUME NEW p \in Ancestors(SentMessages(f.path))
        PROVE  HasName(p)
    <3>1. f \in Pool /\ Encodable(Renamed(f))
      BY <2>1, KeptFacts DEF Fine
    <3>2. PICK a \in Ancestors(f.path) :
              /\ p = SentMessages(a)
              /\ \A g \in Pool : g.path = a /\ Encodable(Renamed(f)) => Encodable(Renamed(g))
      BY <3>1, AboveFacts
    <3>3. PICK g \in tree : g.path = a
      BY <3>2 DEF TreeInv, IsTree
    <3>4. g \in Kept
      BY <1>5, <1>6, <3>2, <3>3 DEF Kept
    <3>5. g \in Fine
      <4>1. g \in Pool
        BY <3>4, KeptFacts
      <4> QED BY <3>1, <3>2, <3>3, <3>4, <4>1 DEF Fine
    <3>6. Ready(g) \in Entries /\ Ready(g).name = p
      BY <1>1, <3>2, <3>3, <3>5 DEF Ready
    <3> QED BY <3>6 DEF HasName
  <2>7. Ancestors(InfoById(id).name) = Ancestors(SentMessages(f.path))
    BY <2>2, <2>5
  <2> QED BY <2>3, <2>6, <2>7
<1> QED BY <1>8, <1>9

\* The parents that were found are counted too.
LEMMA FillStep == FilterInv /\ FillParentFolderMailCounter => FilterInv'
<1> SUFFICES ASSUME FilterInv, FillParentFolderMailCounter PROVE FilterInv'
  OBVIOUS
<1>0. /\ phase = "fill" /\ phase' \in {"sort", "dead"}
      /\ UNCHANGED <<tree, archive, folders, mails, replaced>>
      /\ phase' = "sort" => Lookups /\ counted' = counted \cup ParentIds
      /\ phase' = "dead" => ~Lookups
      /\ TreeInv /\ FolderInv /\ BackupInv /\ MailInv
  BY DEF FillParentFolderMailCounter, FilterInv
<1>1. TreeInv'
  BY <1>0 DEF TreeInv
<1>2. Entries' = Entries /\ Kept' = Kept /\ Fine' = Fine
  BY <1>0 DEF Entries, Kept, Fine
<1>3. FolderInv' /\ BackupInv'
  <2>1. /\ folders \in Seq(Entry)
        /\ Entries = {Ready(f) : f \in Fine} \cup (IF replaced = {} THEN {} ELSE {Backup})
    BY <1>0 DEF FolderInv
  <2>2. Entries \subseteq {Ready(f) : f \in Fine} \cup {Backup}
    BY <2>1
  <2>3. FolderInv'
    BY <1>0, <1>2, <2>1, <2>2 DEF FolderInv
  <2>4. BackupInv'
    BY <1>0, <1>2 DEF BackupInv
  <2> QED BY <2>3, <2>4
<1>4. MailInv'
  <2>1. Ids(tree)' = Ids(tree)
    BY <1>0 DEF Ids
  <2> QED BY <1>0, <2>1 DEF MailInv
<1>5. TargetInv'
  <2> SUFFICES ASSUME phase' = "sort", NEW m \in DOMAIN mails
               PROVE  \E e \in Entries :
                         /\ e.id = mails[m].folder_id /\ e.id \in counted'
                         /\ \A p \in Ancestors(e.name) :
                                \E g \in Entries : g.name = p /\ g.id \in counted'
    BY <1>0, <1>2 DEF TargetInv
  <2>1. PICK id : id = mails[m].folder_id
    OBVIOUS
  <2>2. id \in counted
    BY <1>0, <2>1 DEF MailInv
  <2>3. Lookups /\ counted' = counted \cup ParentIds
    BY <1>0
  <2>4. HasId(id) /\ \A p \in Ancestors(InfoById(id).name) : HasName(p)
    BY <2>2, <2>3 DEF Lookups
  <2>5. folders \in Seq(Entry)
    BY <1>0 DEF FolderInv
  <2>6. PICK e : e = InfoById(id)
    OBVIOUS
  <2>7. e \in Entries /\ e.id = id
    BY <2>4, <2>5, <2>6, FirstFacts
  <2>8. ASSUME NEW p \in Ancestors(e.name)
        PROVE  \E g \in Entries : g.name = p /\ g.id \in counted'
    <3>1. HasName(p)
      BY <2>4, <2>6
    <3>2. InfoByName(p) \in Entries /\ InfoByName(p).name = p
      BY <2>5, <3>1, FirstFacts
    <3>3. InfoByName(p).id \in ParentIds
      BY <2>2, <2>6 DEF ParentIds
    <3> QED BY <2>3, <3>2, <3>3
  <2> QED BY <2>1, <2>2, <2>3, <2>7, <2>8
<1>6. DiesOnlyForRemovedFolder'
  <2> SUFFICES ASSUME phase' = "dead"
               PROVE  \E m \in DOMAIN archive, f, g \in tree :
                         /\ f.id = archive[m].folder_id
                         /\ g = f \/ g.path \in Ancestors(f.path)
                         /\ ~Necessary(g)
    BY <1>0 DEF DiesOnlyForRemovedFolder
  <2>1. ~Lookups
    BY <1>0
  <2> QED BY <1>0, <2>1, LookupsFind
<1> QED BY <1>0, <1>1, <1>3, <1>4, <1>5, <1>6 DEF FilterInv

\* What is counted, and the backup folder at the end, are still there.
LEMMA SortStep == FilterInv /\ PrioritySort => FilterInv'
<1> SUFFICES ASSUME FilterInv, PrioritySort PROVE FilterInv'
  OBVIOUS
<1> DEFINE Stay == {f \in Entries : f.id \in counted \/ f.id \notin DefaultIds}
           sorted == CHOOSE k : k = [n \in 0 .. Len(folders) |->
                                        IF n = 0 THEN <<>> ELSE SortInsert(k[n - 1], folders[n])]
<1>0. /\ phase = "sort" /\ phase' = "done"
      /\ UNCHANGED <<tree, archive, mails, replaced, counted>>
      /\ folders' = Only(sorted[Len(folders)], Stay)
      /\ TreeInv /\ FolderInv /\ BackupInv /\ MailInv /\ TargetInv
  BY DEF PrioritySort, FilterInv
<1>1. TreeInv'
  BY <1>0 DEF TreeInv
<1>2. folders \in Seq(Entry) /\ Len(folders) \in Nat
  BY <1>0, LenProperties DEF FolderInv
<1>3. PICK k : Sorts(folders, Len(folders), k) /\ folders' = Only(k[Len(folders)], Stay)
  <2>1. PICK w : Sorts(folders, Len(folders), w)
    BY <1>2, SortsExists
  <2>2. w = [n \in 0 .. Len(folders) |-> IF n = 0 THEN <<>> ELSE SortInsert(w[n - 1], folders[n])]
    BY <2>1 DEF Sorts
  <2>3. sorted = [n \in 0 .. Len(folders) |-> IF n = 0 THEN <<>> ELSE SortInsert(sorted[n - 1], folders[n])]
    BY <2>2, Zenon
  <2> HIDE DEF sorted
  <2> QED BY <1>0, <2>3 DEF Sorts
<1> HIDE DEF sorted
<1>4. PICK s : s = k[Len(folders)]
  OBVIOUS
<1>5. /\ s \in Seq(Entry) /\ ToSet(s) = Entries
      /\ folders # <<>> /\ folders[Len(folders)].id = BackupId =>
            s # <<>> /\ s[Len(s)] = folders[Len(folders)]
  <2>1. k[Len(folders)] \in Seq(Entry)
    BY <1>2, <1>3, SortFacts
  <2>2. ToSet(k[Len(folders)]) = ToSet(folders)
    BY <1>2, <1>3, SortFacts
  <2>3. folders # <<>> /\ folders[Len(folders)].id = BackupId =>
            /\ k[Len(folders)] # <<>>
            /\ k[Len(folders)][Len(k[Len(folders)])] = folders[Len(folders)]
    BY <1>2, <1>3, SortFacts
  <2> QED BY <1>4, <2>1, <2>2, <2>3 DEF Entries
<1>6. PICK S : S = Stay
  OBVIOUS
<1>7. /\ folders' \in Seq(Entry) /\ Entries' = S
      /\ s # <<>> /\ s[Len(s)] \in S => folders' # <<>> /\ folders'[Len(folders')] = s[Len(s)]
  <2>1. folders' = Only(s, S)
    BY <1>3, <1>4, <1>6
  <2>2. Only(s, S) \in Seq(Entry)
    BY <1>5, OnlyFacts
  <2>3. ToSet(Only(s, S)) = ToSet(s) \cap S
    BY <1>5, OnlyFacts
  <2>4. s # <<>> /\ s[Len(s)] \in S => Only(s, S) # <<>> /\ Only(s, S)[Len(Only(s, S))] = s[Len(s)]
    BY <1>5, OnlyFacts
  <2>5. S \subseteq Entries
    BY <1>6
  <2>6. ToSet(folders') = S
    BY <1>5, <2>1, <2>3, <2>5
  <2>7. Entries' = S
    BY <2>6 DEF Entries
  <2> QED BY <2>1, <2>2, <2>4, <2>7
<1>8. Kept' = Kept /\ Fine' = Fine /\ Entries' \subseteq Entries
  BY <1>0, <1>6, <1>7 DEF Kept, Fine
<1>9. FolderInv'
  <2>1. Entries \subseteq {Ready(f) : f \in Fine} \cup {Backup}
    BY <1>0 DEF FolderInv
  <2> HIDE DEF Stay
  <2> QED BY <1>0, <1>7, <1>8, <2>1 DEF FolderInv
<1>10. BackupInv'
  <2>1. CASE replaced = {}
    <3>1. \A e \in Entries' : e.id # BackupId
      BY <1>0, <1>8, <2>1 DEF BackupInv
    <3> QED BY <1>0, <2>1, <3>1 DEF BackupInv
  <2>2. CASE replaced # {}
    <3>1. folders # <<>> /\ folders[Len(folders)] = Backup /\ Backup.id = BackupId
      BY <1>0, <2>2, EntryFacts DEF BackupInv
    <3>2. s # <<>> /\ s[Len(s)] = Backup
      BY <1>5, <3>1
    <3>3. Backup \in S
      <4>1. Backup \in Entries
        BY <1>5, <3>2, LenProperties, EmptySeq DEF ToSet
      <4>2. BackupId \notin DefaultIds
        BY AnalysisAssumption
      <4> QED BY <1>6, <3>1, <4>1, <4>2
    <3>4. folders' # <<>> /\ folders'[Len(folders')] = Backup
      BY <1>7, <3>2, <3>3
    <3> HIDE DEF Stay
    <3> QED BY <1>0, <2>2, <3>4 DEF BackupInv
  <2> QED BY <2>1, <2>2
<1>11. MailInv'
  <2>1. Ids(tree)' = Ids(tree)
    BY <1>0 DEF Ids
  <2> QED BY <1>0, <2>1 DEF MailInv
<1>12. TargetInv'
  <2> SUFFICES ASSUME NEW m \in DOMAIN mails
               PROVE  \E e \in S :
                         /\ e.id = mails[m].folder_id /\ e.id \in counted
                         /\ \A p \in Ancestors(e.name) :
                                \E g \in S : g.name = p /\ g.id \in counted
    BY <1>0, <1>7 DEF TargetInv
  <2>1. PICK e \in Entries :
           /\ e.id = mails[m].folder_id /\ e.id \in counted
           /\ \A p \in Ancestors(e.name) : \E g \in Entries : g.name = p /\ g.id \in counted
    BY <1>0 DEF TargetInv
  <2> QED BY <1>6, <2>1
<1>13. DiesOnlyForRemovedFolder'
  BY <1>0 DEF DiesOnlyForRemovedFolder
<1> QED BY <1>0, <1>1, <1>9, <1>10, <1>11, <1>12, <1>13 DEF FilterInv

\* The invariant holds in every state of every analysis.
THEOREM FiltersInvariance == Spec => []FilterInv
<1>1. Init => FilterInv
  BY FilterStart
<1>2. FilterInv /\ [Next]_vars => FilterInv'
  <2> SUFFICES ASSUME FilterInv, [Next]_vars PROVE FilterInv'
    OBVIOUS
  <2>1. CASE RemoveUnnecessary
    BY <2>1, RemoveStep
  <2>2. CASE LimitMails
    BY <2>2, LimitStep
  <2>3. CASE ChangeNames
    BY <2>3, RenameStep
  <2>4. CASE EncodeNames
    BY <2>4, EncodeStep
  <2>5. CASE ReplaceAndCount
    BY <2>5, ReplaceStep
  <2>6. CASE FillParentFolderMailCounter
    BY <2>6, FillStep
  <2>7. CASE PrioritySort
    BY <2>7, SortStep
  <2>8. CASE UNCHANGED vars
    <3>1. /\ phase' = phase /\ tree' = tree /\ archive' = archive /\ folders' = folders
          /\ mails' = mails /\ replaced' = replaced /\ counted' = counted
      BY <2>8 DEF vars
    <3>2. /\ Entries' = Entries /\ Kept' = Kept /\ Fine' = Fine /\ Ids(tree)' = Ids(tree)
          /\ Ids(Kept \ Fine)' = Ids(Kept \ Fine)
      BY <3>1 DEF Entries, Kept, Fine, Ids
    <3>3. TreeInv' /\ FolderInv' /\ BackupInv'
      BY <3>1, <3>2 DEF FilterInv, TreeInv, FolderInv, BackupInv
    <3>4. MailInv' /\ TargetInv' /\ DiesOnlyForRemovedFolder'
      BY <3>1, <3>2 DEF FilterInv, MailInv, TargetInv, DiesOnlyForRemovedFolder
    <3> QED BY <3>1, <3>3, <3>4 DEF FilterInv
  <2> QED BY <2>1, <2>2, <2>3, <2>4, <2>5, <2>6, <2>7, <2>8 DEF Next
<1> QED BY <1>1, <1>2, PTL DEF Spec

\* Every mail finds its folder and all the folders above it, and the backup folder
\* exists exactly when a folder was replaced and is created last.
THEOREM TargetsAreComplete == Spec => []TargetsComplete
<1>1. FilterInv => TargetsComplete
  <2> SUFFICES ASSUME FilterInv, phase = "done"
               PROVE  /\ \A m \in DOMAIN mails :
                             /\ HasId(mails[m].folder_id)
                             /\ \A p \in Ancestors(FolderOf(m).name) : HasName(p)
                      /\ HasId(BackupId) <=> replaced # {}
                      /\ \A f \in Entries :
                             f.id # BackupId /\ HasId(BackupId) => Before(f, InfoById(BackupId))
    BY DEF TargetsComplete
  <2>1. /\ folders \in Seq(Entry) /\ TreeInv
        /\ Entries \subseteq {Ready(f) : f \in Fine} \cup {Backup}
    BY DEF FilterInv, FolderInv
  <2>2. /\ DOMAIN folders = 1 .. Len(folders) /\ Len(folders) \in Nat
        /\ folders # <<>> => Len(folders) \in 1 .. Len(folders)
    BY <2>1, LenProperties, EmptySeq
  <2>3. ASSUME NEW m \in DOMAIN mails
        PROVE  HasId(mails[m].folder_id) /\ \A p \in Ancestors(FolderOf(m).name) : HasName(p)
    <3>1. PICK e \in Entries :
             /\ e.id = mails[m].folder_id
             /\ \A p \in Ancestors(e.name) : \E g \in Entries : g.name = p
      BY DEF FilterInv, TargetInv
    <3>2. PICK id : id = mails[m].folder_id
      OBVIOUS
    <3>3. HasId(id)
      BY <3>1, <3>2 DEF HasId
    <3>4. InfoById(id) \in Entries /\ InfoById(id).id = id
      BY <2>1, <3>3, FirstFacts
    <3>5. InfoById(id) = e
      BY <2>1, <3>1, <3>2, <3>4, UniqueIds
    <3>6. FolderOf(m) = e
      BY <3>2, <3>5 DEF FolderOf
    <3> QED BY <3>1, <3>2, <3>3, <3>6 DEF HasName
  <2>4. replaced # {} => folders # <<>> /\ folders[Len(folders)] = Backup
    BY DEF FilterInv, BackupInv
  <2>5. replaced = {} => \A e \in Entries : e.id # BackupId
    BY DEF FilterInv, BackupInv
  <2>6. replaced # {} => Backup \in Entries /\ Backup.id = BackupId
    BY <2>2, <2>4, EntryFacts DEF Entries, ToSet
  <2>7. HasId(BackupId) <=> replaced # {}
    BY <2>5, <2>6 DEF HasId
  <2>8. ASSUME NEW f \in Entries, f.id # BackupId, HasId(BackupId)
        PROVE  Before(f, InfoById(BackupId))
    <3>1. InfoById(BackupId) \in Entries /\ InfoById(BackupId).id = BackupId
      BY <2>1, <2>8, FirstFacts
    <3>2. InfoById(BackupId) = Backup
      BY <2>1, <2>6, <2>7, <2>8, <3>1, UniqueIds
    <3>3. PICK i \in DOMAIN folders : folders[i] = f
      BY DEF Entries, ToSet
    <3>4. i # Len(folders)
      BY <2>4, <2>6, <2>7, <2>8, <3>3
    <3>5. i < Len(folders) /\ Len(folders) \in DOMAIN folders
      BY <2>2, <3>3, <3>4
    <3> QED BY <2>4, <2>7, <2>8, <3>2, <3>3, <3>5 DEF Before
  <2> QED BY <2>3, <2>7, <2>8
<1> QED BY <1>1, FiltersInvariance, PTL

\* The analysis stops only for a mail in, or below, a system folder.
THEOREM DiesOnlyForRemoved == Spec => []DiesOnlyForRemovedFolder
<1>1. FilterInv => DiesOnlyForRemovedFolder
  BY DEF FilterInv
<1> QED BY <1>1, FiltersInvariance, PTL
=============================================================================

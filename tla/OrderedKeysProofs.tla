-------------------------- MODULE OrderedKeysProofs --------------------------
(***************************************************************************)
(* What pop, move_to_end and popitem(last=False) do to an ordered          *)
(* dictionary, for any set K of keys: which keys are left, how many, and   *)
(* in which order.                                                         *)
(***************************************************************************)
EXTENDS OrderedKeys, FiniteSetTheorems, SequenceTheorems, TLAPS

\* A list of keys of K, each key once.
IsList(q, K) == q \in Seq(K) /\ IsInjective(q)

LEMMA ListFacts ==
  ASSUME NEW K, NEW q, IsList(q, K)
  PROVE  /\ Len(q) \in Nat /\ DOMAIN q = 1..Len(q)
         /\ \A i \in 1..Len(q) : q[i] \in K
         /\ \A i, k \in 1..Len(q) : q[i] = q[k] => i = k
         /\ \A g : g \in Range(q) <=> \E i \in 1..Len(q) : q[i] = g
         /\ Range(q) \subseteq K
BY LenProperties DEF IsList, IsInjective, Range

\* pop takes one key out and keeps the order of the others.
LEMMA DropShape ==
  ASSUME NEW K, NEW q, IsList(q, K), NEW j \in 1..Len(q)
  PROVE  /\ RemoveAt(q, j) \in Seq(K)
         /\ Len(RemoveAt(q, j)) = Len(q) - 1
         /\ \A i \in 1..(Len(q) - 1) : RemoveAt(q, j)[i] = IF i < j THEN q[i] ELSE q[i + 1]
<1> DEFINE a == SubSeq(q, 1, j - 1)
           b == SubSeq(q, j + 1, Len(q))
<1>1. /\ Len(q) \in Nat /\ \A i \in 1..Len(q) : q[i] \in K
      /\ j - 1 \in Int /\ j + 1 \in Int
  BY ListFacts
<1>2. /\ a \in Seq(K)
      /\ Len(a) = j - 1
      /\ \A i \in 1..(j - 1) : a[i] = q[i]
  <2>1. \A i \in 1..(j - 1) : q[i] \in K
    BY <1>1
  <2>2. /\ a \in Seq(K)
        /\ Len(a) = IF 1 <= j - 1 THEN j - 1 - 1 + 1 ELSE 0
        /\ \A i \in 1..(j - 1 - 1 + 1) : a[i] = q[1 + i - 1]
    BY <1>1, <2>1, SubSeqProperties
  <2> QED
    BY <1>1, <2>2
<1>3. /\ b \in Seq(K)
      /\ Len(b) = Len(q) - j
      /\ \A i \in 1..(Len(q) - j) : b[i] = q[j + i]
  <2>1. \A i \in (j + 1)..Len(q) : q[i] \in K
    BY <1>1
  <2>2. /\ b \in Seq(K)
        /\ Len(b) = IF j + 1 <= Len(q) THEN Len(q) - (j + 1) + 1 ELSE 0
        /\ \A i \in 1..(Len(q) - (j + 1) + 1) : b[i] = q[(j + 1) + i - 1]
    BY <1>1, <2>1, SubSeqProperties
  <2> QED
    BY <1>1, <2>2
<1>4. RemoveAt(q, j) = a \o b
  BY DEF RemoveAt
<1> HIDE DEF a, b
<1>5. /\ a \o b \in Seq(K)
      /\ Len(a \o b) = Len(a) + Len(b)
      /\ \A i \in 1..(Len(a) + Len(b)) : (a \o b)[i] = IF i <= Len(a) THEN a[i] ELSE b[i - Len(a)]
  BY <1>2, <1>3, ConcatProperties
<1>6. ASSUME NEW i \in 1..(Len(q) - 1)
      PROVE  (a \o b)[i] = IF i < j THEN q[i] ELSE q[i + 1]
  <2>1. (a \o b)[i] = IF i <= j - 1 THEN a[i] ELSE b[i - (j - 1)]
    BY <1>1, <1>2, <1>3, <1>5
  <2>2. CASE i < j
    BY <1>1, <1>2, <2>1, <2>2
  <2>3. CASE ~(i < j)
    <3>1. i - (j - 1) \in 1..(Len(q) - j) /\ j + (i - (j - 1)) = i + 1
      BY <1>1, <2>3
    <3>2. b[i - (j - 1)] = q[j + (i - (j - 1))]
      BY <1>3, <3>1
    <3> QED
      BY <1>1, <2>1, <2>3, <3>1, <3>2
  <2> QED
    BY <2>2, <2>3
<1> QED
  BY <1>1, <1>2, <1>3, <1>4, <1>5, <1>6

LEMMA DropFacts ==
  ASSUME NEW K, NEW q, IsList(q, K), NEW h
  PROVE  /\ IsList(Drop(q, h), K)
         /\ Range(Drop(q, h)) = Range(q) \ {h}
         /\ h \in Range(q) => Len(Drop(q, h)) = Len(q) - 1
         /\ h \notin Range(q) => Drop(q, h) = q
         /\ \A x, y : Before(Drop(q, h), x, y) <=> Before(q, x, y) /\ x # h /\ y # h
<1>1. CASE h \notin Range(q)
  <2>1. Drop(q, h) = q
    BY <1>1 DEF Drop
  <2>2. ASSUME NEW x, NEW y, Before(q, x, y) PROVE x # h /\ y # h
    BY <1>1, <2>2 DEF Before, Range
  <2> QED
    BY <1>1, <2>1, <2>2
<1>2. CASE h \in Range(q)
  <2> DEFINE j == Place(q, h)
             r == RemoveAt(q, j)
             n == Len(q)
             from(i) == IF i < j THEN i ELSE i + 1
  <2>1. j \in 1..n /\ q[j] = h
    BY <1>2, ListFacts DEF Place
  <2>2. Drop(q, h) = r
    BY <1>2 DEF Drop
  <2>3. /\ n \in Nat /\ DOMAIN q = 1..n
        /\ \A i \in 1..n : q[i] \in K
        /\ \A i, k \in 1..n : q[i] = q[k] => i = k
        /\ \A g : g \in Range(q) <=> \E i \in 1..n : q[i] = g
    BY ListFacts
  <2>4. /\ r \in Seq(K) /\ Len(r) = n - 1
        /\ \A i \in 1..(n - 1) : r[i] = IF i < j THEN q[i] ELSE q[i + 1]
    BY <2>1, DropShape
  <2>5. DOMAIN r = 1..(n - 1)
    BY <2>4, LenProperties
  <2> HIDE DEF j, r, n
  \* Place i of the new list was place from(i) of the old one.
  <2>6. /\ \A i \in 1..(n - 1) : from(i) \in 1..n /\ from(i) # j /\ r[i] = q[from(i)]
        /\ \A i, k \in 1..(n - 1) : i < k <=> from(i) < from(k)
        /\ \A m \in 1..n : m # j => \E i \in 1..(n - 1) : from(i) = m
    <3>1. \A i \in 1..(n - 1) : from(i) \in 1..n /\ from(i) # j /\ r[i] = q[from(i)]
      BY <2>1, <2>3, <2>4
    <3>2. \A i, k \in 1..(n - 1) : i < k <=> from(i) < from(k)
      BY <2>1, <2>3
    <3>3. ASSUME NEW m \in 1..n, m # j
          PROVE  \E i \in 1..(n - 1) : from(i) = m
      <4>1. CASE m < j
        BY <2>1, <2>3, <4>1
      <4>2. CASE m > j
        <5>1. m - 1 \in 1..(n - 1) /\ from(m - 1) = m
          BY <2>1, <2>3, <4>2
        <5> QED
          BY <5>1
      <4> QED
        BY <2>1, <2>3, <3>3, <4>1, <4>2
    <3> QED
      BY <3>1, <3>2, <3>3
  <2> HIDE DEF from
  <2>7. IsInjective(r)
    <3> SUFFICES ASSUME NEW i \in 1..(n - 1), NEW k \in 1..(n - 1), r[i] = r[k] PROVE i = k
      BY <2>5 DEF IsInjective
    <3>1. from(i) = from(k)
      BY <2>3, <2>6
    <3>2. ~(from(i) < from(k)) /\ ~(from(k) < from(i))
      BY <2>3, <2>6, <3>1
    <3>3. ~(i < k) /\ ~(k < i)
      BY <2>6, <3>2
    <3> QED
      BY <2>3, <3>3
  <2>8. ASSUME NEW g PROVE g \in Range(r) <=> g \in Range(q) /\ g # h
    <3>1. g \in Range(r) <=> \E i \in 1..(n - 1) : r[i] = g
      BY <2>5 DEF Range
    <3>2. ASSUME g \in Range(r) PROVE g \in Range(q) /\ g # h
      BY <2>1, <2>3, <2>6, <3>1, <3>2
    <3>3. ASSUME g \in Range(q), g # h PROVE g \in Range(r)
      BY <2>1, <2>3, <2>6, <3>1, <3>3
    <3> QED
      BY <3>2, <3>3
  <2>9. ASSUME NEW x, NEW y
        PROVE  Before(r, x, y) <=> Before(q, x, y) /\ x # h /\ y # h
    <3>1. ASSUME Before(r, x, y) PROVE Before(q, x, y) /\ x # h /\ y # h
      <4>1. PICK i, k \in 1..(n - 1) : i < k /\ r[i] = x /\ r[k] = y
        BY <2>5, <3>1 DEF Before
      <4>2. from(i) < from(k) /\ q[from(i)] = x /\ q[from(k)] = y
        BY <2>6, <4>1
      <4>3. from(i) \in 1..n /\ from(k) \in 1..n /\ from(i) # j /\ from(k) # j
        BY <2>6
      <4> QED
        BY <2>1, <2>3, <4>2, <4>3 DEF Before
    <3>2. ASSUME Before(q, x, y), x # h, y # h PROVE Before(r, x, y)
      <4>1. PICK i, k \in 1..n : i < k /\ q[i] = x /\ q[k] = y
        BY <2>3, <3>2 DEF Before
      <4>2. i # j /\ k # j
        BY <2>1, <3>2, <4>1
      <4>3. PICK a \in 1..(n - 1) : from(a) = i
        BY <2>6, <4>2
      <4>4. PICK b \in 1..(n - 1) : from(b) = k
        BY <2>6, <4>2
      <4>5. a < b /\ r[a] = x /\ r[b] = y
        BY <2>6, <4>1, <4>3, <4>4
      <4> QED
        BY <2>5, <4>5 DEF Before
    <3> QED
      BY <3>1, <3>2
  <2>10. Range(r) = Range(q) \ {h}
    BY <2>8
  <2>11. Len(r) = Len(q) - 1
    BY <2>4 DEF n
  <2> QED
    BY <1>2, <2>2, <2>4, <2>7, <2>9, <2>10, <2>11 DEF IsList
<1> QED
  BY <1>1, <1>2

LEMMA AppendFacts ==
  ASSUME NEW K, NEW q, IsList(q, K), NEW h \in K, h \notin Range(q)
  PROVE  /\ IsList(Append(q, h), K)
         /\ Range(Append(q, h)) = Range(q) \cup {h}
         /\ Len(Append(q, h)) = Len(q) + 1
         /\ \A x, y : Before(Append(q, h), x, y) <=> Before(q, x, y) \/ (x \in Range(q) /\ y = h)
<1> DEFINE r == Append(q, h)
           n == Len(q)
<1>1. /\ n \in Nat /\ DOMAIN q = 1..n
      /\ \A i \in 1..n : q[i] \in K
      /\ \A i, k \in 1..n : q[i] = q[k] => i = k
      /\ \A g : g \in Range(q) <=> \E i \in 1..n : q[i] = g
  BY ListFacts
<1>2. /\ r \in Seq(K) /\ Len(r) = n + 1
      /\ \A i \in 1..n : r[i] = q[i]
      /\ r[n + 1] = h
  BY AppendProperties DEF IsList
<1>3. DOMAIN r = 1..(n + 1)
  BY <1>2, LenProperties
<1> HIDE DEF r, n
<1>4. IsInjective(r)
  <2> SUFFICES ASSUME NEW i \in 1..(n + 1), NEW k \in 1..(n + 1), r[i] = r[k] PROVE i = k
    BY <1>3 DEF IsInjective
  <2>1. i \in 1..n \/ i = n + 1
    BY <1>1
  <2>2. k \in 1..n \/ k = n + 1
    BY <1>1
  <2> QED
    BY <1>1, <1>2, <2>1, <2>2
<1>5. ASSUME NEW g PROVE g \in Range(r) <=> g \in Range(q) \/ g = h
  <2>1. g \in Range(r) <=> \E i \in 1..(n + 1) : r[i] = g
    BY <1>3 DEF Range
  <2>2. \A i \in 1..(n + 1) : i \in 1..n \/ i = n + 1
    BY <1>1
  <2>3. n + 1 \in 1..(n + 1) /\ \A i \in 1..n : i \in 1..(n + 1)
    BY <1>1
  <2> QED
    BY <1>1, <1>2, <2>1, <2>2, <2>3
<1>6. ASSUME NEW x, NEW y
      PROVE  Before(r, x, y) <=> Before(q, x, y) \/ (x \in Range(q) /\ y = h)
  <2>1. ASSUME Before(r, x, y) PROVE Before(q, x, y) \/ (x \in Range(q) /\ y = h)
    <3>1. PICK i, k \in 1..(n + 1) : i < k /\ r[i] = x /\ r[k] = y
      BY <1>3, <2>1 DEF Before
    <3>2. i \in 1..n /\ (k \in 1..n \/ k = n + 1)
      BY <1>1, <3>1
    <3> QED
      BY <1>1, <1>2, <3>1, <3>2 DEF Before
  <2>2. ASSUME Before(q, x, y) PROVE Before(r, x, y)
    <3>1. PICK i, k \in 1..n : i < k /\ q[i] = x /\ q[k] = y
      BY <1>1, <2>2 DEF Before
    <3>2. i \in 1..(n + 1) /\ k \in 1..(n + 1)
      BY <1>1
    <3> QED
      BY <1>2, <1>3, <3>1, <3>2 DEF Before
  <2>3. ASSUME x \in Range(q), y = h PROVE Before(r, x, y)
    <3>1. PICK i \in 1..n : q[i] = x
      BY <1>1, <2>3
    <3>2. i \in 1..(n + 1) /\ n + 1 \in 1..(n + 1) /\ i < n + 1
      BY <1>1
    <3> QED
      BY <1>2, <1>3, <2>3, <3>1, <3>2 DEF Before
  <2> QED
    BY <2>1, <2>2, <2>3
<1>7. Range(r) = Range(q) \cup {h}
  BY <1>5
<1> QED
  BY <1>2, <1>4, <1>6, <1>7 DEF IsList, r, n

LEMMA ToEndFacts ==
  ASSUME NEW K, NEW q, IsList(q, K), NEW h \in K
  PROVE  /\ IsList(ToEnd(q, h), K)
         /\ Range(ToEnd(q, h)) = Range(q) \cup {h}
         /\ h \notin Range(q) => ToEnd(q, h) = Append(q, h)
         /\ h \in Range(q) => Len(ToEnd(q, h)) = Len(q)
<1>1. /\ IsList(Drop(q, h), K) /\ Range(Drop(q, h)) = Range(q) \ {h} /\ h \notin Range(Drop(q, h))
      /\ h \in Range(q) => Len(Drop(q, h)) = Len(q) - 1
      /\ h \notin Range(q) => Drop(q, h) = q
  BY DropFacts
<1>2. /\ IsList(Append(Drop(q, h), h), K)
      /\ Range(Append(Drop(q, h), h)) = Range(Drop(q, h)) \cup {h}
      /\ Len(Append(Drop(q, h), h)) = Len(Drop(q, h)) + 1
  BY <1>1, AppendFacts
<1>3. Len(q) \in Nat
  BY ListFacts
<1> QED
  BY <1>1, <1>2, <1>3 DEF ToEnd

\* As many keys as the lists are long.
LEMMA LenOfList ==
  ASSUME NEW K, NEW q, IsList(q, K)
  PROVE  IsFiniteSet(Range(q)) /\ Cardinality(Range(q)) = Len(q)
<1> DEFINE n == Len(q)
<1>1. /\ n \in Nat /\ DOMAIN q = 1..n /\ \A i, k \in 1..n : q[i] = q[k] => i = k
      /\ \A g : g \in Range(q) <=> \E i \in 1..n : q[i] = g
  BY ListFacts
<1>2. q \in [1..n -> Range(q)]
  BY <1>1, LenProperties DEF IsList
<1> HIDE DEF n
<1>3. q \in Bijection(1..n, Range(q))
  BY <1>1, <1>2 DEF Bijection, Injection, Surjection, IsInjective
<1>4. ExistsBijection(1..n, Range(q))
  BY <1>3 DEF ExistsBijection
<1>5. IsFiniteSet(1..n) /\ Cardinality(1..n) = n
  <2>1. Cardinality(1..n) = IF 1 > n THEN 0 ELSE n - 1 + 1
    BY <1>1, FS_Interval
  <2> QED
    BY <1>1, <2>1, FS_Interval
<1>6. IsFiniteSet(Range(q)) /\ Cardinality(Range(q)) = Cardinality(1..n)
  BY <1>4, <1>5, FS_Bijection
<1> QED
  BY <1>5, <1>6 DEF n

\* move_to_end brings a key behind all others and keeps their order.
LEMMA ToEndOrder ==
  ASSUME NEW K, NEW q, IsList(q, K), NEW h \in K
  PROVE  \A x, y : Before(ToEnd(q, h), x, y) <=>
                     \/ Before(q, x, y) /\ x # h /\ y # h
                     \/ x \in Range(q) /\ x # h /\ y = h
<1>1. /\ IsList(Drop(q, h), K) /\ Range(Drop(q, h)) = Range(q) \ {h}
      /\ \A x, y : Before(Drop(q, h), x, y) <=> Before(q, x, y) /\ x # h /\ y # h
  BY DropFacts
<1>2. h \notin Range(Drop(q, h))
  BY <1>1
<1>3. \A x, y : Before(ToEnd(q, h), x, y) <=>
                   Before(Drop(q, h), x, y) \/ (x \in Range(Drop(q, h)) /\ y = h)
  BY <1>1, <1>2, AppendFacts DEF ToEnd
<1> QED
  BY <1>1, <1>3

\* popitem(last=False) takes the oldest key.
LEMMA TailFacts ==
  ASSUME NEW K, NEW q, IsList(q, K), q # <<>>
  PROVE  /\ IsList(Tail(q), K) /\ Len(Tail(q)) = Len(q) - 1
         /\ q[1] \in Range(q) /\ Range(Tail(q)) = Range(q) \ {q[1]}
         /\ \A y \in Range(q) : y # q[1] => Before(q, q[1], y)
         /\ \A x, y : Before(Tail(q), x, y) <=> Before(q, x, y) /\ x # q[1]
<1> DEFINE n == Len(q)
           t == Tail(q)
<1>1. /\ n \in Nat /\ n # 0 /\ DOMAIN q = 1..n
      /\ \A i, k \in 1..n : q[i] = q[k] => i = k
      /\ \A g : g \in Range(q) <=> \E i \in 1..n : q[i] = g
  BY ListFacts, EmptySeq DEF IsList
<1>2. t \in Seq(K) /\ Len(t) = n - 1 /\ \A i \in 1..(n - 1) : t[i] = q[i + 1]
  BY HeadTailProperties DEF IsList
<1>3. DOMAIN t = 1..(n - 1)
  BY <1>1, <1>2, LenProperties
<1> HIDE DEF n, t
<1>4. /\ \A i \in 1..(n - 1) : i + 1 \in 1..n /\ i + 1 # 1
      /\ \A i \in 1..n : i # 1 => i - 1 \in 1..(n - 1) /\ (i - 1) + 1 = i /\ 1 < i
      /\ 1 \in 1..n
  BY <1>1
<1>5. IsInjective(t)
  <2> SUFFICES ASSUME NEW i \in 1..(n - 1), NEW k \in 1..(n - 1), t[i] = t[k] PROVE i = k
    BY <1>3 DEF IsInjective
  <2>1. i + 1 = k + 1
    BY <1>1, <1>2, <1>4
  <2> QED
    BY <1>1, <2>1
<1>6. \A g : g \in Range(t) <=> \E i \in 1..(n - 1) : t[i] = g
  BY <1>3 DEF Range
<1>7. ASSUME NEW g PROVE g \in Range(t) <=> g \in Range(q) /\ g # q[1]
  <2>1. ASSUME g \in Range(t) PROVE g \in Range(q) /\ g # q[1]
    BY <1>1, <1>2, <1>4, <1>6, <2>1
  <2>2. ASSUME g \in Range(q), g # q[1] PROVE g \in Range(t)
    <3>1. PICK i \in 1..n : q[i] = g
      BY <1>1, <2>2
    <3>2. i # 1
      BY <2>2, <3>1
    <3>3. t[i - 1] = g
      BY <1>2, <1>4, <3>1, <3>2
    <3> QED
      BY <1>4, <1>6, <3>2, <3>3
  <2> QED
    BY <2>1, <2>2
<1>8. ASSUME NEW y \in Range(q), y # q[1] PROVE Before(q, q[1], y)
  <2>1. PICK i \in 1..n : q[i] = y
    BY <1>1
  <2> QED
    BY <1>1, <1>4, <1>8, <2>1 DEF Before
<1>9. ASSUME NEW x, NEW y PROVE Before(t, x, y) <=> Before(q, x, y) /\ x # q[1]
  <2>1. ASSUME Before(t, x, y) PROVE Before(q, x, y) /\ x # q[1]
    <3>1. PICK i, k \in 1..(n - 1) : i < k /\ t[i] = x /\ t[k] = y
      BY <1>3, <2>1 DEF Before
    <3>2. i + 1 < k + 1 /\ q[i + 1] = x /\ q[k + 1] = y
      BY <1>1, <1>2, <3>1
    <3>3. x # q[1]
      BY <1>1, <1>4, <3>2
    <3> QED
      BY <1>1, <1>4, <3>2, <3>3 DEF Before
  <2>2. ASSUME Before(q, x, y), x # q[1] PROVE Before(t, x, y)
    <3>1. PICK i, k \in 1..n : i < k /\ q[i] = x /\ q[k] = y
      BY <1>1, <2>2 DEF Before
    <3>2. i # 1 /\ k # 1
      BY <1>1, <2>2, <3>1
    <3>3. i - 1 < k - 1 /\ t[i - 1] = x /\ t[k - 1] = y
      BY <1>1, <1>2, <1>4, <3>1, <3>2
    <3> QED
      BY <1>3, <1>4, <3>2, <3>3 DEF Before
  <2> QED
    BY <2>1, <2>2
<1>10. Range(t) = Range(q) \ {q[1]} /\ q[1] \in Range(q)
  BY <1>1, <1>4, <1>7
<1> QED
  BY <1>2, <1>5, <1>8, <1>9, <1>10 DEF IsList, n, t
=============================================================================
